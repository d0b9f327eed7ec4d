----------------------------- MODULE EngineProofs -----------------------------
(***************************************************************************)
(* Theorems about OrderBook, for every grid, arena size and input set: the *)
(* lists that the engine threads through its slots, and the caches over    *)
(* them, are what the code takes them for.                                 *)
(*                                                                         *)
(* A list is described slot by slot, through the links of neighbours; no   *)
(* step follows a chain of links.  What a walk of a side finds is described*)
(* at the end, as a sequence of slots: a Chain of the side.  Each action   *)
(* keeps the chains it does not touch, takes one slot out of a chain or    *)
(* puts one in.                                                            *)
(***************************************************************************)
EXTENDS OrderBook, BookLemmas

-----------------------------------------------------------------------------
(* The inductive invariant.                                                *)

Live(i) == slots[i].order # NoOrder

(* The slots whose orders rest at level l of side s.                       *)
At(s, l) == {i \in SlotIdxs : Live(i) /\ slots[i].order.side = s /\ slots[i].level = l}

LiveSlots == {i \in SlotIdxs : Live(i)}

BookTyped == /\ slots \in [SlotIdxs -> Slot]
             /\ freeHead \in SlotIdxs \cup {NIL}
             /\ len \in 0 .. MaxLiveOrders
             /\ levels \in [Sides -> [LevelIdxs -> Level]]
             /\ occupied \in [Sides -> SUBSET LevelIdxs]
             /\ best \in [Sides -> LevelIdxs \cup {NIL}]
             /\ index \in [OrderIds -> SlotIdxs \cup {NIL}]

(* The neighbours of a resting order are at its level and point back; who  *)
(* has none is at that end of the level.                                   *)
Mirrored(i) ==
  LET s == slots[i].order.side
      l == slots[i].level
      p == slots[i].prev
      n == slots[i].next
  IN  /\ l \in LevelIdxs
      /\ p = NIL => levels[s][l].head = i
      /\ p # NIL => p \in At(s, l) /\ slots[p].next = i
      /\ n = NIL => levels[s][l].tail = i
      /\ n # NIL => n \in At(s, l) /\ slots[n].prev = i

(* The ends of a level are orders at that level, and a level has both or   *)
(* none.                                                                   *)
Ended(s, l) ==
  LET h == levels[s][l].head
      t == levels[s][l].tail
  IN  /\ h # NIL => h \in At(s, l) /\ slots[h].prev = NIL
      /\ t # NIL => t \in At(s, l) /\ slots[t].next = NIL
      /\ h = NIL <=> t = NIL

ListsLinked == /\ \A i \in LiveSlots : Mirrored(i)
               /\ \A s \in Sides, l \in LevelIdxs : Ended(s, l)

(* Orders can be numbered so that `next` leads to higher numbers: no list  *)
(* runs in a circle.                                                       *)
ListsEnd == \E age \in [SlotIdxs -> Nat] :
              \A i \in LiveSlots : slots[i].next # NIL => age[i] < age[slots[i].next]

(* order_count and len.                                                    *)
CountsRight == /\ \A s \in Sides, l \in LevelIdxs : levels[s][l].count = Cardinality(At(s, l))
               /\ len = Cardinality(LiveSlots)

(* t is the sum of w over the slots: acc[k] is the sum over the first k.   *)
SumsTo(w, t) ==
  \E acc \in [0 .. MaxLiveOrders -> Nat] :
    /\ acc[0] = 0
    /\ acc[MaxLiveOrders] = t
    /\ \A k \in SlotIdxs : acc[k + 1] = acc[k] + w[k]
    /\ \A j, k \in 0 .. MaxLiveOrders : j <= k => acc[j] <= acc[k]

QtysAt(s, l) == [i \in SlotIdxs |-> IF i \in At(s, l) THEN slots[i].order.remaining ELSE 0]

(* total_qty.                                                              *)
TotalsRight == \A s \in Sides, l \in LevelIdxs : SumsTo(QtysAt(s, l), levels[s][l].total)

(* The free list holds every free slot once: it is a stack whose top is    *)
(* freeHead.                                                               *)
Stacked(f, m) ==
  /\ freeHead = IF m = 0 THEN NIL ELSE f[m]
  /\ \A k \in 1 .. m : ~ Live(f[k]) /\ slots[f[k]].next = IF k = 1 THEN NIL ELSE f[k - 1]
  /\ \A j, k \in 1 .. m : f[j] = f[k] => j = k
  /\ \A i \in SlotIdxs \ LiveSlots : \E k \in 1 .. m : f[k] = i

FreeStack == \E f \in [1 .. MaxLiveOrders - len -> SlotIdxs] : Stacked(f, MaxLiveOrders - len)

(* The index and the slots are inverse to each other.                      *)
IndexInverse ==
  /\ \A id \in OrderIds : index[id] # NIL => Live(index[id]) /\ slots[index[id]].order.id = id
  /\ \A i \in LiveSlots : index[slots[i].order.id] = i

(* An order rests at the level of its price, with something left of it.    *)
OrdersInPlace ==
  \A i \in LiveSlots : LET o == slots[i].order
                       IN  /\ o.remaining > 0
                           /\ OnGrid(o.price)
                           /\ slots[i].level = PriceToIdx(o.price)

Occupied(s) == {l \in LevelIdxs : levels[s][l].count > 0}

SidesApart == \A b \in Occupied("Bid"), a \in Occupied("Ask") : b < a

BookInv == /\ BookTyped
           /\ ListsLinked
           /\ ListsEnd
           /\ CountsRight
           /\ TotalsRight
           /\ FreeStack
           /\ IndexInverse
           /\ BestIsTrue
           /\ OrdersInPlace
           /\ SidesApart

(* The match loop: the order in it is in no slot, and its cursor, while it *)
(* has one, is inside a level.                                             *)
LoopInv == /\ taker \in Takers \cup {NoOrder}
           /\ lvl \in LevelIdxs \cup {NIL}
           /\ cur \in SlotIdxs \cup {NIL}
           /\ out \in Seq(Event)
           /\ taker # NoOrder => index[taker.id] = NIL /\ OnGrid(taker.price)
           /\ lvl # NIL => taker # NoOrder
           /\ cur # NIL => lvl # NIL

IInv == BookInv /\ LoopInv /\ CursorAtHead /\ FreeSlotForTaker

-----------------------------------------------------------------------------
(* Types of what the actions build.                                        *)

LEMMA EventTypes ==
  /\ \A id \in OrderIds : Ack(id) \in Event
  /\ \A id \in OrderIds, r \in Nat, why \in {"User", "Ioc", "SelfTradePrevention"} :
       Cancelled(id, r, why) \in Event
  /\ \A t \in Takers, id \in OrderIds, p \in I64, q \in Nat : Fill(t, id, p, q) \in Event
  /\ \A id \in OrderIds,
        why \in {"DuplicateOrderId", "UnknownOrderId", "PriceOutOfBounds", "ZeroQty",
                 "FokUnfillable", "ArenaFull", "WrongTrader"} :
       Rejected(id, why) \in Event
BY DEF Ack, Cancelled, Fill, Rejected, Event, Takers

LEMMA RestingTyped == ASSUME NEW t \in Takers PROVE Resting(t) \in Order
BY DEF Takers, Order, Resting

LEMMA OppositeTyped == \A s \in Sides : Opposite(s) \in Sides /\ Opposite(s) # s
BY DEF Sides, Opposite

-----------------------------------------------------------------------------
(* Numbers.                                                                *)

LEMMA SlotsAreNats ==
  /\ MaxLiveOrders \in Nat \ {0} /\ SlotIdxs \subseteq Nat /\ NIL \notin SlotIdxs
  /\ NumLevels \in Nat \ {0} /\ LevelIdxs \subseteq Nat /\ NIL \notin LevelIdxs
  /\ IsFiniteSet(SlotIdxs) /\ Cardinality(SlotIdxs) = MaxLiveOrders
<1>1. MaxLiveOrders \in Nat \ {0} /\ SlotIdxs \subseteq Nat /\ NIL \notin SlotIdxs
  BY BookAssumption DEF SlotIdxs, NIL
<1>2. NumLevels \in Nat \ {0} /\ LevelIdxs \subseteq Nat /\ NIL \notin LevelIdxs
  BY GridAssumption DEF LevelIdxs, NIL
<1>3. IsFiniteSet(SlotIdxs) /\ Cardinality(SlotIdxs) = MaxLiveOrders
  BY <1>1, FS_Interval DEF SlotIdxs
<1> QED BY <1>1, <1>2, <1>3

(* There is a best level among any.                                        *)
LEMMA BestExists ==
  ASSUME NEW s \in Sides, NEW T \in SUBSET LevelIdxs, T # {}
  PROVE  \E m \in T : \A n \in T \ {m} : Better(s, m, n)
<1>1. T \in SUBSET Nat /\ NumLevels - 1 \in Nat /\ T \in SUBSET (0 .. NumLevels - 1)
  BY SlotsAreNats DEF LevelIdxs
<1>2. CASE s = "Bid"
  <2>1. PICK m \in T : \A n \in T : n <= m
    BY <1>1, LargestExists
  <2>2. ASSUME NEW n \in T \ {m} PROVE Better(s, m, n)
    BY <1>1, <1>2, <2>1 DEF Better
  <2> QED BY <2>2
<1>3. CASE s # "Bid"
  <2>1. PICK m \in T : \A n \in T : m <= n
    BY <1>1, SmallestExists
  <2>2. ASSUME NEW n \in T \ {m} PROVE Better(s, m, n)
    BY <1>1, <1>3, <2>1 DEF Better
  <2> QED BY <2>2
<1> QED BY <1>2, <1>3

(* Changing one summand changes the sum, of which it was a part.           *)
LEMMA SumChange ==
  ASSUME NEW w \in [SlotIdxs -> Nat], NEW t, SumsTo(w, t),
         NEW i \in SlotIdxs, NEW v \in Nat
  PROVE  /\ t \in Nat /\ w[i] \in Nat /\ w[i] <= t
         /\ SumsTo([w EXCEPT ![i] = v], t - w[i] + v)
<1>1. PICK acc \in [0 .. MaxLiveOrders -> Nat] :
        /\ acc[0] = 0
        /\ acc[MaxLiveOrders] = t
        /\ \A k \in SlotIdxs : acc[k + 1] = acc[k] + w[k]
        /\ \A j, k \in 0 .. MaxLiveOrders : j <= k => acc[j] <= acc[k]
  BY DEF SumsTo
<1>2. MaxLiveOrders \in Nat /\ i \in 0 .. MaxLiveOrders /\ i + 1 \in 0 .. MaxLiveOrders
      /\ MaxLiveOrders \in 0 .. MaxLiveOrders /\ 0 \in 0 .. MaxLiveOrders
  BY SlotsAreNats DEF SlotIdxs
<1>3. t \in Nat /\ w[i] \in Nat /\ acc[i] \in Nat /\ acc[i + 1] \in Nat
  BY <1>1, <1>2
<1>4. acc[i + 1] = acc[i] + w[i] /\ acc[i + 1] <= t
  BY <1>1, <1>2
<1> DEFINE new == [k \in 0 .. MaxLiveOrders |-> IF k <= i THEN acc[k] ELSE acc[k] - w[i] + v]
           w2 == [w EXCEPT ![i] = v]
<1>5. ASSUME NEW k \in 0 .. MaxLiveOrders, ~ (k <= i) PROVE acc[k] - w[i] \in Nat
  <2>1. acc[i + 1] <= acc[k] /\ acc[k] \in Nat
    BY <1>1, <1>2, <1>5
  <2> QED BY <1>3, <1>4, <2>1
<1>6. new \in [0 .. MaxLiveOrders -> Nat]
  BY <1>5
<1>7. new[0] = 0 /\ new[MaxLiveOrders] = t - w[i] + v
  BY <1>1, <1>2, SlotsAreNats DEF SlotIdxs
<1>8. ASSUME NEW k \in SlotIdxs PROVE new[k + 1] = new[k] + w2[k]
  <2>1. k \in 0 .. MaxLiveOrders /\ k + 1 \in 0 .. MaxLiveOrders /\ acc[k + 1] = acc[k] + w[k]
        /\ acc[k] \in Nat /\ acc[k + 1] \in Nat /\ w[k] \in Nat
    BY <1>1, SlotsAreNats DEF SlotIdxs
  <2>2. CASE k < i
    BY <1>2, <2>1, <2>2
  <2>3. CASE k = i
    BY <1>2, <1>3, <1>4, <2>1, <2>3
  <2>4. CASE k > i
    <3>1. ~ (k <= i) /\ ~ (k + 1 <= i) /\ k # i
      BY <1>2, <2>1, <2>4
    <3>2. /\ new[k] = acc[k] - w[i] + v
          /\ new[k + 1] = acc[k + 1] - w[i] + v
          /\ w2[k] = w[k]
      BY <2>1, <3>1
    <3> HIDE DEF new, w2
    <3> QED BY <1>3, <2>1, <3>2
  <2> QED BY <1>2, <2>1, <2>2, <2>3, <2>4
<1>9. ASSUME NEW j \in 0 .. MaxLiveOrders, NEW k \in 0 .. MaxLiveOrders, j <= k
      PROVE  new[j] <= new[k]
  <2>1. acc[j] <= acc[k] /\ acc[j] \in Nat /\ acc[k] \in Nat
    BY <1>1, <1>9
  <2>2. CASE j <= i /\ ~ (k <= i)
    <3>1. acc[j] <= acc[i] /\ acc[i + 1] <= acc[k]
      BY <1>1, <1>2, <2>2
    <3>2. new[j] = acc[j] /\ new[k] = acc[k] - w[i] + v
      BY <2>2
    <3> QED BY <1>3, <1>4, <2>1, <3>1, <3>2
  <2>3. CASE j <= i /\ k <= i
    BY <2>1, <2>3
  <2>4. CASE ~ (j <= i)
    <3>1. ~ (k <= i)
      BY <1>2, <1>9, <2>4
    <3> QED BY <1>3, <2>1, <2>4, <3>1
  <2> QED BY <2>2, <2>3, <2>4
<1>10. SumsTo(w2, t - w[i] + v)
  <2> HIDE DEF new, w2
  <2> QED BY <1>6, <1>7, <1>8, <1>9 DEF SumsTo
<1> QED BY <1>3, <1>4, <1>10

(* A sum of zeros.                                                         *)
LEMMA SumOfNothing == SumsTo([i \in SlotIdxs |-> 0], 0)
<1> DEFINE acc == [k \in 0 .. MaxLiveOrders |-> 0]
<1>1. acc \in [0 .. MaxLiveOrders -> Nat] /\ acc[0] = 0 /\ acc[MaxLiveOrders] = 0
  BY SlotsAreNats
<1>2. \A k \in SlotIdxs : acc[k + 1] = acc[k] + [i \in SlotIdxs |-> 0][k]
  BY SlotsAreNats DEF SlotIdxs
<1>3. \A j, k \in 0 .. MaxLiveOrders : j <= k => acc[j] <= acc[k]
  OBVIOUS
<1> HIDE DEF acc
<1> QED BY <1>1, <1>2, <1>3 DEF SumsTo

-----------------------------------------------------------------------------
(* Slots and levels, field by field.                                       *)

LEMMA SlotTyped ==
  ASSUME BookTyped, NEW i \in SlotIdxs
  PROVE  /\ slots[i] \in Slot
         /\ slots[i].order \in Order \cup {NoOrder}
         /\ slots[i].level \in LevelIdxs \cup {NIL}
         /\ slots[i].prev \in SlotIdxs \cup {NIL}
         /\ slots[i].next \in SlotIdxs \cup {NIL}
BY DEF BookTyped, Slot

LEMMA LiveTyped ==
  ASSUME BookTyped, NEW i \in SlotIdxs, Live(i)
  PROVE  /\ slots[i].order \in Order
         /\ slots[i].order.id \in OrderIds
         /\ slots[i].order.trader \in TraderIds
         /\ slots[i].order.side \in Sides
         /\ slots[i].order.price \in I64
         /\ slots[i].order.remaining \in Nat
BY SlotTyped DEF Live, Order

LEMMA LevelTyped ==
  ASSUME BookTyped, NEW s \in Sides, NEW l \in LevelIdxs
  PROVE  /\ levels[s][l] \in Level
         /\ levels[s][l].head \in SlotIdxs \cup {NIL}
         /\ levels[s][l].tail \in SlotIdxs \cup {NIL}
         /\ levels[s][l].total \in Nat
         /\ levels[s][l].count \in Nat
BY DEF BookTyped, Level

LEMMA AtFinite ==
  /\ \A s, l : IsFiniteSet(At(s, l)) /\ Cardinality(At(s, l)) \in Nat
  /\ IsFiniteSet(LiveSlots) /\ Cardinality(LiveSlots) \in Nat
<1>1. ASSUME NEW T \in SUBSET SlotIdxs PROVE IsFiniteSet(T) /\ Cardinality(T) \in Nat
  BY SlotsAreNats, FS_Subset, FS_CardinalityType
<1>2. \A s, l : At(s, l) \in SUBSET SlotIdxs
  BY DEF At
<1>3. LiveSlots \in SUBSET SlotIdxs
  BY DEF LiveSlots
<1> QED BY <1>1, <1>2, <1>3

-----------------------------------------------------------------------------
(* unlink_and_free takes a live slot out of everything.                    *)

(* The level it leaves, field by field.                                    *)
LEMMA UnlinkedFields ==
  ASSUME NEW lv, NEW slot
  PROVE  /\ Unlinked(lv, slot).head = IF slot.prev = NIL THEN slot.next ELSE lv.head
         /\ Unlinked(lv, slot).tail = IF slot.next = NIL THEN slot.prev ELSE lv.tail
         /\ Unlinked(lv, slot).total = lv.total - slot.order.remaining
         /\ Unlinked(lv, slot).count = lv.count - 1
         /\ Unlinked(lv, slot) = [head  |-> Unlinked(lv, slot).head,
                                  tail  |-> Unlinked(lv, slot).tail,
                                  total |-> Unlinked(lv, slot).total,
                                  count |-> Unlinked(lv, slot).count]
BY DEF Unlinked

LEMMA UnlinkedTyped ==
  ASSUME NEW lv \in Level, NEW slot \in Slot, slot.order.remaining \in Nat,
         slot.order.remaining <= lv.total, lv.count > 0
  PROVE  Unlinked(lv, slot) \in Level
<1> DEFINE u == Unlinked(lv, slot)
<1>1. /\ slot.prev \in SlotIdxs \cup {NIL} /\ slot.next \in SlotIdxs \cup {NIL}
      /\ lv.head \in SlotIdxs \cup {NIL} /\ lv.tail \in SlotIdxs \cup {NIL}
      /\ lv.total \in Nat /\ lv.count \in Nat
  BY DEF Slot, Level
<1>2. PICK a \in Nat, b \in Nat, c \in Nat :
        a = slot.order.remaining /\ b = lv.total /\ c = lv.count
  BY <1>1
<1>3. b - a \in Nat /\ c - 1 \in Nat
  BY <1>2
<1>4. u.total \in Nat /\ u.count \in Nat
  BY <1>2, <1>3, UnlinkedFields, Zenon
<1>5. u.head \in SlotIdxs \cup {NIL}
  BY <1>1, UnlinkedFields, Zenon
<1>6. u.tail \in SlotIdxs \cup {NIL}
  BY <1>1, UnlinkedFields, Zenon
<1>7. u = [head |-> u.head, tail |-> u.tail, total |-> u.total, count |-> u.count]
  BY UnlinkedFields, Zenon
<1> HIDE DEF u
<1>8. u \in Level
  BY <1>4, <1>5, <1>6, <1>7 DEF Level
<1> QED BY <1>8 DEF u

(* What it makes of the slots, the levels and the index.                   *)
LEMMA UnlinkFields ==
  ASSUME BookTyped, NEW i \in LiveSlots, UnlinkAndFree(i)
  PROVE  LET s == slots[i].order.side
             l == slots[i].level
         IN  /\ slots'[i] = FreeSlot(freeHead)
             /\ \A j \in SlotIdxs \ {i} :
                  /\ slots'[j].order = slots[j].order
                  /\ slots'[j].level = slots[j].level
                  /\ slots'[j].prev = IF j = slots[i].next THEN slots[i].prev ELSE slots[j].prev
                  /\ slots'[j].next = IF j = slots[i].prev THEN slots[i].next ELSE slots[j].next
             /\ slots' \in [SlotIdxs -> Slot]
             /\ DOMAIN levels' = Sides
             /\ \A r \in Sides : DOMAIN levels'[r] = LevelIdxs
             /\ \A r \in Sides, m \in LevelIdxs :
                  levels'[r][m] = IF r = s /\ m = l THEN Unlinked(levels[r][m], slots[i])
                                  ELSE levels[r][m]
             /\ index' = [index EXCEPT ![slots[i].order.id] = NIL]
<1> DEFINE s == slots[i].order.side
           l == slots[i].level
<1>0. i \in SlotIdxs /\ Live(i)
  BY DEF LiveSlots
<1>1. slots' = [j \in SlotIdxs |-> SplicedOut(i, j)]
  BY DEF UnlinkAndFree
<1>2. slots'[i] = FreeSlot(freeHead)
  BY <1>0, <1>1 DEF SplicedOut
<1>3. slots'[i] \in Slot
  BY <1>2 DEF BookTyped, FreeSlot, Slot
<1>4. ASSUME NEW j \in SlotIdxs \ {i}
      PROVE  /\ slots'[j].order = slots[j].order
             /\ slots'[j].level = slots[j].level
             /\ slots'[j].prev = IF j = slots[i].next THEN slots[i].prev ELSE slots[j].prev
             /\ slots'[j].next = IF j = slots[i].prev THEN slots[i].next ELSE slots[j].next
             /\ slots'[j] \in Slot
  <2>1. slots[j] \in Slot /\ slots[i] \in Slot
    BY <1>0, SlotTyped
  <2>2. slots'[j] = [slots[j] EXCEPT !.next = IF j = slots[i].prev THEN slots[i].next ELSE @,
                                     !.prev = IF j = slots[i].next THEN slots[i].prev ELSE @]
    BY <1>1 DEF SplicedOut
  <2> QED BY <2>1, <2>2 DEF Slot
<1>5. slots' \in [SlotIdxs -> Slot]
  BY <1>1, <1>3, <1>4
<1>6. levels' = [levels EXCEPT ![s][l] = Unlinked(levels[s][l], slots[i])]
  BY DEF UnlinkAndFree
<1>7. /\ DOMAIN levels' = Sides
      /\ \A r \in Sides : DOMAIN levels'[r] = LevelIdxs
      /\ \A r \in Sides, m \in LevelIdxs :
           levels'[r][m] = IF r = s /\ m = l THEN Unlinked(levels[r][m], slots[i]) ELSE levels[r][m]
  BY <1>6 DEF BookTyped
<1>8. index' = [index EXCEPT ![slots[i].order.id] = NIL]
  BY DEF UnlinkAndFree, Unindexed
<1> QED BY <1>2, <1>4, <1>5, <1>7, <1>8

LEMMA UnlinkAt ==
  ASSUME BookTyped, NEW i \in LiveSlots, UnlinkAndFree(i)
  PROVE  /\ LiveSlots' = LiveSlots \ {i}
         /\ \A s, l : At(s, l)' = At(s, l) \ {i}
<1>1. ~ Live(i)'
  BY UnlinkFields DEF Live, FreeSlot
<1>2. \A j \in SlotIdxs \ {i} : Live(j)' <=> Live(j)
  BY UnlinkFields DEF Live
<1>3. LiveSlots' = LiveSlots \ {i}
  BY <1>1, <1>2 DEF LiveSlots
<1>4. ASSUME NEW s, NEW l PROVE At(s, l)' = At(s, l) \ {i}
  <2>1. \A j \in SlotIdxs \ {i} : slots'[j].order = slots[j].order /\ slots'[j].level = slots[j].level
    BY UnlinkFields
  <2> QED BY <1>1, <1>2, <2>1 DEF At
<1> QED BY <1>3, <1>4

LEMMA UnlinkOthers ==
  ASSUME BookTyped, NEW i \in LiveSlots, UnlinkAndFree(i), NEW s, NEW l, NEW k \in At(s, l), k # i
  PROVE  /\ k \in At(s, l)'
         /\ slots'[k].prev = IF k = slots[i].next THEN slots[i].prev ELSE slots[k].prev
         /\ slots'[k].next = IF k = slots[i].prev THEN slots[i].next ELSE slots[k].next
<1>1. k \in SlotIdxs \ {i}
  BY DEF At
<1>2. k \in At(s, l)'
  BY UnlinkAt
<1> QED BY <1>1, <1>2, UnlinkFields

LEMMA Neighbours ==
  ASSUME BookTyped, ListsLinked, NEW i \in LiveSlots
  PROVE  /\ i \in SlotIdxs /\ Live(i) /\ i # NIL
         /\ slots[i].order.side \in Sides /\ slots[i].level \in LevelIdxs
         /\ i \in At(slots[i].order.side, slots[i].level)
         /\ Mirrored(i)
BY LiveTyped, SlotsAreNats DEF ListsLinked, LiveSlots, Mirrored, At

LEMMA UnlinkMirrored ==
  ASSUME BookTyped, ListsLinked, NEW i \in LiveSlots, UnlinkAndFree(i), NEW j \in LiveSlots'
  PROVE  Mirrored(j)'
<1> DEFINE p == slots[i].prev
           n == slots[i].next
<1>1. j \in LiveSlots /\ j # i /\ j \in SlotIdxs \ {i} /\ i \in SlotIdxs
  BY UnlinkAt DEF LiveSlots
<1>0. PICK s \in Sides, l \in LevelIdxs : s = slots[j].order.side /\ l = slots[j].level
  BY <1>1, Neighbours
<1>2. Mirrored(i) /\ Mirrored(j) /\ i # NIL /\ j # NIL
  BY <1>1, Neighbours
<1>3. /\ slots'[j].order = slots[j].order
      /\ slots'[j].level = l
      /\ slots'[j].prev = IF j = n THEN p ELSE slots[j].prev
      /\ slots'[j].next = IF j = p THEN n ELSE slots[j].next
  BY <1>0, <1>1, UnlinkFields
<1>4. /\ p # NIL => p \in At(slots[i].order.side, slots[i].level) /\ slots[p].next = i /\ p \in SlotIdxs
      /\ n # NIL => n \in At(slots[i].order.side, slots[i].level) /\ slots[n].prev = i /\ n \in SlotIdxs
  BY <1>2 DEF Mirrored, At
<1>5. \A k \in At(s, l) : k # i => /\ k \in At(s, l)'
                                   /\ slots'[k].prev = IF k = n THEN p ELSE slots[k].prev
                                   /\ slots'[k].next = IF k = p THEN n ELSE slots[k].next
  BY UnlinkOthers
<1>6. levels'[s][l] = IF s = slots[i].order.side /\ l = slots[i].level
                      THEN Unlinked(levels[s][l], slots[i]) ELSE levels[s][l]
  BY UnlinkFields
<1>7. ASSUME slots'[j].prev = NIL PROVE levels'[s][l].head = j
  <2>1. CASE j = n
    <3>1. p = NIL /\ s = slots[i].order.side /\ l = slots[i].level
      BY <1>0, <1>2, <1>3, <1>4, <1>7, <2>1 DEF At
    <3> QED BY <1>6, <2>1, <3>1, UnlinkedFields
  <2>2. CASE j # n
    <3>1. slots[j].prev = NIL /\ levels[s][l].head = j
      BY <1>0, <1>2, <1>3, <1>7, <2>2 DEF Mirrored
    <3>2. ~ (s = slots[i].order.side /\ l = slots[i].level /\ p = NIL)
      BY <1>0, <1>1, <1>2, <3>1 DEF Mirrored
    <3> QED BY <1>6, <3>1, <3>2, UnlinkedFields
  <2> QED BY <2>1, <2>2
<1>8. ASSUME slots'[j].prev # NIL
      PROVE  slots'[j].prev \in At(s, l)' /\ slots'[slots'[j].prev].next = j
  <2>1. CASE j = n
    <3>1. p # NIL /\ p \in At(s, l) /\ slots'[j].prev = p
      BY <1>0, <1>2, <1>3, <1>4, <1>8, <2>1 DEF At
    <3>2. p # i
      BY <1>1, <1>4, <2>1, <3>1
    <3> QED BY <1>5, <2>1, <3>1, <3>2
  <2>2. CASE j # n
    <3>1. slots'[j].prev = slots[j].prev /\ slots[j].prev \in At(s, l) /\ slots[slots[j].prev].next = j
      BY <1>0, <1>2, <1>3, <1>8, <2>2 DEF Mirrored
    <3>2. slots[j].prev # i /\ slots[j].prev # p
      BY <1>1, <1>4, <1>8, <2>2, <3>1
    <3> QED BY <1>5, <3>1, <3>2
  <2> QED BY <2>1, <2>2
<1>9. ASSUME slots'[j].next = NIL PROVE levels'[s][l].tail = j
  <2>1. CASE j = p
    <3>1. n = NIL /\ s = slots[i].order.side /\ l = slots[i].level
      BY <1>0, <1>2, <1>3, <1>4, <1>9, <2>1 DEF At
    <3> QED BY <1>6, <2>1, <3>1, UnlinkedFields
  <2>2. CASE j # p
    <3>1. slots[j].next = NIL /\ levels[s][l].tail = j
      BY <1>0, <1>2, <1>3, <1>9, <2>2 DEF Mirrored
    <3>2. ~ (s = slots[i].order.side /\ l = slots[i].level /\ n = NIL)
      BY <1>0, <1>1, <1>2, <3>1 DEF Mirrored
    <3> QED BY <1>6, <3>1, <3>2, UnlinkedFields
  <2> QED BY <2>1, <2>2
<1>10. ASSUME slots'[j].next # NIL
       PROVE  slots'[j].next \in At(s, l)' /\ slots'[slots'[j].next].prev = j
  <2>1. CASE j = p
    <3>1. n # NIL /\ n \in At(s, l) /\ slots'[j].next = n
      BY <1>0, <1>2, <1>3, <1>4, <1>10, <2>1 DEF At
    <3>2. n # i
      BY <1>1, <1>4, <2>1, <3>1
    <3> QED BY <1>5, <2>1, <3>1, <3>2
  <2>2. CASE j # p
    <3>1. slots'[j].next = slots[j].next /\ slots[j].next \in At(s, l) /\ slots[slots[j].next].prev = j
      BY <1>0, <1>2, <1>3, <1>10, <2>2 DEF Mirrored
    <3>2. slots[j].next # i /\ slots[j].next # n
      BY <1>1, <1>4, <1>10, <2>2, <3>1
    <3> QED BY <1>5, <3>1, <3>2
  <2> QED BY <2>1, <2>2
<1> QED BY <1>0, <1>2, <1>3, <1>7, <1>8, <1>9, <1>10 DEF Mirrored

LEMMA UnlinkEnded ==
  ASSUME BookTyped, ListsLinked, NEW i \in LiveSlots, UnlinkAndFree(i),
         NEW s \in Sides, NEW l \in LevelIdxs
  PROVE  Ended(s, l)'
<1> DEFINE p == slots[i].prev
           n == slots[i].next
           h == levels[s][l].head
           t == levels[s][l].tail
<1>1. i \in SlotIdxs /\ i # NIL /\ Mirrored(i) /\ i \in At(slots[i].order.side, slots[i].level)
  BY Neighbours
<1>2. Ended(s, l)
  BY DEF ListsLinked
<1>3. \A k \in At(s, l) : k # i => /\ k \in At(s, l)'
                                   /\ slots'[k].prev = IF k = n THEN p ELSE slots[k].prev
                                   /\ slots'[k].next = IF k = p THEN n ELSE slots[k].next
  BY UnlinkOthers
<1>4. CASE ~ (s = slots[i].order.side /\ l = slots[i].level)
  <2>1. levels'[s][l] = levels[s][l]
    BY <1>4, UnlinkFields
  <2>2. i \notin At(s, l) /\ (p # NIL => p \notin At(s, l)) /\ (n # NIL => n \notin At(s, l))
    BY <1>1, <1>4 DEF Mirrored, At
  <2> QED BY <1>2, <1>3, <2>1, <2>2 DEF Ended
<1>5. CASE s = slots[i].order.side /\ l = slots[i].level
  <2>1. /\ levels'[s][l].head = IF p = NIL THEN n ELSE h
        /\ levels'[s][l].tail = IF n = NIL THEN p ELSE t
    <3>1. levels'[s][l] = Unlinked(levels[s][l], slots[i])
      BY <1>5, UnlinkFields
    <3> QED BY <3>1, UnlinkedFields
  <2>2. /\ p = NIL => h = i
        /\ p # NIL => p \in At(s, l) /\ slots[p].next = i
        /\ n = NIL => t = i
        /\ n # NIL => n \in At(s, l) /\ slots[n].prev = i
    BY <1>1, <1>5 DEF Mirrored
  <2>3. ASSUME p = NIL, n # NIL PROVE n \in At(s, l)' /\ slots'[n].prev = NIL
    BY <1>1, <1>3, <2>2, <2>3
  <2>4. ASSUME n = NIL, p # NIL PROVE p \in At(s, l)' /\ slots'[p].next = NIL
    BY <1>1, <1>3, <2>2, <2>4
  <2>5. ASSUME p # NIL, h # NIL PROVE h \in At(s, l)' /\ slots'[h].prev = NIL
    BY <1>1, <1>2, <1>3, <2>2, <2>5 DEF Ended
  <2>6. ASSUME n # NIL, t # NIL PROVE t \in At(s, l)' /\ slots'[t].next = NIL
    BY <1>1, <1>2, <1>3, <2>2, <2>6 DEF Ended
  <2>7. (h = NIL <=> t = NIL)
    BY <1>2 DEF Ended
  <2> QED BY <1>1, <2>1, <2>2, <2>3, <2>4, <2>5, <2>6, <2>7 DEF Ended
<1> QED BY <1>4, <1>5

LEMMA UnlinkListsEnd ==
  ASSUME BookTyped, ListsLinked, ListsEnd, NEW i \in LiveSlots, UnlinkAndFree(i)
  PROVE  ListsEnd'
<1>1. PICK age \in [SlotIdxs -> Nat] :
        \A j \in LiveSlots : slots[j].next # NIL => age[j] < age[slots[j].next]
  BY DEF ListsEnd
<1>2. ASSUME NEW j \in LiveSlots', slots'[j].next # NIL PROVE age[j] < age[slots'[j].next]
  <2>1. j \in LiveSlots /\ j \in SlotIdxs \ {i} /\ i \in SlotIdxs
    BY UnlinkAt DEF LiveSlots
  <2>2. slots'[j].next = IF j = slots[i].prev THEN slots[i].next ELSE slots[j].next
    BY <2>1, UnlinkFields
  <2>3. CASE j = slots[i].prev
    <3>1. slots[j].next = i /\ i # NIL /\ slots[i].next # NIL /\ slots[i].next \in SlotIdxs
      BY <1>2, <2>1, <2>2, <2>3, Neighbours, SlotsAreNats DEF Mirrored, At
    <3>2. age[j] < age[i] /\ age[i] < age[slots[i].next]
      BY <1>1, <2>1, <3>1
    <3> QED BY <2>1, <2>2, <2>3, <3>1, <3>2
  <2>4. CASE j # slots[i].prev
    BY <1>1, <1>2, <2>1, <2>2, <2>4
  <2> QED BY <2>3, <2>4
<1> QED BY <1>2 DEF ListsEnd

LEMMA UnlinkCounts ==
  ASSUME BookTyped, ListsLinked, CountsRight, NEW i \in LiveSlots, UnlinkAndFree(i)
  PROVE  /\ CountsRight'
         /\ levels[slots[i].order.side][slots[i].level].count > 0
         /\ len > 0
         /\ \A s \in Sides, l \in LevelIdxs :
              levels'[s][l].count = IF s = slots[i].order.side /\ l = slots[i].level
                                    THEN levels[s][l].count - 1 ELSE levels[s][l].count
<1>1. slots[i].order.side \in Sides /\ slots[i].level \in LevelIdxs
      /\ i \in At(slots[i].order.side, slots[i].level)
  BY Neighbours
<1>2. ASSUME NEW s \in Sides, NEW l \in LevelIdxs
      PROVE  Cardinality(At(s, l)') = IF s = slots[i].order.side /\ l = slots[i].level
                                      THEN Cardinality(At(s, l)) - 1 ELSE Cardinality(At(s, l))
  <2>1. At(s, l)' = At(s, l) \ {i}
    BY UnlinkAt
  <2>2. i \in At(s, l) <=> s = slots[i].order.side /\ l = slots[i].level
    BY <1>1 DEF At
  <2> QED BY <2>1, <2>2, AtFinite, FS_RemoveElement
<1>3. \A s \in Sides, l \in LevelIdxs :
        levels'[s][l].count = IF s = slots[i].order.side /\ l = slots[i].level
                              THEN levels[s][l].count - 1 ELSE levels[s][l].count
  <2> TAKE s \in Sides, l \in LevelIdxs
  <2>1. CASE s = slots[i].order.side /\ l = slots[i].level
    <3>1. levels'[s][l] = Unlinked(levels[s][l], slots[i])
      BY <2>1, UnlinkFields
    <3> QED BY <2>1, <3>1, UnlinkedFields, SMTT(60)
  <2>2. CASE ~ (s = slots[i].order.side /\ l = slots[i].level)
    BY <2>2, UnlinkFields
  <2> QED BY <2>1, <2>2
<1>4. Cardinality(LiveSlots') = Cardinality(LiveSlots) - 1
  BY UnlinkAt, AtFinite, FS_RemoveElement
<1>5. len' = len - 1
  BY DEF UnlinkAndFree
<1>6. CountsRight'
  BY <1>2, <1>3, <1>4, <1>5 DEF CountsRight
<1>7. Cardinality(At(slots[i].order.side, slots[i].level)) > 0 /\ Cardinality(LiveSlots) > 0
  BY <1>1, AtFinite, FS_EmptySet
<1> QED BY <1>1, <1>3, <1>6, <1>7 DEF CountsRight

LEMMA QtysTyped ==
  ASSUME BookTyped, NEW s, NEW l PROVE QtysAt(s, l) \in [SlotIdxs -> Nat]
<1>1. \A i \in At(s, l) : slots[i].order.remaining \in Nat
  BY LiveTyped DEF At
<1> QED BY <1>1 DEF QtysAt

LEMMA UnlinkTotals ==
  ASSUME BookTyped, ListsLinked, TotalsRight, NEW i \in LiveSlots, UnlinkAndFree(i)
  PROVE  /\ TotalsRight'
         /\ slots[i].order.remaining <= levels[slots[i].order.side][slots[i].level].total
<1> DEFINE s0 == slots[i].order.side
           l0 == slots[i].level
<1>1. i \in SlotIdxs /\ s0 \in Sides /\ l0 \in LevelIdxs /\ i \in At(s0, l0)
  BY Neighbours
<1>2. ASSUME NEW s \in Sides, NEW l \in LevelIdxs
      PROVE  QtysAt(s, l)' = IF s = s0 /\ l = l0 THEN [QtysAt(s, l) EXCEPT ![i] = 0] ELSE QtysAt(s, l)
  <2>1. At(s, l)' = At(s, l) \ {i} /\ (i \in At(s, l) <=> s = s0 /\ l = l0)
    BY <1>1, UnlinkAt DEF At
  <2>2. \A j \in SlotIdxs \ {i} : slots'[j].order.remaining = slots[j].order.remaining
    BY UnlinkFields
  <2> QED BY <1>1, <2>1, <2>2 DEF QtysAt
<1>3. QtysAt(s0, l0)[i] = slots[i].order.remaining
  BY <1>1 DEF QtysAt
<1>4. /\ SumsTo(QtysAt(s0, l0), levels[s0][l0].total)
      /\ QtysAt(s0, l0) \in [SlotIdxs -> Nat]
  BY <1>1, QtysTyped DEF TotalsRight
<1>5. /\ levels[s0][l0].total \in Nat /\ QtysAt(s0, l0)[i] \in Nat
      /\ QtysAt(s0, l0)[i] <= levels[s0][l0].total
      /\ SumsTo([QtysAt(s0, l0) EXCEPT ![i] = 0], levels[s0][l0].total - QtysAt(s0, l0)[i] + 0)
  <2>1. 0 \in Nat
    OBVIOUS
  <2> HIDE DEF s0, l0
  <2> QED BY <1>1, <1>4, <2>1, SumChange, Zenon
<1>6. ASSUME NEW s \in Sides, NEW l \in LevelIdxs PROVE SumsTo(QtysAt(s, l)', levels'[s][l].total)
  <2>1. CASE s = s0 /\ l = l0
    <3>1. levels'[s][l] = Unlinked(levels[s0][l0], slots[i])
      BY <2>1, UnlinkFields
    <3>2. levels'[s][l].total = levels[s0][l0].total - slots[i].order.remaining
      <4> DEFINE u == Unlinked(levels[s0][l0], slots[i])
      <4>1. u.total = levels[s0][l0].total - slots[i].order.remaining
        BY UnlinkedFields, Zenon
      <4> HIDE DEF u
      <4>2. levels'[s][l] = u
        BY <3>1 DEF u
      <4> QED BY <4>1, <4>2, Zenon
    <3>3. levels'[s][l].total = levels[s0][l0].total - QtysAt(s0, l0)[i]
      BY <1>3, <3>2, Zenon
    <3>4. levels[s0][l0].total - QtysAt(s0, l0)[i] + 0 = levels[s0][l0].total - QtysAt(s0, l0)[i]
      <4>1. PICK a \in Nat : a = levels[s0][l0].total
        BY <1>5, Zenon
      <4>2. PICK b \in Nat : b = QtysAt(s0, l0)[i]
        BY <1>5, Zenon
      <4>3. a - b + 0 = a - b
        OBVIOUS
      <4> QED BY <4>1, <4>2, <4>3, Zenon
    <3>5. QtysAt(s, l)' = [QtysAt(s0, l0) EXCEPT ![i] = 0]
      BY <1>2, <2>1, Zenon
    <3> QED BY <1>5, <3>3, <3>4, <3>5, Zenon
  <2>2. CASE ~ (s = s0 /\ l = l0)
    <3>1. levels'[s][l] = levels[s][l] /\ QtysAt(s, l)' = QtysAt(s, l)
      BY <1>2, <2>2, UnlinkFields
    <3> QED BY <3>1 DEF TotalsRight
  <2> QED BY <2>1, <2>2
<1>7. TotalsRight'
  BY <1>6 DEF TotalsRight, SumsTo
<1> QED BY <1>3, <1>5, <1>7

LEMMA UnlinkFreeStack ==
  ASSUME BookTyped, ListsLinked, FreeStack, len > 0, NEW i \in LiveSlots, UnlinkAndFree(i)
  PROVE  FreeStack'
<1>0. PICK m \in Int : m = MaxLiveOrders - len
  BY SlotsAreNats DEF BookTyped
<1>1. PICK f \in [1 .. m -> SlotIdxs] : Stacked(f, m)
  BY <1>0 DEF FreeStack
<1>2. len' = len - 1 /\ freeHead' = i /\ i \in SlotIdxs /\ Live(i) /\ Mirrored(i)
  BY Neighbours DEF UnlinkAndFree
<1>3. m \in Nat /\ len \in 0 .. MaxLiveOrders /\ MaxLiveOrders - len' = m + 1
  BY <1>0, <1>2, SlotsAreNats DEF BookTyped
<1> DEFINE g == [k \in 1 .. m + 1 |-> IF k = m + 1 THEN i ELSE f[k]]
<1>5. g \in [1 .. m + 1 -> SlotIdxs] /\ g[m + 1] = i /\ \A k \in 1 .. m : g[k] = f[k]
  BY <1>2, <1>3
<1>6. \A j \in SlotIdxs \ {i} : Live(j)' <=> Live(j)
  BY UnlinkFields DEF Live
<1>7. ASSUME NEW k \in 1 .. m + 1
      PROVE  ~ Live(g[k])' /\ slots'[g[k]].next = IF k = 1 THEN NIL ELSE g[k - 1]
  <2>1. CASE k = m + 1
    <3>1. slots'[i] = FreeSlot(freeHead)
      BY UnlinkFields
    <3>2. freeHead = IF k = 1 THEN NIL ELSE g[k - 1]
      BY <1>1, <1>3, <1>5, <2>1 DEF Stacked
    <3> QED BY <1>5, <2>1, <3>1, <3>2 DEF FreeSlot, Live
  <2>2. CASE k # m + 1
    <3>1. k \in 1 .. m /\ (k # 1 => k - 1 \in 1 .. m)
      BY <1>3, <2>2
    <3>2. g[k] = f[k] /\ f[k] \in SlotIdxs /\ ~ Live(f[k])
      BY <1>1, <1>5, <3>1 DEF Stacked
    <3>3. f[k] # i /\ f[k] # slots[i].prev
      BY <1>2, <3>2, SlotsAreNats DEF Mirrored, At
    <3>4. ~ Live(f[k])' /\ slots'[f[k]].next = slots[f[k]].next
      BY <1>6, <3>2, <3>3, UnlinkFields
    <3>5. slots'[g[k]].next = IF k = 1 THEN NIL ELSE g[k - 1]
      BY <1>1, <1>5, <3>1, <3>2, <3>4 DEF Stacked
    <3> QED BY <3>2, <3>4, <3>5
  <2> QED BY <2>1, <2>2
<1>8. ASSUME NEW j \in 1 .. m + 1, NEW k \in 1 .. m + 1, g[j] = g[k] PROVE j = k
  <2>1. \A h \in 1 .. m : f[h] # i
    BY <1>1, <1>2 DEF Stacked
  <2> QED BY <1>1, <1>3, <1>5, <1>8, <2>1 DEF Stacked
<1>9. ASSUME NEW j \in SlotIdxs \ LiveSlots' PROVE \E k \in 1 .. m + 1 : g[k] = j
  <2>1. CASE j = i
    BY <1>3, <1>5, <2>1
  <2>2. CASE j # i
    <3>1. j \in SlotIdxs \ LiveSlots
      BY <2>2, UnlinkAt
    <3>2. PICK k \in 1 .. m : f[k] = j
      BY <1>1, <3>1 DEF Stacked
    <3> QED BY <1>3, <1>5, <3>2
  <2> QED BY <2>1, <2>2
<1> HIDE DEF g
<1>10. Stacked(g, m + 1)'
  <2>1. m + 1 # 0 /\ freeHead' = g[m + 1]
    BY <1>2, <1>3, <1>5
  <2> HIDE DEF g
  <2> QED BY <1>7, <1>8, <1>9, <2>1 DEF Stacked
<1> QED BY <1>3, <1>5, <1>10 DEF FreeStack

LEMMA UnlinkIndex ==
  ASSUME BookTyped, IndexInverse, NEW i \in LiveSlots, UnlinkAndFree(i)
  PROVE  IndexInverse'
<1> DEFINE id0 == slots[i].order.id
<1>1. i \in SlotIdxs /\ Live(i) /\ id0 \in OrderIds /\ index[id0] = i
  BY LiveTyped DEF LiveSlots, IndexInverse
<1>2. index' = [index EXCEPT ![id0] = NIL] /\ index \in [OrderIds -> SlotIdxs \cup {NIL}]
  BY UnlinkFields DEF BookTyped
<1>3. ASSUME NEW id \in OrderIds, index'[id] # NIL
      PROVE  slots'[index'[id]].order # NoOrder /\ slots'[index'[id]].order.id = id
  <2>1. id # id0 /\ index'[id] = index[id] /\ index[id] \in SlotIdxs
    BY <1>1, <1>2, <1>3
  <2>2. Live(index[id]) /\ slots[index[id]].order.id = id
    BY <1>3, <2>1 DEF IndexInverse
  <2>3. index[id] \in SlotIdxs \ {i}
    BY <2>1, <2>2
  <2>4. slots'[index[id]].order = slots[index[id]].order
    BY <2>3, UnlinkFields
  <2> QED BY <2>1, <2>2, <2>4 DEF Live
<1>4. ASSUME NEW j \in LiveSlots' PROVE index'[slots'[j].order.id] = j
  <2>1. j \in LiveSlots /\ j \in SlotIdxs \ {i}
    BY UnlinkAt DEF LiveSlots
  <2>2. slots'[j].order = slots[j].order /\ index[slots[j].order.id] = j /\ slots[j].order.id \in OrderIds
    BY <2>1, UnlinkFields, LiveTyped DEF IndexInverse, LiveSlots
  <2> QED BY <1>1, <1>2, <2>1, <2>2
<1> QED BY <1>3, <1>4 DEF IndexInverse, Live

LEMMA UnlinkTyped ==
  ASSUME BookTyped, ListsLinked, CountsRight, TotalsRight, NEW i \in LiveSlots, UnlinkAndFree(i)
  PROVE  BookTyped'
<1> DEFINE s0 == slots[i].order.side
           l0 == slots[i].level
<1>1. i \in SlotIdxs /\ s0 \in Sides /\ l0 \in LevelIdxs /\ slots[i] \in Slot
  BY Neighbours, SlotTyped
<1>2. slots' \in [SlotIdxs -> Slot]
  BY UnlinkFields
<1>3. freeHead' \in SlotIdxs \cup {NIL} /\ len' \in 0 .. MaxLiveOrders
  <2>1. freeHead' = i /\ len' = len - 1
    BY DEF UnlinkAndFree
  <2>2. len > 0 /\ len \in 0 .. MaxLiveOrders /\ MaxLiveOrders \in Nat
    BY UnlinkCounts, SlotsAreNats DEF BookTyped
  <2> QED BY <1>1, <2>1, <2>2
<1>4. Unlinked(levels[s0][l0], slots[i]) \in Level
  <2>1. slots[i].order.remaining \in Nat /\ levels[s0][l0] \in Level
    BY <1>1, LiveTyped, LevelTyped DEF LiveSlots
  <2>2. slots[i].order.remaining <= levels[s0][l0].total
    BY UnlinkTotals, Zenon
  <2>3. levels[s0][l0].count > 0
    BY UnlinkCounts, Zenon
  <2> QED BY <1>1, <2>1, <2>2, <2>3, UnlinkedTyped, Zenon
<1>5. levels' \in [Sides -> [LevelIdxs -> Level]]
  BY <1>4 DEF UnlinkAndFree, BookTyped
<1>6. occupied' \in [Sides -> SUBSET LevelIdxs]
  BY <1>1 DEF UnlinkAndFree, OccupiedAfterUnlink, BookTyped
<1>7. index' \in [OrderIds -> SlotIdxs \cup {NIL}]
  BY UnlinkFields DEF BookTyped
<1>8. BestAfterUnlink(s0, l0) \in LevelIdxs \cup {NIL}
  <2> DEFINE worse == {m \in occupied[s0] : Better(s0, l0, m)}
  <2>1. worse \in SUBSET LevelIdxs
    BY <1>1 DEF BookTyped
  <2>2. worse # {} => \E m \in worse : \A n \in worse \ {m} : Better(s0, m, n)
    BY <1>1, <2>1, BestExists
  <2>3. NextWorse(s0, l0) = NIL \/ NextWorse(s0, l0) \in worse
    BY <2>2 DEF NextWorse
  <2> QED BY <1>1, <2>1, <2>3 DEF BestAfterUnlink, BookTyped
<1>9. best' \in [Sides -> LevelIdxs \cup {NIL}]
  BY <1>8 DEF UnlinkAndFree, BookTyped
<1> QED BY <1>2, <1>3, <1>5, <1>6, <1>7, <1>9 DEF BookTyped

(* Of two different levels one is better.                                  *)
LEMMA BetterFacts ==
  ASSUME NEW s \in Sides, NEW l \in LevelIdxs, NEW m \in LevelIdxs
  PROVE  /\ Better(s, l, m) => ~ Better(s, m, l) /\ l # m
         /\ l # m => Better(s, l, m) \/ Better(s, m, l)
BY SlotsAreNats DEF Better

(* NextWorse is the best of the worse levels.                              *)
LEMMA NextWorseFacts ==
  ASSUME BookTyped, NEW s \in Sides, NEW l \in LevelIdxs
  PROVE  LET worse == {m \in occupied[s] : Better(s, l, m)}
         IN  IF worse = {} THEN NextWorse(s, l) = NIL
             ELSE /\ NextWorse(s, l) \in worse
                  /\ \A n \in worse : ~ Better(s, n, NextWorse(s, l))
<1> DEFINE worse == {m \in occupied[s] : Better(s, l, m)}
<1>1. worse \in SUBSET LevelIdxs
  BY DEF BookTyped
<1>2. CASE worse = {}
  BY <1>2 DEF NextWorse
<1>3. CASE worse # {}
  <2>1. \E m \in worse : \A n \in worse \ {m} : Better(s, m, n)
    BY <1>1, <1>3, BestExists
  <2>2. PICK m \in worse : NextWorse(s, l) = m /\ \A n \in worse \ {m} : Better(s, m, n)
    BY <1>3, <2>1 DEF NextWorse
  <2>3. ASSUME NEW n \in worse PROVE ~ Better(s, n, m)
    <3>1. n \in LevelIdxs /\ m \in LevelIdxs
      BY <1>1
    <3> QED BY <2>2, <3>1, BetterFacts
  <2> QED BY <1>3, <2>2, <2>3
<1> QED BY <1>2, <1>3

LEMMA UnlinkBest ==
  ASSUME BookTyped, ListsLinked, CountsRight, BestIsTrue, NEW i \in LiveSlots, UnlinkAndFree(i)
  PROVE  BestIsTrue'
<1> SUFFICES ASSUME NEW s \in Sides
             PROVE  /\ occupied'[s] = Occupied(s)'
                    /\ IF Occupied(s)' = {} THEN best'[s] = NIL
                       ELSE /\ best'[s] \in Occupied(s)'
                            /\ \A l \in Occupied(s)' : ~ Better(s, l, best'[s])
  BY DEF BestIsTrue, Occupied
<1>1. PICK s0 \in Sides, l0 \in LevelIdxs : s0 = slots[i].order.side /\ l0 = slots[i].level
  BY Neighbours
<1>2. /\ occupied[s] = Occupied(s)
      /\ IF Occupied(s) = {} THEN best[s] = NIL
         ELSE best[s] \in Occupied(s) /\ \A l \in Occupied(s) : ~ Better(s, l, best[s])
      /\ Occupied(s) \in SUBSET LevelIdxs
  BY DEF BestIsTrue, Occupied
<1>3. /\ occupied' = [occupied EXCEPT ![s0] = OccupiedAfterUnlink(s0, l0)]
      /\ best' = [best EXCEPT ![s0] = BestAfterUnlink(s0, l0)]
      /\ occupied \in [Sides -> SUBSET LevelIdxs] /\ best \in [Sides -> LevelIdxs \cup {NIL}]
  BY <1>1 DEF UnlinkAndFree, BookTyped
<1>4. /\ levels[s0][l0].count > 0
      /\ \A l \in LevelIdxs : levels[s][l].count \in Nat
      /\ \A l \in LevelIdxs : levels'[s][l].count = IF s = s0 /\ l = l0 THEN levels[s][l].count - 1
                                                    ELSE levels[s][l].count
  BY <1>1, UnlinkCounts, LevelTyped
<1>5. CASE s # s0
  <2>1. Occupied(s)' = Occupied(s) /\ occupied'[s] = occupied[s] /\ best'[s] = best[s]
    BY <1>3, <1>4, <1>5 DEF Occupied
  <2> QED BY <1>2, <2>1
<1>6. CASE s = s0 /\ levels[s0][l0].count # 1
  <2>1. Occupied(s)' = Occupied(s)
    BY <1>4, <1>6 DEF Occupied
  <2>2. occupied'[s] = occupied[s] /\ best'[s] = best[s]
    BY <1>3, <1>6 DEF OccupiedAfterUnlink, BestAfterUnlink
  <2> QED BY <1>2, <2>1, <2>2
<1>7. CASE s = s0 /\ levels[s0][l0].count = 1
  <2>1. l0 \in Occupied(s) /\ Occupied(s)' = Occupied(s) \ {l0}
    BY <1>4, <1>7 DEF Occupied
  <2>2. occupied'[s] = Occupied(s)'
    BY <1>2, <1>3, <1>7, <2>1 DEF OccupiedAfterUnlink
  <2>3. CASE best[s] # l0
    <3>1. best'[s] = best[s]
      BY <1>3, <1>7, <2>3 DEF BestAfterUnlink
    <3> QED BY <1>2, <2>1, <2>2, <2>3, <3>1
  <2>4. CASE best[s] = l0
    <3> DEFINE worse == {m \in occupied[s] : Better(s, l0, m)}
    <3>1. best'[s] = NextWorse(s, l0)
      BY <1>3, <1>7, <2>4 DEF BestAfterUnlink
    <3>2. worse = Occupied(s)'
      BY <1>2, <2>1, <2>4, BetterFacts
    <3>3. IF worse = {} THEN NextWorse(s, l0) = NIL
          ELSE NextWorse(s, l0) \in worse /\ \A n \in worse : ~ Better(s, n, NextWorse(s, l0))
      BY NextWorseFacts
    <3> HIDE DEF worse
    <3> QED BY <2>2, <3>1, <3>2, <3>3
  <2> QED BY <2>3, <2>4
<1> QED BY <1>5, <1>6, <1>7

LEMMA UnlinkPlaces ==
  ASSUME OrdersInPlace, BookTyped, NEW i \in LiveSlots, UnlinkAndFree(i)
  PROVE  OrdersInPlace'
<1> SUFFICES ASSUME NEW j \in LiveSlots'
             PROVE  /\ slots'[j].order.remaining > 0
                    /\ OnGrid(slots'[j].order.price)
                    /\ slots'[j].level = PriceToIdx(slots'[j].order.price)
  BY DEF OrdersInPlace
<1>1. j \in LiveSlots /\ j \in SlotIdxs \ {i}
  BY UnlinkAt DEF LiveSlots
<1>2. slots'[j].order = slots[j].order /\ slots'[j].level = slots[j].level
  BY <1>1, UnlinkFields
<1> QED BY <1>1, <1>2 DEF OrdersInPlace

LEMMA UnlinkApart ==
  ASSUME BookTyped, ListsLinked, CountsRight, SidesApart, NEW i \in LiveSlots, UnlinkAndFree(i)
  PROVE  SidesApart'
<1>1. \A s \in Sides, l \in LevelIdxs : levels'[s][l].count > 0 => levels[s][l].count > 0
  BY UnlinkCounts, LevelTyped
<1>2. \A s \in Sides : Occupied(s)' \subseteq Occupied(s)
  BY <1>1 DEF Occupied
<1> QED BY <1>2 DEF SidesApart, Sides

LEMMA UnlinkInv == ASSUME BookInv, NEW i \in LiveSlots, UnlinkAndFree(i) PROVE BookInv'
<1>1. /\ BookTyped /\ ListsLinked /\ ListsEnd /\ CountsRight /\ TotalsRight /\ FreeStack
      /\ IndexInverse /\ BestIsTrue /\ OrdersInPlace /\ SidesApart /\ len > 0
  BY UnlinkCounts DEF BookInv
<1>2. BookTyped' /\ ListsEnd' /\ CountsRight' /\ TotalsRight' /\ FreeStack' /\ IndexInverse'
      /\ BestIsTrue' /\ OrdersInPlace' /\ SidesApart'
  BY <1>1, UnlinkTyped, UnlinkListsEnd, UnlinkCounts, UnlinkTotals, UnlinkFreeStack, UnlinkIndex,
     UnlinkBest, UnlinkPlaces, UnlinkApart
<1>3. ListsLinked'
  BY <1>1, UnlinkMirrored, UnlinkEnded DEF ListsLinked
<1> QED BY <1>2, <1>3 DEF BookInv

-----------------------------------------------------------------------------
(* rest puts the order of the match loop into the slot on top of the free  *)
(* list and at the end of a level.                                         *)

(* What rest() is called with.                                             *)
ReadyToRest == /\ taker \in Takers
               /\ OnGrid(taker.price)
               /\ index[taker.id] = NIL
               /\ freeHead # NIL

(* The order in the loop comes to rest in slot i, at level l of side s.    *)
RestsIn(i, s, l) ==
  /\ s = taker.side /\ l = PriceToIdx(taker.price) /\ i = freeHead
  /\ i \notin LiveSlots
  /\ Resting(taker) \in Order
  /\ slots'[i] = [order |-> Resting(taker), level |-> l, prev |-> levels[s][l].tail, next |-> NIL]
  /\ \A j \in SlotIdxs \ {i} :
       /\ slots'[j].order = slots[j].order
       /\ slots'[j].level = slots[j].level
       /\ slots'[j].prev = slots[j].prev
       /\ slots'[j].next = IF j = levels[s][l].tail THEN i ELSE slots[j].next
  /\ slots' \in [SlotIdxs -> Slot]
  /\ levels' = [levels EXCEPT ![s][l] = Linked(levels[s][l], i, taker.remaining)]
  /\ \A r \in Sides, m \in LevelIdxs :
       levels'[r][m] = IF r = s /\ m = l THEN Linked(levels[r][m], i, taker.remaining)
                       ELSE levels[r][m]
  /\ index' = [index EXCEPT ![taker.id] = i]
  /\ freeHead' = slots[i].next
  /\ len' = len + 1
  /\ occupied' = [occupied EXCEPT ![s] = OccupiedAfterLink(s, l)]
  /\ best' = [best EXCEPT ![s] = BestAfterLink(s, l)]

LEMMA RestFields ==
  ASSUME BookTyped, FreeStack, ReadyToRest, RestRemainder
  PROVE  \E i \in SlotIdxs, s \in Sides, l \in LevelIdxs : RestsIn(i, s, l)
<1> DEFINE s == taker.side
           l == PriceToIdx(taker.price)
           i == freeHead
           tail == levels[s][l].tail
<1>1. s \in Sides /\ l \in LevelIdxs
  BY LevelsArePrices DEF ReadyToRest, Takers
<1>2. i \in SlotIdxs
  BY DEF ReadyToRest, BookTyped
<1>3. i \notin LiveSlots
  <2>1. PICK m \in Int : m = MaxLiveOrders - len
    BY SlotsAreNats DEF BookTyped
  <2>2. PICK f \in [1 .. m -> SlotIdxs] : Stacked(f, m)
    BY <2>1 DEF FreeStack
  <2>3. m \in Nat /\ m # 0 /\ freeHead = f[m]
    BY <2>1, <2>2, SlotsAreNats DEF Stacked, ReadyToRest, BookTyped
  <2>4. m \in 1 .. m
    BY <2>3
  <2> QED BY <2>2, <2>3, <2>4 DEF Stacked, LiveSlots
<1>4. /\ slots' = [j \in SlotIdxs |->
                     IF j = i THEN [order |-> Resting(taker), level |-> l, prev |-> tail, next |-> NIL]
                     ELSE [slots[j] EXCEPT !.next = IF j = tail THEN i ELSE @]]
      /\ levels' = [levels EXCEPT ![s][l] = Linked(levels[s][l], i, taker.remaining)]
      /\ index' = [index EXCEPT ![taker.id] = i]
      /\ freeHead' = slots[i].next
      /\ len' = len + 1
      /\ occupied' = [occupied EXCEPT ![s] = OccupiedAfterLink(s, l)]
      /\ best' = [best EXCEPT ![s] = BestAfterLink(s, l)]
  BY DEF RestRemainder, ReadyToRest
<1>5. Resting(taker) \in Order
  BY RestingTyped DEF ReadyToRest
<1>6. tail \in SlotIdxs \cup {NIL}
  BY <1>1, LevelTyped
<1>7. ASSUME NEW j \in SlotIdxs \ {i}
      PROVE  /\ slots'[j].order = slots[j].order
             /\ slots'[j].level = slots[j].level
             /\ slots'[j].prev = slots[j].prev
             /\ slots'[j].next = IF j = tail THEN i ELSE slots[j].next
             /\ slots'[j] \in Slot
  <2>1. slots[j] \in Slot
    BY SlotTyped
  <2>2. slots'[j] = [slots[j] EXCEPT !.next = IF j = tail THEN i ELSE @]
    BY <1>4
  <2> HIDE DEF tail, i, l, s
  <2> QED BY <1>2, <2>1, <2>2 DEF Slot
<1>8. slots'[i] = [order |-> Resting(taker), level |-> l, prev |-> tail, next |-> NIL]
  BY <1>2, <1>4
<1>9. slots'[i] \in Slot
  <2> HIDE DEF tail, i, l, s
  <2> QED BY <1>1, <1>5, <1>6, <1>8 DEF Slot
<1>10. slots' \in [SlotIdxs -> Slot]
  <2>1. slots' = [j \in SlotIdxs |-> slots'[j]]
    BY <1>4
  <2> QED BY <1>7, <1>9, <2>1
<1>11. \A r \in Sides, m \in LevelIdxs :
         levels'[r][m] = IF r = s /\ m = l THEN Linked(levels[r][m], i, taker.remaining)
                         ELSE levels[r][m]
  <2> HIDE DEF tail, i, l, s
  <2> QED BY <1>4 DEF BookTyped
<1> HIDE DEF tail, i, l, s
<1>12. /\ s \in Sides /\ l \in LevelIdxs
       /\ i \in SlotIdxs /\ i \notin LiveSlots
       /\ slots'[i] = [order |-> Resting(taker), level |-> l, prev |-> tail, next |-> NIL]
       /\ Resting(taker) \in Order
       /\ \A j \in SlotIdxs \ {i} :
            /\ slots'[j].order = slots[j].order
            /\ slots'[j].level = slots[j].level
            /\ slots'[j].prev = slots[j].prev
            /\ slots'[j].next = IF j = tail THEN i ELSE slots[j].next
       /\ slots' \in [SlotIdxs -> Slot]
  BY <1>1, <1>2, <1>3, <1>5, <1>7, <1>8, <1>10, Zenon
<1>13. s = taker.side /\ l = PriceToIdx(taker.price) /\ i = freeHead
  BY DEF s, l, i
<1>14. RestsIn(i, s, l)
  BY <1>4, <1>11, <1>12, <1>13, Zenon DEF RestsIn, tail
<1> QED BY <1>12, <1>14

LEMMA RestAt ==
  ASSUME NEW i \in SlotIdxs, NEW s \in Sides, NEW l \in LevelIdxs, RestsIn(i, s, l)
  PROVE  /\ LiveSlots' = LiveSlots \cup {i}
         /\ \A r, m : At(r, m)' = IF r = s /\ m = l THEN At(r, m) \cup {i} ELSE At(r, m)
         /\ \A r, m : i \notin At(r, m)
<1>1. slots'[i].order = Resting(taker) /\ Resting(taker) # NoOrder /\ slots'[i].level = l
      /\ slots'[i].order.side = s
  BY BookAssumption DEF RestsIn, Resting
<1>2. \A j \in SlotIdxs \ {i} : slots'[j].order = slots[j].order /\ slots'[j].level = slots[j].level
  BY DEF RestsIn
<1>3. i \notin LiveSlots /\ \A r, m : i \notin At(r, m)
  BY DEF RestsIn, LiveSlots, At
<1>4. LiveSlots' = LiveSlots \cup {i}
  BY <1>1, <1>2 DEF LiveSlots, Live
<1>5. ASSUME NEW r, NEW m
      PROVE  At(r, m)' = IF r = s /\ m = l THEN At(r, m) \cup {i} ELSE At(r, m)
  BY <1>1, <1>2, <1>3 DEF At, Live
<1> QED BY <1>3, <1>4, <1>5

LEMMA RestOthers ==
  ASSUME NEW i \in SlotIdxs, NEW s \in Sides, NEW l \in LevelIdxs, RestsIn(i, s, l),
         NEW r, NEW m, NEW k \in At(r, m)
  PROVE  /\ k \in At(r, m)' /\ k \in SlotIdxs \ {i}
         /\ slots'[k].prev = slots[k].prev
         /\ slots'[k].next = IF k = levels[s][l].tail THEN i ELSE slots[k].next
<1>1. k \in SlotIdxs /\ k # i
  <2>1. i \notin At(r, m)
    BY RestAt
  <2> QED BY <2>1 DEF At
<1>2. At(r, m)' = IF r = s /\ m = l THEN At(r, m) \cup {i} ELSE At(r, m)
  BY RestAt
<1>3. k \in At(r, m)'
  BY <1>2
<1> QED BY <1>1, <1>3 DEF RestsIn

LEMMA RestMirrored ==
  ASSUME BookTyped, ListsLinked, NEW i \in SlotIdxs, NEW s \in Sides, NEW l \in LevelIdxs,
         RestsIn(i, s, l), NEW j \in LiveSlots'
  PROVE  Mirrored(j)'
<1> DEFINE t == levels[s][l].tail
<1>1. /\ Ended(s, l) /\ t \in SlotIdxs \cup {NIL} /\ i # NIL
      /\ levels[s][l].head \in SlotIdxs \cup {NIL}
  BY LevelTyped, SlotsAreNats DEF ListsLinked
<1>2. levels'[s][l].head = (IF levels[s][l].head = NIL THEN i ELSE levels[s][l].head)
      /\ levels'[s][l].tail = i
  <2>1. levels'[s][l] = Linked(levels[s][l], i, taker.remaining)
    BY DEF RestsIn
  <2> QED BY <2>1 DEF Linked
<1>3. CASE j = i
  <2>1. slots'[i].level = l /\ slots'[i].order.side = s /\ slots'[i].prev = t /\ slots'[i].next = NIL
    BY DEF RestsIn, Resting
  <2>2. t = NIL => levels'[s][l].head = i
    BY <1>1, <1>2 DEF Ended
  <2>3. t # NIL => t \in At(s, l)' /\ slots'[t].next = i
    <3>1. ASSUME t # NIL PROVE t \in At(s, l) /\ t \in SlotIdxs \ {i}
      BY <1>1, <3>1, RestAt DEF Ended
    <3>2. \A k \in At(s, l) : k \in At(s, l)'
      BY RestAt
    <3> QED BY <3>1, <3>2 DEF RestsIn
  <2> QED BY <1>2, <1>3, <2>1, <2>2, <2>3 DEF Mirrored
<1>4. CASE j # i
  <2>1. j \in LiveSlots /\ j \in SlotIdxs \ {i} /\ j # NIL
    BY <1>4, RestAt, SlotsAreNats DEF LiveSlots
  <2>2. PICK r \in Sides, m \in LevelIdxs : r = slots[j].order.side /\ m = slots[j].level
    BY <2>1, Neighbours
  <2>3. /\ slots'[j].order = slots[j].order /\ slots'[j].level = m
        /\ slots'[j].prev = slots[j].prev
        /\ slots'[j].next = IF j = t THEN i ELSE slots[j].next
        /\ Mirrored(j)
    BY <2>1, <2>2, Neighbours DEF RestsIn
  <2>4. \A k \in At(r, m) : /\ k \in At(r, m)' /\ k \in SlotIdxs \ {i}
                            /\ slots'[k].prev = slots[k].prev
                            /\ slots'[k].next = IF k = t THEN i ELSE slots[k].next
    BY RestOthers
  <2>5. ASSUME slots'[j].prev = NIL PROVE levels'[r][m].head = j
    <3>1. levels[r][m].head = j
      BY <2>2, <2>3, <2>5 DEF Mirrored
    <3>2. CASE r = s /\ m = l
      BY <1>2, <2>1, <3>1, <3>2
    <3>3. CASE ~ (r = s /\ m = l)
      BY <3>1, <3>3 DEF RestsIn
    <3> QED BY <3>2, <3>3
  <2>6. ASSUME slots'[j].prev # NIL
        PROVE  slots'[j].prev \in At(r, m)' /\ slots'[slots'[j].prev].next = j
    <3>1. slots[j].prev \in At(r, m) /\ slots[slots[j].prev].next = j
      BY <2>2, <2>3, <2>6 DEF Mirrored
    <3>2. slots[j].prev # t
      BY <1>1, <2>1, <2>3, <2>6, <3>1 DEF Ended
    <3> QED BY <2>3, <2>4, <3>1, <3>2
  <2>7. ASSUME slots'[j].next = NIL PROVE levels'[r][m].tail = j
    <3>1. j # t /\ slots[j].next = NIL /\ levels[r][m].tail = j
      BY <1>1, <2>2, <2>3, <2>7 DEF Mirrored
    <3>2. ~ (r = s /\ m = l)
      BY <3>1
    <3> QED BY <3>1, <3>2 DEF RestsIn
  <2>8. ASSUME slots'[j].next # NIL
        PROVE  slots'[j].next \in At(r, m)' /\ slots'[slots'[j].next].prev = j
    <3>1. CASE j = t
      <4>1. j \in At(s, l)
        BY <1>1, <2>1, <3>1 DEF Ended
      <4>2. r = s /\ m = l
        BY <2>2, <4>1 DEF At
      <4>3. i \in At(s, l)'
        BY RestAt
      <4>4. slots'[i].prev = t
        BY DEF RestsIn
      <4> QED BY <2>3, <3>1, <4>2, <4>3, <4>4
    <3>2. CASE j # t
      BY <2>2, <2>3, <2>4, <2>8, <3>2 DEF Mirrored
    <3> QED BY <3>1, <3>2
  <2> QED BY <2>2, <2>3, <2>5, <2>6, <2>7, <2>8 DEF Mirrored
<1> QED BY <1>3, <1>4

LEMMA RestEnded ==
  ASSUME BookTyped, ListsLinked, NEW i \in SlotIdxs, NEW s \in Sides, NEW l \in LevelIdxs,
         RestsIn(i, s, l), NEW r \in Sides, NEW m \in LevelIdxs
  PROVE  Ended(r, m)'
<1>1. Ended(r, m) /\ Ended(s, l) /\ i # NIL
  BY SlotsAreNats DEF ListsLinked
<1>2. \A k \in At(r, m) : /\ k \in At(r, m)' /\ k \in SlotIdxs \ {i}
                          /\ slots'[k].prev = slots[k].prev
                          /\ slots'[k].next = IF k = levels[s][l].tail THEN i ELSE slots[k].next
  BY RestOthers
<1>3. CASE r = s /\ m = l
  <2>1. levels'[s][l] = Linked(levels[s][l], i, taker.remaining)
    BY DEF RestsIn
  <2>2. levels'[s][l].head = (IF levels[s][l].head = NIL THEN i ELSE levels[s][l].head)
        /\ levels'[s][l].tail = i
    BY <2>1 DEF Linked
  <2>3. i \in At(s, l)'
    BY RestAt
  <2>4. slots'[i].next = NIL /\ slots'[i].prev = levels[s][l].tail
    BY DEF RestsIn
  <2> QED BY <1>1, <1>2, <1>3, <2>2, <2>3, <2>4 DEF Ended
<1>4. CASE ~ (r = s /\ m = l)
  <2>1. levels'[r][m] = levels[r][m]
    BY <1>4 DEF RestsIn
  <2>2. levels[r][m].tail # NIL => levels[r][m].tail # levels[s][l].tail
    BY <1>1, <1>4 DEF Ended, At
  <2> QED BY <1>1, <1>2, <2>1, <2>2 DEF Ended
<1> QED BY <1>3, <1>4

LEMMA RestListsEnd ==
  ASSUME BookTyped, ListsLinked, ListsEnd, NEW i \in SlotIdxs, NEW s \in Sides,
         NEW l \in LevelIdxs, RestsIn(i, s, l)
  PROVE  ListsEnd'
<1> DEFINE t == levels[s][l].tail
<1>1. PICK age \in [SlotIdxs -> Nat] :
        \A j \in LiveSlots : slots[j].next # NIL => age[j] < age[slots[j].next]
  BY DEF ListsEnd
<1>2. PICK a \in Nat : t # NIL => age[t] < a
  <2>1. CASE t = NIL
    BY <2>1
  <2>2. CASE t # NIL
    <3>1. age[t] \in Nat
      BY <2>2, LevelTyped
    <3>2. age[t] + 1 \in Nat /\ age[t] < age[t] + 1
      BY <3>1
    <3> QED BY <3>2
  <2> QED BY <2>1, <2>2
<1> DEFINE new == [age EXCEPT ![i] = a]
<1>3. new \in [SlotIdxs -> Nat]
  OBVIOUS
<1>4. ASSUME NEW j \in LiveSlots', slots'[j].next # NIL PROVE new[j] < new[slots'[j].next]
  <2>1. j # i
    BY <1>4 DEF RestsIn
  <2>2. j \in LiveSlots /\ j \in SlotIdxs \ {i} /\ j # NIL
    BY <2>1, RestAt, SlotsAreNats DEF LiveSlots
  <2>3. slots'[j].next = IF j = t THEN i ELSE slots[j].next
    BY <2>2 DEF RestsIn
  <2>4. CASE j = t
    BY <1>2, <2>2, <2>3, <2>4
  <2>5. CASE j # t
    <3>1. slots[j].next # NIL /\ slots[j].next \in SlotIdxs \ {i}
      <4>1. slots[j].next \in At(slots[j].order.side, slots[j].level)
        BY <1>4, <2>2, <2>3, <2>5, Neighbours DEF Mirrored
      <4> QED BY <1>4, <2>3, <2>5, <4>1, RestOthers
    <3> QED BY <1>1, <2>2, <2>3, <2>5, <3>1
  <2> QED BY <2>4, <2>5
<1> HIDE DEF new
<1> QED BY <1>3, <1>4 DEF ListsEnd

LEMMA RestCounts ==
  ASSUME BookTyped, CountsRight, NEW i \in SlotIdxs, NEW s \in Sides, NEW l \in LevelIdxs,
         RestsIn(i, s, l)
  PROVE  /\ CountsRight'
         /\ \A r \in Sides, m \in LevelIdxs :
              levels'[r][m].count = IF r = s /\ m = l THEN levels[r][m].count + 1
                                    ELSE levels[r][m].count
<1>1. ASSUME NEW r \in Sides, NEW m \in LevelIdxs
      PROVE  Cardinality(At(r, m)') = IF r = s /\ m = l THEN Cardinality(At(r, m)) + 1
                                      ELSE Cardinality(At(r, m))
  <2>1. At(r, m)' = (IF r = s /\ m = l THEN At(r, m) \cup {i} ELSE At(r, m)) /\ i \notin At(r, m)
    BY RestAt
  <2> QED BY <2>1, AtFinite, FS_AddElement
<1>2. \A r \in Sides, m \in LevelIdxs :
        levels'[r][m].count = IF r = s /\ m = l THEN levels[r][m].count + 1 ELSE levels[r][m].count
  <2> TAKE r \in Sides, m \in LevelIdxs
  <2>1. levels'[r][m] = IF r = s /\ m = l THEN Linked(levels[r][m], i, taker.remaining)
                        ELSE levels[r][m]
    BY DEF RestsIn
  <2> QED BY <2>1 DEF Linked
<1>3. i \notin LiveSlots /\ len' = len + 1
  BY DEF RestsIn
<1>4. Cardinality(LiveSlots') = Cardinality(LiveSlots) + 1
  <2>1. LiveSlots' = LiveSlots \cup {i}
    BY RestAt
  <2> QED BY <1>3, <2>1, AtFinite, FS_AddElement
<1>5. len' = Cardinality(LiveSlots')
  BY <1>3, <1>4 DEF CountsRight
<1> QED BY <1>1, <1>2, <1>5 DEF CountsRight

LEMMA RestTotals ==
  ASSUME BookTyped, TotalsRight, taker \in Takers,
         NEW i \in SlotIdxs, NEW s \in Sides, NEW l \in LevelIdxs, RestsIn(i, s, l)
  PROVE  TotalsRight'
<1>1. taker.remaining \in Nat
  BY DEF Takers
<1>2. i \notin At(s, l) /\ slots'[i].order.remaining = taker.remaining
      /\ \A j \in SlotIdxs \ {i} : slots'[j].order = slots[j].order
  <2>1. i \notin At(s, l)
    BY RestAt
  <2>2. slots'[i].order.remaining = taker.remaining
    BY DEF RestsIn, Resting
  <2>3. \A j \in SlotIdxs \ {i} : slots'[j].order = slots[j].order
    BY DEF RestsIn
  <2> QED BY <2>1, <2>2, <2>3
<1>3. ASSUME NEW r \in Sides, NEW m \in LevelIdxs
      PROVE  QtysAt(r, m)' = IF r = s /\ m = l THEN [QtysAt(r, m) EXCEPT ![i] = taker.remaining]
                             ELSE QtysAt(r, m)
  <2>1. At(r, m)' = (IF r = s /\ m = l THEN At(r, m) \cup {i} ELSE At(r, m)) /\ i \notin At(r, m)
    BY RestAt
  <2> QED BY <1>2, <2>1 DEF QtysAt
<1>4. QtysAt(s, l)[i] = 0
  BY <1>2 DEF QtysAt
<1>5. /\ levels[s][l].total \in Nat
      /\ SumsTo([QtysAt(s, l) EXCEPT ![i] = taker.remaining],
                levels[s][l].total - QtysAt(s, l)[i] + taker.remaining)
  <2>1. SumsTo(QtysAt(s, l), levels[s][l].total) /\ QtysAt(s, l) \in [SlotIdxs -> Nat]
    BY QtysTyped DEF TotalsRight
  <2> QED BY <1>1, <2>1, SumChange, Zenon
<1>6. ASSUME NEW r \in Sides, NEW m \in LevelIdxs PROVE SumsTo(QtysAt(r, m)', levels'[r][m].total)
  <2>1. CASE r = s /\ m = l
    <3>1. levels'[r][m] = Linked(levels[s][l], i, taker.remaining)
      BY <2>1 DEF RestsIn
    <3>2. levels'[r][m].total = levels[s][l].total - QtysAt(s, l)[i] + taker.remaining
      BY <1>1, <1>4, <1>5, <3>1 DEF Linked
    <3>3. QtysAt(r, m)' = [QtysAt(s, l) EXCEPT ![i] = taker.remaining]
      BY <1>3, <2>1
    <3> QED BY <1>5, <3>2, <3>3
  <2>2. CASE ~ (r = s /\ m = l)
    <3>1. levels'[r][m] = levels[r][m] /\ QtysAt(r, m)' = QtysAt(r, m)
      BY <1>3, <2>2 DEF RestsIn
    <3> QED BY <3>1 DEF TotalsRight
  <2> QED BY <2>1, <2>2
<1> QED BY <1>6 DEF TotalsRight, SumsTo

LEMMA RestFreeStack ==
  ASSUME BookTyped, ListsLinked, FreeStack, NEW i \in SlotIdxs, NEW s \in Sides,
         NEW l \in LevelIdxs, RestsIn(i, s, l)
  PROVE  FreeStack' /\ len < MaxLiveOrders
<1>0. PICK m \in Int : m = MaxLiveOrders - len
  BY SlotsAreNats DEF BookTyped
<1>1. PICK f \in [1 .. m -> SlotIdxs] : Stacked(f, m)
  BY <1>0 DEF FreeStack
<1>2. len' = len + 1 /\ freeHead' = slots[i].next /\ i = freeHead /\ i # NIL
  BY SlotsAreNats DEF RestsIn
<1>3. m \in Nat /\ len \in 0 .. MaxLiveOrders /\ MaxLiveOrders - len' = m - 1
  BY <1>0, <1>2, SlotsAreNats DEF BookTyped
<1>4. m # 0 /\ f[m] = i /\ m \in 1 .. m
  BY <1>1, <1>2, <1>3 DEF Stacked
<1> DEFINE g == [k \in 1 .. m - 1 |-> f[k]]
<1>5. g \in [1 .. m - 1 -> SlotIdxs] /\ \A k \in 1 .. m - 1 : g[k] = f[k] /\ k \in 1 .. m /\ k # m
  BY <1>3
<1>6. \A j \in SlotIdxs \ {i} : Live(j)' <=> Live(j)
  BY DEF Live, RestsIn
<1>7. ASSUME NEW k \in 1 .. m - 1
      PROVE  ~ Live(g[k])' /\ slots'[g[k]].next = IF k = 1 THEN NIL ELSE g[k - 1]
  <2>1. g[k] = f[k] /\ f[k] \in SlotIdxs /\ ~ Live(f[k]) /\ f[k] # i
        /\ slots[f[k]].next = IF k = 1 THEN NIL ELSE f[k - 1]
    BY <1>1, <1>4, <1>5 DEF Stacked
  <2>2. k # 1 => k - 1 \in 1 .. m - 1
    BY <1>3
  <2>3. f[k] # levels[s][l].tail
    <3>1. Ended(s, l)
      BY DEF ListsLinked
    <3> QED BY <2>1, <3>1, SlotsAreNats DEF Ended, At
  <2>4. slots'[f[k]].next = slots[f[k]].next
    BY <2>1, <2>3 DEF RestsIn
  <2>5. ~ Live(f[k])'
    BY <1>6, <2>1
  <2> QED BY <1>5, <2>1, <2>2, <2>4, <2>5
<1>8. ASSUME NEW j \in 1 .. m - 1, NEW k \in 1 .. m - 1, g[j] = g[k] PROVE j = k
  BY <1>1, <1>5, <1>8 DEF Stacked
<1>9. ASSUME NEW j \in SlotIdxs \ LiveSlots' PROVE \E k \in 1 .. m - 1 : g[k] = j
  <2>1. j \in SlotIdxs \ LiveSlots /\ j # i
    BY RestAt
  <2>2. PICK k \in 1 .. m : f[k] = j
    BY <1>1, <2>1 DEF Stacked
  <2>3. k \in 1 .. m - 1
    BY <1>3, <1>4, <2>1, <2>2
  <2> QED BY <1>5, <2>2, <2>3
<1>10. freeHead' = IF m - 1 = 0 THEN NIL ELSE g[m - 1]
  <2>1. slots[i].next = IF m = 1 THEN NIL ELSE f[m - 1]
    BY <1>1, <1>4 DEF Stacked
  <2> QED BY <1>2, <1>3, <1>4, <1>5, <2>1
<1> HIDE DEF g
<1>11. Stacked(g, m - 1)'
  BY <1>7, <1>8, <1>9, <1>10 DEF Stacked
<1>12. FreeStack'
  BY <1>3, <1>5, <1>11 DEF FreeStack
<1>13. len < MaxLiveOrders
  BY <1>0, <1>3, <1>4, SlotsAreNats
<1> QED BY <1>12, <1>13

LEMMA RestIndex ==
  ASSUME BookTyped, IndexInverse, ReadyToRest, NEW i \in SlotIdxs, NEW s \in Sides,
         NEW l \in LevelIdxs, RestsIn(i, s, l)
  PROVE  IndexInverse'
<1>1. index' = [index EXCEPT ![taker.id] = i] /\ index \in [OrderIds -> SlotIdxs \cup {NIL}]
      /\ taker.id \in OrderIds /\ index[taker.id] = NIL /\ i \notin LiveSlots /\ i # NIL
  BY SlotsAreNats DEF RestsIn, ReadyToRest, BookTyped, Takers
<1>2. /\ slots'[i].order.id = taker.id /\ slots'[i].order # NoOrder
      /\ \A j \in SlotIdxs \ {i} : slots'[j].order = slots[j].order
  BY BookAssumption DEF RestsIn, Resting
<1>3. ASSUME NEW id \in OrderIds, index'[id] # NIL
      PROVE  slots'[index'[id]].order # NoOrder /\ slots'[index'[id]].order.id = id
  <2>1. CASE id = taker.id
    BY <1>1, <1>2, <2>1
  <2>2. CASE id # taker.id
    <3>1. index'[id] = index[id] /\ index[id] \in SlotIdxs
      BY <1>1, <1>3, <2>2
    <3>2. Live(index[id]) /\ slots[index[id]].order.id = id
      BY <1>3, <3>1 DEF IndexInverse
    <3>3. index[id] # i
      BY <1>1, <3>1, <3>2 DEF LiveSlots
    <3> QED BY <1>2, <3>1, <3>2, <3>3 DEF Live
  <2> QED BY <2>1, <2>2
<1>4. ASSUME NEW j \in LiveSlots' PROVE index'[slots'[j].order.id] = j
  <2>1. CASE j = i
    BY <1>1, <1>2, <2>1
  <2>2. CASE j # i
    <3>1. j \in LiveSlots /\ j \in SlotIdxs \ {i}
      BY <2>2, RestAt DEF LiveSlots
    <3>2. slots'[j].order = slots[j].order /\ index[slots[j].order.id] = j
          /\ slots[j].order.id \in OrderIds /\ j # NIL
      BY <1>2, <3>1, LiveTyped, SlotsAreNats DEF IndexInverse, LiveSlots
    <3> QED BY <1>1, <3>2
  <2> QED BY <2>1, <2>2
<1> QED BY <1>3, <1>4 DEF IndexInverse, Live

LEMMA RestBest ==
  ASSUME BookTyped, CountsRight, BestIsTrue, NEW i \in SlotIdxs, NEW s0 \in Sides,
         NEW l0 \in LevelIdxs, RestsIn(i, s0, l0)
  PROVE  BestIsTrue'
<1> SUFFICES ASSUME NEW s \in Sides
             PROVE  /\ occupied'[s] = Occupied(s)'
                    /\ IF Occupied(s)' = {} THEN best'[s] = NIL
                       ELSE /\ best'[s] \in Occupied(s)'
                            /\ \A l \in Occupied(s)' : ~ Better(s, l, best'[s])
  BY DEF BestIsTrue, Occupied
<1>2. /\ occupied[s] = Occupied(s)
      /\ IF Occupied(s) = {} THEN best[s] = NIL
         ELSE best[s] \in Occupied(s) /\ \A l \in Occupied(s) : ~ Better(s, l, best[s])
      /\ Occupied(s) \in SUBSET LevelIdxs
  BY DEF BestIsTrue, Occupied
<1>3. /\ occupied' = [occupied EXCEPT ![s0] = OccupiedAfterLink(s0, l0)]
      /\ best' = [best EXCEPT ![s0] = BestAfterLink(s0, l0)]
      /\ occupied \in [Sides -> SUBSET LevelIdxs] /\ best \in [Sides -> LevelIdxs \cup {NIL}]
  BY DEF RestsIn, BookTyped
<1>4. /\ levels[s0][l0].count \in Nat
      /\ \A l \in LevelIdxs : levels[s][l].count \in Nat
      /\ \A l \in LevelIdxs : levels'[s][l].count = IF s = s0 /\ l = l0 THEN levels[s][l].count + 1
                                                    ELSE levels[s][l].count
  BY RestCounts, LevelTyped
<1>5. CASE s # s0
  <2>1. Occupied(s)' = Occupied(s) /\ occupied'[s] = occupied[s] /\ best'[s] = best[s]
    BY <1>3, <1>4, <1>5 DEF Occupied
  <2> QED BY <1>2, <2>1
<1>6. CASE s = s0 /\ levels[s0][l0].count # 0
  <2>1. Occupied(s)' = Occupied(s)
    BY <1>4, <1>6 DEF Occupied
  <2>2. occupied'[s] = occupied[s] /\ best'[s] = best[s]
    BY <1>3, <1>6 DEF OccupiedAfterLink, BestAfterLink
  <2> QED BY <1>2, <2>1, <2>2
<1>7. CASE s = s0 /\ levels[s0][l0].count = 0
  <2>1. Occupied(s)' = Occupied(s) \cup {l0}
    BY <1>4, <1>7 DEF Occupied
  <2>2. occupied'[s] = Occupied(s)'
    BY <1>2, <1>3, <1>7, <2>1 DEF OccupiedAfterLink
  <2>3. best'[s] = IF best[s] = NIL \/ Better(s, l0, best[s]) THEN l0 ELSE best[s]
    BY <1>3, <1>7 DEF BestAfterLink
  <2>4. CASE best[s] = NIL
    <3>1. Occupied(s) = {}
      BY <1>2, <2>4, SlotsAreNats
    <3>2. ~ Better(s, l0, l0)
      BY BetterFacts
    <3> QED BY <2>1, <2>2, <2>3, <2>4, <3>1, <3>2
  <2>5. CASE best[s] # NIL
    <3>1. Occupied(s) # {} /\ best[s] \in Occupied(s) /\ best[s] \in LevelIdxs
      BY <1>2, <2>5
    <3>2. CASE Better(s, l0, best[s])
      <4>1. \A l \in Occupied(s) \cup {l0} : ~ Better(s, l, l0)
        <5>1. ASSUME NEW l \in Occupied(s) \cup {l0} PROVE ~ Better(s, l, l0)
          <6>1. l \in Nat /\ l0 \in Nat /\ best[s] \in Nat
            BY <1>2, <3>1, SlotsAreNats
          <6>2. ~ Better(s, l, best[s]) \/ l = l0
            BY <1>2, <3>1
          <6> QED BY <3>2, <6>1, <6>2 DEF Better
        <5> QED BY <5>1
      <4> QED BY <2>1, <2>2, <2>3, <3>2, <4>1
    <3>3. CASE ~ Better(s, l0, best[s])
      BY <1>2, <2>1, <2>2, <2>3, <2>5, <3>1, <3>3
    <3> QED BY <3>2, <3>3
  <2> QED BY <2>4, <2>5
<1> QED BY <1>5, <1>6, <1>7

LEMMA RestTyped ==
  ASSUME BookTyped, ListsLinked, FreeStack, ReadyToRest, NEW i \in SlotIdxs, NEW s \in Sides,
         NEW l \in LevelIdxs, RestsIn(i, s, l)
  PROVE  BookTyped'
<1>1. slots' \in [SlotIdxs -> Slot] /\ freeHead' \in SlotIdxs \cup {NIL}
  BY SlotTyped DEF RestsIn
<1>2. len' \in 0 .. MaxLiveOrders
  <2>1. len' = len + 1
    BY DEF RestsIn
  <2>2. len < MaxLiveOrders /\ len \in 0 .. MaxLiveOrders /\ MaxLiveOrders \in Nat
    BY RestFreeStack, SlotsAreNats DEF BookTyped
  <2> QED BY <2>1, <2>2
<1>3. Linked(levels[s][l], i, taker.remaining) \in Level
  <2>1. levels[s][l] \in Level /\ taker.remaining \in Nat
    BY LevelTyped DEF ReadyToRest, Takers
  <2> QED BY <2>1 DEF Linked, Level
<1>4. levels' \in [Sides -> [LevelIdxs -> Level]]
  BY <1>3 DEF RestsIn, BookTyped
<1>5. occupied' \in [Sides -> SUBSET LevelIdxs] /\ best' \in [Sides -> LevelIdxs \cup {NIL}]
  <2>1. /\ occupied' = [occupied EXCEPT ![s] = OccupiedAfterLink(s, l)]
        /\ best' = [best EXCEPT ![s] = BestAfterLink(s, l)]
    BY DEF RestsIn
  <2> QED BY <2>1 DEF BookTyped, OccupiedAfterLink, BestAfterLink
<1>6. index' \in [OrderIds -> SlotIdxs \cup {NIL}]
  BY DEF RestsIn, BookTyped
<1> QED BY <1>1, <1>2, <1>4, <1>5, <1>6 DEF BookTyped

LEMMA RestPlaces ==
  ASSUME OrdersInPlace, taker.remaining > 0, OnGrid(taker.price),
         NEW i \in SlotIdxs, NEW s \in Sides, NEW l \in LevelIdxs, RestsIn(i, s, l)
  PROVE  OrdersInPlace'
<1> SUFFICES ASSUME NEW j \in LiveSlots'
             PROVE  /\ slots'[j].order.remaining > 0
                    /\ OnGrid(slots'[j].order.price)
                    /\ slots'[j].level = PriceToIdx(slots'[j].order.price)
  BY DEF OrdersInPlace
<1>1. CASE j = i
  BY <1>1 DEF RestsIn, Resting
<1>2. CASE j # i
  <2>1. j \in LiveSlots /\ j \in SlotIdxs \ {i}
    BY <1>2, RestAt DEF LiveSlots
  <2>2. slots'[j].order = slots[j].order /\ slots'[j].level = slots[j].level
    BY <2>1 DEF RestsIn
  <2> QED BY <2>1, <2>2 DEF OrdersInPlace
<1> QED BY <1>1, <1>2

(* A higher level is a higher price.                                       *)
LEMMA PricesAscend ==
  ASSUME NEW l \in LevelIdxs, NEW m \in LevelIdxs
  PROVE  /\ IdxToPrice(l) \in Int /\ IdxToPrice(m) \in Int
         /\ IdxToPrice(l) < IdxToPrice(m) <=> l < m
<1>1. /\ l \in Nat /\ m \in Nat /\ TickSize \in Nat \ {0} /\ MinPrice \in Int
  BY SlotsAreNats, GridAssumption
<1>2. ASSUME NEW a \in Nat, NEW b \in Nat, a < b PROVE a * TickSize < b * TickSize
  BY <1>1, <1>2
<1>3. l * TickSize \in Int /\ m * TickSize \in Int
  BY <1>1
<1>4. l < m => l * TickSize < m * TickSize
  BY <1>1, <1>2
<1>5. m < l => m * TickSize < l * TickSize
  BY <1>1, <1>2
<1> DEFINE a == l * TickSize
           b == m * TickSize
<1>6. IdxToPrice(l) = MinPrice + a /\ IdxToPrice(m) = MinPrice + b
  BY DEF IdxToPrice
<1>7. a \in Int /\ b \in Int /\ (l < m => a < b) /\ (m < l => b < a) /\ (l = m => a = b)
  BY <1>3, <1>4, <1>5
<1> HIDE DEF a, b
<1>8. a < b <=> l < m
  BY <1>1, <1>7
<1> QED BY <1>1, <1>6, <1>7, <1>8

LEMMA RestApart ==
  ASSUME BookTyped, CountsRight, BestIsTrue, SidesApart, ReadyToRest, RestRemainder,
         NEW i \in SlotIdxs, NEW s \in Sides, NEW l \in LevelIdxs, RestsIn(i, s, l)
  PROVE  SidesApart'
<1>1. \A r \in Sides : Occupied(r)' \subseteq IF r = s THEN Occupied(r) \cup {l} ELSE Occupied(r)
  BY RestCounts DEF Occupied
<1>2. s = taker.side /\ ~ Marketable /\ taker.price \in I64
  BY DEF RestsIn, RestRemainder, CrossDone, ReadyToRest, Takers
<1>3. IdxToPrice(l) = taker.price
  BY LevelsArePrices, <1>2 DEF RestsIn, ReadyToRest
<1>4. ASSUME NEW m \in Occupied(Opp) PROVE IF s = "Bid" THEN l < m ELSE m < l
  <2>1. Opp \in Sides
    BY OppositeTyped, <1>2 DEF Opp
  <2>2. best[Opp] \in Occupied(Opp) /\ ~ Better(Opp, m, best[Opp])
    BY <2>1 DEF BestIsTrue, Occupied
  <2>3. m \in LevelIdxs /\ best[Opp] \in LevelIdxs /\ best[Opp] # NIL
    BY <2>2, SlotsAreNats DEF Occupied
  <2>4. ~ Crosses(s, taker.price, IdxToPrice(best[Opp]))
    BY <1>2, <2>3 DEF Marketable
  <2>5. CASE s = "Bid"
    <3>1. l < best[Opp] /\ Opp = "Ask"
      BY <1>2, <1>3, <2>3, <2>4, <2>5, PricesAscend DEF Crosses, Opp, Opposite
    <3>2. ~ (m < best[Opp])
      BY <2>2, <3>1 DEF Better
    <3>3. l \in Nat /\ m \in Nat /\ best[Opp] \in Nat
      BY <2>3, SlotsAreNats
    <3> QED BY <2>5, <3>1, <3>2, <3>3
  <2>6. CASE s # "Bid"
    <3>1. best[Opp] < l /\ Opp = "Bid"
      BY <1>2, <1>3, <2>3, <2>4, <2>6, PricesAscend DEF Crosses, Opp, Opposite
    <3>2. ~ (m > best[Opp])
      BY <2>2, <3>1 DEF Better
    <3>3. l \in Nat /\ m \in Nat /\ best[Opp] \in Nat
      BY <2>3, SlotsAreNats
    <3> QED BY <2>6, <3>1, <3>2, <3>3
  <2> QED BY <2>5, <2>6
<1>5. CASE s = "Bid"
  <2>1. Opp = "Ask" /\ Occupied("Bid")' \subseteq Occupied("Bid") \cup {l}
        /\ Occupied("Ask")' \subseteq Occupied("Ask")
    BY <1>1, <1>2, <1>5 DEF Opp, Opposite, Sides
  <2> QED BY <1>4, <1>5, <2>1 DEF SidesApart
<1>6. CASE s = "Ask"
  <2>1. Opp = "Bid" /\ Occupied("Ask")' \subseteq Occupied("Ask") \cup {l}
        /\ Occupied("Bid")' \subseteq Occupied("Bid")
    BY <1>1, <1>2, <1>6 DEF Opp, Opposite, Sides
  <2> QED BY <1>4, <1>6, <2>1 DEF SidesApart
<1> QED BY <1>5, <1>6 DEF Sides

LEMMA RestInv == ASSUME BookInv, ReadyToRest, RestRemainder PROVE BookInv'
<1>1. /\ BookTyped /\ ListsLinked /\ ListsEnd /\ CountsRight /\ TotalsRight /\ FreeStack
      /\ IndexInverse /\ BestIsTrue /\ OrdersInPlace /\ SidesApart
      /\ taker \in Takers /\ OnGrid(taker.price) /\ taker.remaining > 0
  BY DEF BookInv, ReadyToRest, RestRemainder
<1>2. PICK i \in SlotIdxs : \E s \in Sides, l \in LevelIdxs : RestsIn(i, s, l)
  BY <1>1, RestFields
<1>3. PICK s \in Sides, l \in LevelIdxs : RestsIn(i, s, l)
  BY <1>2
<1>4. BookTyped' /\ ListsEnd' /\ CountsRight' /\ TotalsRight' /\ FreeStack' /\ IndexInverse'
      /\ BestIsTrue' /\ OrdersInPlace' /\ SidesApart'
  BY <1>1, <1>3, RestTyped, RestListsEnd, RestCounts, RestTotals, RestFreeStack, RestIndex, RestBest,
     RestPlaces, RestApart
<1>5. ListsLinked'
  BY <1>1, <1>3, RestMirrored, RestEnded DEF ListsLinked
<1> QED BY <1>4, <1>5 DEF BookInv

-----------------------------------------------------------------------------
(* A maker that is filled in part stays where it is.                       *)

FillsPart(i, s, l, q) ==
  /\ i \in LiveSlots /\ q \in Nat /\ q < slots[i].order.remaining
  /\ s = slots[i].order.side /\ l = slots[i].level
  /\ slots' = [slots EXCEPT ![i].order.remaining = @ - q]
  /\ levels' = [levels EXCEPT ![s][l].total = @ - q]
  /\ UNCHANGED <<freeHead, len, occupied, best, index>>

LEMMA PartFields ==
  ASSUME BookTyped, ListsLinked, TotalsRight, NEW i, NEW s, NEW l, NEW q, FillsPart(i, s, l, q)
  PROVE  /\ i \in SlotIdxs /\ s \in Sides /\ l \in LevelIdxs /\ i \in At(s, l)
         /\ slots' \in [SlotIdxs -> Slot]
         /\ \A j \in SlotIdxs :
              /\ slots'[j].level = slots[j].level
              /\ slots'[j].prev = slots[j].prev
              /\ slots'[j].next = slots[j].next
              /\ j # i => slots'[j].order = slots[j].order
         /\ slots[i].order \in Order /\ slots'[i].order \in Order
         /\ slots'[i].order.id = slots[i].order.id
         /\ slots'[i].order.side = slots[i].order.side
         /\ slots'[i].order.price = slots[i].order.price
         /\ slots'[i].order.remaining = slots[i].order.remaining - q
         /\ levels[s][l].total - q \in Nat
         /\ levels' \in [Sides -> [LevelIdxs -> Level]]
         /\ \A r \in Sides, m \in LevelIdxs :
              /\ levels'[r][m].head = levels[r][m].head
              /\ levels'[r][m].tail = levels[r][m].tail
              /\ levels'[r][m].count = levels[r][m].count
              /\ levels'[r][m].total = IF r = s /\ m = l THEN levels[r][m].total - q
                                       ELSE levels[r][m].total
<1>1. i \in SlotIdxs /\ s \in Sides /\ l \in LevelIdxs /\ i \in At(s, l) /\ Live(i)
  BY Neighbours DEF FillsPart
<1>2. slots[i].order \in Order /\ slots[i].order.remaining \in Nat /\ q \in Nat
      /\ q < slots[i].order.remaining
  BY <1>1, LiveTyped DEF FillsPart
<1>3. slots[i].order.remaining - q \in Nat
  BY <1>2
<1>4. slots \in [SlotIdxs -> Slot] /\ slots[i] \in Slot
  BY <1>1 DEF BookTyped
<1> DEFINE left == [slots[i].order EXCEPT !.remaining = slots[i].order.remaining - q]
<1>5. /\ left \in Order
      /\ left.id = slots[i].order.id /\ left.side = slots[i].order.side
      /\ left.price = slots[i].order.price
      /\ left.remaining = slots[i].order.remaining - q
  BY <1>2, <1>3 DEF Order
<1>6. slots' = [slots EXCEPT ![i] = [slots[i] EXCEPT !.order = left]]
  BY <1>1, <1>2, <1>4 DEF FillsPart, Slot, Order
<1> HIDE DEF left
<1>7. [slots[i] EXCEPT !.order = left] \in Slot
  BY <1>4, <1>5 DEF Slot
<1>8. /\ slots' \in [SlotIdxs -> Slot]
      /\ \A j \in SlotIdxs :
              /\ slots'[j].level = slots[j].level
              /\ slots'[j].prev = slots[j].prev
              /\ slots'[j].next = slots[j].next
              /\ j # i => slots'[j].order = slots[j].order
      /\ slots'[i].order = left
  BY <1>1, <1>4, <1>6, <1>7 DEF Slot
<1>9. levels[s][l] \in Level /\ levels[s][l].total \in Nat /\ levels \in [Sides -> [LevelIdxs -> Level]]
  BY <1>1, LevelTyped DEF BookTyped
<1>10. levels[s][l].total - q \in Nat
  <2>1. SumsTo(QtysAt(s, l), levels[s][l].total) /\ QtysAt(s, l) \in [SlotIdxs -> Nat]
    BY <1>1, QtysTyped DEF TotalsRight
  <2>2. QtysAt(s, l)[i] <= levels[s][l].total
    BY <1>1, <2>1, SumChange
  <2>3. QtysAt(s, l)[i] = slots[i].order.remaining
    BY <1>1 DEF QtysAt
  <2> QED BY <1>2, <1>9, <2>2, <2>3
<1> DEFINE less == [levels[s][l] EXCEPT !.total = levels[s][l].total - q]
<1>11. /\ less \in Level /\ less.head = levels[s][l].head /\ less.tail = levels[s][l].tail
       /\ less.count = levels[s][l].count /\ less.total = levels[s][l].total - q
  BY <1>9, <1>10 DEF Level
<1>12. levels' = [levels EXCEPT ![s] = [levels[s] EXCEPT ![l] = less]]
  BY <1>1, <1>9 DEF FillsPart
<1> HIDE DEF less
<1>13. /\ levels' \in [Sides -> [LevelIdxs -> Level]]
       /\ \A r \in Sides, m \in LevelIdxs : levels'[r][m] = IF r = s /\ m = l THEN less ELSE levels[r][m]
  BY <1>1, <1>9, <1>11, <1>12
<1>14. \A r \in Sides, m \in LevelIdxs :
              /\ levels'[r][m].head = levels[r][m].head
              /\ levels'[r][m].tail = levels[r][m].tail
              /\ levels'[r][m].count = levels[r][m].count
              /\ levels'[r][m].total = IF r = s /\ m = l THEN levels[r][m].total - q
                                       ELSE levels[r][m].total
  BY <1>11, <1>13
<1> QED BY <1>1, <1>2, <1>5, <1>8, <1>10, <1>13, <1>14

LEMMA PartAt ==
  ASSUME BookTyped, ListsLinked, TotalsRight, NEW i, NEW s, NEW l, NEW q, FillsPart(i, s, l, q)
  PROVE  /\ LiveSlots' = LiveSlots
         /\ \A r, m : At(r, m)' = At(r, m)
         /\ \A j \in LiveSlots : slots'[j].order.id = slots[j].order.id
                                 /\ slots'[j].order.side = slots[j].order.side
                                 /\ slots'[j].order.price = slots[j].order.price
<1>1. i \in SlotIdxs /\ i \in LiveSlots
  BY PartFields DEF FillsPart
<1>2. slots'[i].order # NoOrder /\ slots[i].order # NoOrder
      /\ slots'[i].order.id = slots[i].order.id
      /\ slots'[i].order.side = slots[i].order.side
      /\ slots'[i].order.price = slots[i].order.price
  BY PartFields, BookAssumption
<1>3. \A j \in SlotIdxs : /\ slots'[j].level = slots[j].level
                          /\ j # i => slots'[j].order = slots[j].order
  BY PartFields
<1>4. \A j \in SlotIdxs : Live(j)' <=> Live(j)
  BY <1>2, <1>3 DEF Live
<1>5. \A j \in SlotIdxs : slots'[j].order.side = slots[j].order.side
  BY <1>2, <1>3
<1>6. LiveSlots' = LiveSlots
  BY <1>4 DEF LiveSlots
<1>7. ASSUME NEW r, NEW m PROVE At(r, m)' = At(r, m)
  BY <1>3, <1>4, <1>5 DEF At
<1>8. \A j \in LiveSlots : slots'[j].order.id = slots[j].order.id
                           /\ slots'[j].order.side = slots[j].order.side
                           /\ slots'[j].order.price = slots[j].order.price
  BY <1>2, <1>3 DEF LiveSlots
<1> QED BY <1>6, <1>7, <1>8

LEMMA PartInv ==
  ASSUME BookInv, NEW i, NEW s, NEW l, NEW q, FillsPart(i, s, l, q)
  PROVE  BookInv'
<1>1. /\ BookTyped /\ ListsLinked /\ ListsEnd /\ CountsRight /\ TotalsRight /\ FreeStack
      /\ IndexInverse /\ BestIsTrue /\ OrdersInPlace /\ SidesApart
      /\ UNCHANGED <<freeHead, len, occupied, best, index>>
      /\ i \in LiveSlots /\ q \in Nat /\ q < slots[i].order.remaining
  BY DEF BookInv, FillsPart
<1>2. /\ LiveSlots' = LiveSlots /\ LiveSlots \subseteq SlotIdxs
      /\ \A r, m : At(r, m)' = At(r, m)
      /\ \A j \in LiveSlots : slots'[j].order.id = slots[j].order.id
                              /\ slots'[j].order.side = slots[j].order.side
                              /\ slots'[j].order.price = slots[j].order.price
  BY <1>1, PartAt DEF LiveSlots
<1>3. \A j \in SlotIdxs : /\ slots'[j].level = slots[j].level
                          /\ slots'[j].prev = slots[j].prev
                          /\ slots'[j].next = slots[j].next
                          /\ j # i => slots'[j].order = slots[j].order
  BY <1>1, PartFields
<1>4. \A r \in Sides, m \in LevelIdxs :
              /\ levels'[r][m].head = levels[r][m].head
              /\ levels'[r][m].tail = levels[r][m].tail
              /\ levels'[r][m].count = levels[r][m].count
              /\ levels'[r][m].total = IF r = s /\ m = l THEN levels[r][m].total - q
                                       ELSE levels[r][m].total
  BY <1>1, PartFields
<1>5. BookTyped'
  <2>1. slots' \in [SlotIdxs -> Slot] /\ levels' \in [Sides -> [LevelIdxs -> Level]]
    BY <1>1, PartFields
  <2> QED BY <1>1, <2>1 DEF BookTyped
<1>6. ListsLinked'
  <2>1. ASSUME NEW j \in LiveSlots PROVE Mirrored(j)'
    <3>1. Mirrored(j) /\ j \in SlotIdxs /\ slots[j].order.side \in Sides /\ slots[j].level \in LevelIdxs
      BY <1>1, Neighbours
    <3>2. /\ slots'[j].order.side = slots[j].order.side /\ slots'[j].level = slots[j].level
          /\ slots'[j].prev = slots[j].prev /\ slots'[j].next = slots[j].next
      BY <1>2, <1>3, <3>1
    <3>3. \A k \in SlotIdxs : slots'[k].next = slots[k].next /\ slots'[k].prev = slots[k].prev
      BY <1>3
    <3>4. PICK r \in Sides, m \in LevelIdxs : r = slots[j].order.side /\ m = slots[j].level
      BY <3>1
    <3>5. At(r, m)' = At(r, m) /\ At(r, m) \subseteq SlotIdxs
          /\ levels'[r][m].head = levels[r][m].head /\ levels'[r][m].tail = levels[r][m].tail
      BY <1>2, <1>4 DEF At
    <3> QED BY <3>1, <3>2, <3>3, <3>4, <3>5 DEF Mirrored
  <2>2. ASSUME NEW r \in Sides, NEW m \in LevelIdxs PROVE Ended(r, m)'
    <3>1. Ended(r, m)
      BY <1>1 DEF ListsLinked
    <3>2. At(r, m)' = At(r, m) /\ At(r, m) \subseteq SlotIdxs
      BY <1>2 DEF At
    <3> QED BY <1>3, <1>4, <3>1, <3>2 DEF Ended
  <2> QED BY <1>2, <2>1, <2>2 DEF ListsLinked
<1>7. ListsEnd'
  BY <1>1, <1>2, <1>3 DEF ListsEnd
<1>8. CountsRight'
  BY <1>1, <1>2, <1>4 DEF CountsRight
<1>9. TotalsRight'
  <2>1. /\ i \in SlotIdxs /\ s \in Sides /\ l \in LevelIdxs /\ i \in At(s, l)
        /\ slots'[i].order.remaining = slots[i].order.remaining - q
        /\ slots[i].order \in Order /\ levels[s][l].total - q \in Nat
    BY <1>1, PartFields
  <2>2. slots[i].order.remaining \in Nat /\ slots[i].order.remaining - q \in Nat
        /\ levels[s][l].total \in Nat
    BY <1>1, <2>1, LevelTyped DEF Order
  <2>3. ASSUME NEW r \in Sides, NEW m \in LevelIdxs
        PROVE  SumsTo(QtysAt(r, m)', levels'[r][m].total)
    <3>1. SumsTo(QtysAt(r, m), levels[r][m].total) /\ QtysAt(r, m) \in [SlotIdxs -> Nat]
      BY <1>1, QtysTyped DEF TotalsRight
    <3>2. CASE r = s /\ m = l
      <4>1. QtysAt(r, m)' = [QtysAt(r, m) EXCEPT ![i] = slots[i].order.remaining - q]
        BY <1>2, <1>3, <2>1, <3>2 DEF QtysAt
      <4>2. QtysAt(r, m)[i] = slots[i].order.remaining
        BY <2>1, <3>2 DEF QtysAt
      <4>3. levels'[r][m].total
              = levels[r][m].total - QtysAt(r, m)[i] + (slots[i].order.remaining - q)
        BY <1>1, <1>4, <2>1, <2>2, <3>2, <4>2
      <4>4. SumsTo([QtysAt(r, m) EXCEPT ![i] = slots[i].order.remaining - q],
                   levels[r][m].total - QtysAt(r, m)[i] + (slots[i].order.remaining - q))
        BY <2>1, <2>2, <3>1, SumChange, Zenon
      <4> QED BY <4>1, <4>3, <4>4
    <3>3. CASE ~ (r = s /\ m = l)
      <4>1. i \notin At(r, m)
        BY <2>1, <3>3 DEF At
      <4>2. QtysAt(r, m)' = QtysAt(r, m)
        BY <1>2, <1>3, <4>1 DEF QtysAt
      <4>3. levels'[r][m].total = levels[r][m].total
        BY <1>4, <3>3
      <4> QED BY <3>1, <4>2, <4>3
    <3> QED BY <3>2, <3>3
  <2> QED BY <2>3 DEF TotalsRight, SumsTo
<1>10. FreeStack'
  <2>1. len' = len /\ freeHead' = freeHead /\ i \in LiveSlots /\ LiveSlots' = LiveSlots
    BY <1>1, <1>2
  <2>2. PICK f \in [1 .. MaxLiveOrders - len -> SlotIdxs] : Stacked(f, MaxLiveOrders - len)
    BY <1>1 DEF FreeStack
  <2>3. \A j \in SlotIdxs : Live(j)' <=> Live(j)
    BY <2>1 DEF LiveSlots
  <2>4. Stacked(f, MaxLiveOrders - len)'
    <3>1. PICK m : m = MaxLiveOrders - len
      OBVIOUS
    <3>2. f \in [1 .. m -> SlotIdxs] /\ Stacked(f, m) /\ (MaxLiveOrders - len)' = m
      BY <2>1, <2>2, <3>1
    <3>3. Stacked(f, m)'
      BY <1>3, <2>1, <2>3, <3>2 DEF Stacked
    <3> QED BY <2>1, <3>1, <3>3 DEF Stacked
  <2> QED BY <2>1, <2>2, <2>4 DEF FreeStack
<1>11. IndexInverse'
  BY <1>1, <1>2 DEF IndexInverse, LiveSlots, BookTyped
<1>12. BestIsTrue' /\ SidesApart'
  BY <1>1, <1>4 DEF BestIsTrue, SidesApart, Occupied, Sides
<1>13. OrdersInPlace'
  <2>1. ASSUME NEW j \in LiveSlots
        PROVE  /\ slots'[j].order.remaining > 0
               /\ OnGrid(slots'[j].order.price)
               /\ slots'[j].level = PriceToIdx(slots'[j].order.price)
    <3>1. slots[j].order.remaining > 0 /\ slots'[j].order.price = slots[j].order.price
          /\ slots'[j].level = slots[j].level
      BY <1>1, <1>2, <1>3 DEF OrdersInPlace
    <3>2. slots'[j].order.remaining > 0
      <4>1. CASE j = i
        <5>1. slots'[i].order.remaining = slots[i].order.remaining - q /\ slots[i].order \in Order
          BY <1>1, PartFields
        <5>2. slots[i].order.remaining \in Nat
          BY <5>1 DEF Order
        <5> QED BY <1>1, <4>1, <5>1, <5>2
      <4>2. CASE j # i
        BY <1>2, <1>3, <3>1, <4>2
      <4> QED BY <4>1, <4>2
    <3> QED BY <1>1, <3>1, <3>2 DEF OrdersInPlace
  <2> QED BY <1>2, <2>1 DEF OrdersInPlace
<1> QED BY <1>5, <1>6, <1>7, <1>8, <1>9, <1>10, <1>11, <1>12, <1>13 DEF BookInv

-----------------------------------------------------------------------------
(* The steps.                                                              *)

LEMMA BookStays == ASSUME BookInv, UNCHANGED <<arena, sides, index>> PROVE BookInv'
<1>1. /\ slots' = slots /\ freeHead' = freeHead /\ len' = len /\ levels' = levels
      /\ occupied' = occupied /\ best' = best /\ index' = index
  BY DEF arena, sides
<1>2. /\ BookTyped /\ ListsLinked /\ ListsEnd /\ CountsRight /\ TotalsRight /\ FreeStack
      /\ IndexInverse /\ BestIsTrue /\ OrdersInPlace /\ SidesApart
  BY DEF BookInv
<1>3. BookTyped'
  BY <1>1, <1>2 DEF BookTyped
<1>4. LiveSlots' = LiveSlots
  BY <1>1 DEF LiveSlots, Live
<1>5. ListsLinked'
  <2>1. \A s, l : At(s, l)' = At(s, l)
    BY <1>1 DEF At, Live
  <2>2. ASSUME NEW i \in LiveSlots PROVE Mirrored(i)'
    BY <1>1, <1>2, <2>1, <2>2 DEF ListsLinked, Mirrored
  <2>3. ASSUME NEW s \in Sides, NEW l \in LevelIdxs PROVE Ended(s, l)'
    BY <1>1, <1>2, <2>1, <2>3 DEF ListsLinked, Ended
  <2> QED BY <1>4, <2>2, <2>3 DEF ListsLinked
<1>6. ListsEnd'
  BY <1>1, <1>2, <1>4 DEF ListsEnd
<1>7. CountsRight'
  BY <1>1, <1>2 DEF CountsRight, At, LiveSlots, Live
<1>8. TotalsRight'
  BY <1>1, <1>2 DEF TotalsRight, SumsTo, QtysAt, At, Live
<1>9. FreeStack'
  <2>0. PICK m : m = MaxLiveOrders - len
    OBVIOUS
  <2>1. PICK f \in [1 .. m -> SlotIdxs] : Stacked(f, m)
    BY <1>2, <2>0 DEF FreeStack
  <2>2. Stacked(f, m)'
    BY <1>1, <2>1 DEF Stacked, LiveSlots, Live
  <2>3. Stacked(f, MaxLiveOrders - len)'
    BY <1>1, <2>0, <2>2 DEF Stacked
  <2> QED BY <1>1, <2>0, <2>1, <2>3 DEF FreeStack
<1>10. IndexInverse' /\ BestIsTrue' /\ OrdersInPlace' /\ SidesApart'
  BY <1>1, <1>2, <1>4 DEF IndexInverse, BestIsTrue, OrdersInPlace, SidesApart, Occupied, Live
<1> QED BY <1>2, <1>3, <1>5, <1>6, <1>7, <1>8, <1>9, <1>10 DEF BookInv

LEMMA InitHolds == ASSUME Init PROVE IInv
<1>1. /\ MaxLiveOrders \in Nat \ {0} /\ 0 \in SlotIdxs
      /\ \A i \in SlotIdxs : i + 1 < MaxLiveOrders => i + 1 \in SlotIdxs
  BY SlotsAreNats DEF SlotIdxs
<1>2. /\ slots = [i \in SlotIdxs |-> FreeSlot(IF i + 1 < MaxLiveOrders THEN i + 1 ELSE NIL)]
      /\ freeHead = 0 /\ len = 0
      /\ levels = [s \in Sides |-> [l \in LevelIdxs |-> EmptyLevel]]
      /\ occupied = [s \in Sides |-> {}]
      /\ best = [s \in Sides |-> NIL]
      /\ index = [id \in OrderIds |-> NIL]
      /\ taker = NoOrder /\ lvl = NIL /\ cur = NIL /\ out = <<>>
  BY DEF Init
<1>3. BookTyped
  <2>1. slots \in [SlotIdxs -> Slot]
    BY <1>1, <1>2 DEF FreeSlot, Slot
  <2>2. levels \in [Sides -> [LevelIdxs -> Level]]
    BY <1>2 DEF EmptyLevel, Level
  <2> QED BY <1>1, <1>2, <2>1, <2>2 DEF BookTyped
<1>4. LiveSlots = {} /\ \A i \in SlotIdxs : ~ Live(i)
  BY <1>2 DEF LiveSlots, Live, FreeSlot
<1>5. \A s, l : At(s, l) = {}
  BY <1>4 DEF At
<1>6. \A s \in Sides, l \in LevelIdxs : levels[s][l] = EmptyLevel
  BY <1>2
<1>7. ListsLinked
  BY <1>4, <1>6 DEF ListsLinked, Ended, EmptyLevel
<1>8. ListsEnd
  <2>1. [i \in SlotIdxs |-> 0] \in [SlotIdxs -> Nat]
    OBVIOUS
  <2> QED BY <1>4, <2>1 DEF ListsEnd
<1>9. CountsRight
  BY <1>2, <1>4, <1>5, <1>6, FS_EmptySet DEF CountsRight, EmptyLevel
<1>10. TotalsRight
  <2>1. \A s, l : QtysAt(s, l) = [i \in SlotIdxs |-> 0]
    BY <1>5 DEF QtysAt
  <2> QED BY <1>6, <2>1, SumOfNothing DEF TotalsRight, EmptyLevel
<1>11. FreeStack
  <2> DEFINE f == [k \in 1 .. MaxLiveOrders |-> MaxLiveOrders - k]
  <2>1. f \in [1 .. MaxLiveOrders -> SlotIdxs]
    BY <1>1 DEF SlotIdxs
  <2>2. \A k \in 1 .. MaxLiveOrders : f[k] = MaxLiveOrders - k /\ k \in Nat /\ f[k] \in SlotIdxs
    BY <2>1
  <2>3. freeHead = f[MaxLiveOrders] /\ MaxLiveOrders # 0 /\ MaxLiveOrders \in 1 .. MaxLiveOrders
    BY <1>1, <1>2
  <2> HIDE DEF f
  <2>4. ASSUME NEW k \in 1 .. MaxLiveOrders
        PROVE  ~ Live(f[k]) /\ slots[f[k]].next = IF k = 1 THEN NIL ELSE f[k - 1]
    <3>1. slots[f[k]].next = IF f[k] + 1 < MaxLiveOrders THEN f[k] + 1 ELSE NIL
      BY <1>2, <2>2 DEF FreeSlot
    <3>2. k # 1 => f[k - 1] = f[k] + 1 /\ f[k] + 1 < MaxLiveOrders
      BY <1>1, <2>2
    <3>3. k = 1 => ~ (f[k] + 1 < MaxLiveOrders)
      BY <1>1, <2>2
    <3> QED BY <1>4, <2>2, <3>1, <3>2, <3>3
  <2>5. \A j, k \in 1 .. MaxLiveOrders : f[j] = f[k] => j = k
    BY <1>1, <2>2
  <2>6. ASSUME NEW i \in SlotIdxs PROVE \E k \in 1 .. MaxLiveOrders : f[k] = i
    <3>1. MaxLiveOrders - i \in 1 .. MaxLiveOrders /\ MaxLiveOrders - (MaxLiveOrders - i) = i
      BY <1>1 DEF SlotIdxs
    <3> QED BY <2>2, <3>1
  <2>7. Stacked(f, MaxLiveOrders)
    BY <2>3, <2>4, <2>5, <2>6 DEF Stacked
  <2>8. MaxLiveOrders - len = MaxLiveOrders
    BY <1>1, <1>2
  <2> QED BY <2>1, <2>7, <2>8 DEF FreeStack
<1>12. IndexInverse
  BY <1>2, <1>4 DEF IndexInverse
<1>13. BestIsTrue /\ SidesApart
  BY <1>2, <1>6 DEF BestIsTrue, SidesApart, Occupied, EmptyLevel, Sides
<1>14. OrdersInPlace
  BY <1>4 DEF OrdersInPlace
<1>15. LoopInv /\ CursorAtHead /\ FreeSlotForTaker
  BY <1>2 DEF LoopInv, CursorAtHead, FreeSlotForTaker
<1>16. BookInv
  BY <1>3, <1>7, <1>8, <1>9, <1>10, <1>11, <1>12, <1>13, <1>14 DEF BookInv
<1> QED BY <1>15, <1>16 DEF IInv

LEMMA PushedTyped ==
  ASSUME NEW buf \in Seq(Event), NEW e \in Event
  PROVE  Pushed(buf, e) \in Seq(Event)
BY AppendProperties DEF Pushed

(* Between two inputs the match loop is empty.                             *)
LEMMA QuiescentFacts ==
  ASSUME IInv, Quiescent
  PROVE  /\ taker = NoOrder /\ lvl = NIL /\ cur = NIL /\ out \in Seq(Event)
         /\ index \in [OrderIds -> SlotIdxs \cup {NIL}] /\ freeHead \in SlotIdxs \cup {NIL}
BY DEF IInv, LoopInv, Quiescent, BookInv, BookTyped

LEMMA NewInv ==
  ASSUME IInv, NEW id \in OrderIds, NEW tr \in TraderIds, NEW s \in Sides, NEW p \in InPrices,
         NEW q \in InQtys, NEW tif \in InTifs, NEW stp \in InStps,
         ApplyNew(id, tr, s, p, q, tif, stp)
  PROVE  IInv'
<1> DEFINE t == [id |-> id, trader |-> tr, side |-> s, price |-> p,
                 original |-> q, remaining |-> q, tif |-> tif, stp |-> stp]
<1>1. /\ Quiescent /\ UNCHANGED <<arena, sides, index, lvl, cur>>
      /\ \/ NewVerdict(t) = "Accepted" /\ taker' = t /\ out' = Pushed(out, Ack(id))
         \/ /\ NewVerdict(t) # "Accepted"
            /\ out' = Pushed(out, Rejected(id, NewVerdict(t)))
            /\ UNCHANGED taker
  BY DEF ApplyNew
<1>2. BookInv'
  BY <1>1, BookStays DEF IInv
<1>3. t \in Takers /\ t.id = id /\ t.price = p
  BY BookAssumption DEF Takers
<1> HIDE DEF t
<1>4. /\ taker = NoOrder /\ lvl' = NIL /\ cur' = NIL /\ out \in Seq(Event)
      /\ index' = index /\ freeHead' = freeHead
  BY <1>1, QuiescentFacts DEF arena
<1>5. CASE NewVerdict(t) = "Accepted" /\ taker' = t /\ out' = Pushed(out, Ack(id))
  <2>1. index[id] = NIL /\ OnGrid(p) /\ freeHead # NIL
    BY <1>3, <1>5 DEF NewVerdict, IsFull
  <2>2. out' \in Seq(Event)
    BY <1>4, <1>5, PushedTyped, EventTypes
  <2>3. LoopInv'
    BY <1>3, <1>4, <1>5, <2>1, <2>2 DEF LoopInv
  <2>4. CursorAtHead' /\ FreeSlotForTaker'
    BY <1>4, <2>1 DEF CursorAtHead, FreeSlotForTaker
  <2> QED BY <1>2, <2>3, <2>4 DEF IInv
<1>6. CASE /\ NewVerdict(t) # "Accepted"
           /\ out' = Pushed(out, Rejected(id, NewVerdict(t)))
           /\ UNCHANGED taker
  <2>1. NewVerdict(t) \in {"DuplicateOrderId", "UnknownOrderId", "PriceOutOfBounds", "ZeroQty",
                           "FokUnfillable", "ArenaFull", "WrongTrader"}
    BY <1>6 DEF NewVerdict
  <2>2. out' \in Seq(Event)
    BY <1>4, <1>6, <2>1, PushedTyped, EventTypes
  <2>3. LoopInv'
    BY <1>4, <1>6, <2>2 DEF LoopInv
  <2>4. CursorAtHead' /\ FreeSlotForTaker'
    BY <1>4, <1>6 DEF CursorAtHead, FreeSlotForTaker
  <2> QED BY <1>2, <2>3, <2>4 DEF IInv
<1> QED BY <1>1, <1>5, <1>6

(* An indexed order is there to be unlinked, which leaves a free slot and  *)
(* its id unused.                                                          *)
LEMMA IndexedIsLive ==
  ASSUME BookInv, NEW id \in OrderIds, index[id] # NIL
  PROVE  index[id] \in LiveSlots /\ slots[index[id]].order.id = id
BY DEF BookInv, BookTyped, IndexInverse, LiveSlots

LEMMA UnlinkLeaves ==
  ASSUME BookInv, NEW i \in LiveSlots, UnlinkAndFree(i)
  PROVE  /\ freeHead' # NIL
         /\ index' = [index EXCEPT ![slots[i].order.id] = NIL]
         /\ index \in [OrderIds -> SlotIdxs \cup {NIL}]
         /\ slots[i].order \in Order
BY SlotsAreNats, LiveTyped DEF BookInv, BookTyped, UnlinkAndFree, Unindexed, LiveSlots

LEMMA CancelInv ==
  ASSUME IInv, NEW id \in OrderIds, NEW tr \in TraderIds, ApplyCancel(id, tr)
  PROVE  IInv'
<1>1. /\ Quiescent /\ UNCHANGED <<taker, lvl, cur>> /\ BookInv
  BY DEF ApplyCancel, IInv
<1>2. taker' = NoOrder /\ lvl' = NIL /\ cur' = NIL /\ out \in Seq(Event)
  BY <1>1, QuiescentFacts
<1>3. BookInv' /\ out' \in Seq(Event)
  <2>1. CASE /\ CancelVerdict(id, tr) = "Accepted"
             /\ UnlinkAndFree(index[id])
             /\ out' = Pushed(out, Cancelled(id, slots[index[id]].order.remaining, "User"))
    <3>1. index[id] # NIL
      BY <2>1 DEF CancelVerdict
    <3>2. PICK i \in LiveSlots : i = index[id]
      BY <1>1, <3>1, IndexedIsLive
    <3>3. BookInv' /\ slots[i].order.remaining \in Nat
      BY <1>1, <2>1, <3>2, UnlinkInv, UnlinkLeaves DEF Order
    <3>4. out' \in Seq(Event)
      BY <1>2, <2>1, <3>2, <3>3, PushedTyped, EventTypes
    <3> QED BY <3>3, <3>4
  <2>2. CASE /\ CancelVerdict(id, tr) # "Accepted"
             /\ out' = Pushed(out, Rejected(id, CancelVerdict(id, tr)))
             /\ UNCHANGED <<arena, sides, index>>
    <3>1. CancelVerdict(id, tr) \in {"DuplicateOrderId", "UnknownOrderId", "PriceOutOfBounds",
                                     "ZeroQty", "FokUnfillable", "ArenaFull", "WrongTrader"}
      BY <2>2 DEF CancelVerdict
    <3>2. out' \in Seq(Event)
      BY <1>2, <2>2, <3>1, PushedTyped, EventTypes
    <3> QED BY <1>1, <2>2, <3>2, BookStays
  <2> QED BY <2>1, <2>2 DEF ApplyCancel
<1>4. LoopInv' /\ CursorAtHead' /\ FreeSlotForTaker'
  BY <1>2, <1>3 DEF LoopInv, CursorAtHead, FreeSlotForTaker
<1> QED BY <1>3, <1>4 DEF IInv

LEMMA ModifyInv ==
  ASSUME IInv, NEW id \in OrderIds, NEW tr \in TraderIds, NEW p \in InPrices, NEW q \in InQtys,
         ApplyModify(id, tr, p, q)
  PROVE  IInv'
<1>1. /\ Quiescent /\ UNCHANGED <<lvl, cur>> /\ BookInv
  BY DEF ApplyModify, IInv
<1>2. taker = NoOrder /\ lvl' = NIL /\ cur' = NIL /\ out \in Seq(Event)
  BY <1>1, QuiescentFacts
<1>3. CASE ModifyVerdict(id, tr, p, q) = "Accepted"
  <2>1. index[id] # NIL /\ OnGrid(p)
    BY <1>3 DEF ModifyVerdict, CancelVerdict
  <2>2. PICK i \in LiveSlots : i = index[id] /\ slots[i].order.id = id
    BY <1>1, <2>1, IndexedIsLive
  <2>3. PICK o : o = slots[i].order
    OBVIOUS
  <2>4. /\ UnlinkAndFree(i)
        /\ taker' = [id |-> id, trader |-> tr, side |-> o.side, price |-> p, original |-> q,
                     remaining |-> q, tif |-> "Gtc", stp |-> o.stp]
        /\ out' = Pushed(Pushed(out, Cancelled(id, o.remaining, "User")), Ack(id))
    BY <1>3, <2>2, <2>3 DEF ApplyModify
  <2>5. BookInv' /\ freeHead' # NIL /\ index' = [index EXCEPT ![id] = NIL] /\ o \in Order
        /\ index \in [OrderIds -> SlotIdxs \cup {NIL}]
    BY <1>1, <2>2, <2>3, <2>4, UnlinkInv, UnlinkLeaves
  <2>6. taker' \in Takers /\ taker'.id = id /\ taker'.price = p
    <3>1. p \in I64 /\ q \in Nat /\ o.side \in Sides /\ o.stp \in Stps
      BY <2>5, BookAssumption DEF Order
    <3> QED BY <2>4, <3>1 DEF Takers, Tifs
  <2>7. out' \in Seq(Event)
    <3>1. o.remaining \in Nat
      BY <2>5 DEF Order
    <3>2. Cancelled(id, o.remaining, "User") \in Event /\ Ack(id) \in Event
      BY <3>1, EventTypes
    <3> QED BY <1>2, <2>4, <3>2, PushedTyped
  <2>8. index'[id] = NIL
    BY <2>5
  <2>9. LoopInv'
    BY <1>2, <2>1, <2>6, <2>7, <2>8 DEF LoopInv
  <2>10. CursorAtHead' /\ FreeSlotForTaker'
    BY <1>2, <2>5 DEF CursorAtHead, FreeSlotForTaker
  <2> QED BY <2>5, <2>9, <2>10 DEF IInv
<1>4. CASE ModifyVerdict(id, tr, p, q) # "Accepted"
  <2>1. /\ out' = Pushed(out, Rejected(id, ModifyVerdict(id, tr, p, q)))
        /\ UNCHANGED <<arena, sides, index, taker>>
    BY <1>4 DEF ApplyModify
  <2>2. ModifyVerdict(id, tr, p, q) \in {"DuplicateOrderId", "UnknownOrderId", "PriceOutOfBounds",
                                         "ZeroQty", "FokUnfillable", "ArenaFull", "WrongTrader"}
    BY <1>4 DEF ModifyVerdict, CancelVerdict
  <2>3. out' \in Seq(Event)
    BY <1>2, <2>1, <2>2, PushedTyped, EventTypes
  <2>4. BookInv'
    BY <1>1, <2>1, BookStays
  <2>5. LoopInv' /\ CursorAtHead' /\ FreeSlotForTaker'
    BY <1>2, <2>1, <2>3 DEF LoopInv, CursorAtHead, FreeSlotForTaker
  <2> QED BY <2>4, <2>5 DEF IInv
<1> QED BY <1>3, <1>4

(* The cursor stands at the oldest order of the best level.                *)
LEMMA AtHead ==
  ASSUME IInv, AtMaker
  PROVE  /\ cur \in LiveSlots /\ Opp \in Sides /\ lvl \in LevelIdxs
         /\ slots[cur].order.side = Opp /\ slots[cur].level = lvl /\ slots[cur].prev = NIL
         /\ best[Opp] = lvl
         /\ taker \in Takers /\ index[taker.id] = NIL /\ OnGrid(taker.price)
         /\ slots[cur].next \in SlotIdxs \cup {NIL}
         /\ slots[cur].order \in Order
<1>1. /\ lvl # NIL /\ cur # NIL /\ taker.remaining > 0 /\ taker # NoOrder
      /\ taker \in Takers /\ index[taker.id] = NIL /\ OnGrid(taker.price)
      /\ lvl \in LevelIdxs /\ cur \in SlotIdxs
  BY DEF IInv, LoopInv, AtMaker
<1>2. Opp \in Sides
  BY <1>1, OppositeTyped DEF Takers, Opp
<1>3. best[Opp] = lvl /\ levels[Opp][lvl].head = cur
  <2>1. ~ (taker.remaining = 0)
    BY <1>1
  <2> QED BY <1>1, <2>1 DEF IInv, CursorAtHead
<1>4. cur \in At(Opp, lvl) /\ slots[cur].prev = NIL
  <2>1. Ended(Opp, lvl)
    BY <1>1, <1>2 DEF IInv, BookInv, ListsLinked
  <2> QED BY <1>1, <1>3, <2>1 DEF Ended
<1>5. Live(cur) /\ slots[cur].order.side = Opp /\ slots[cur].level = lvl /\ cur \in LiveSlots
  BY <1>4 DEF At, LiveSlots
<1>6. BookTyped
  BY DEF IInv, BookInv
<1>7. slots[cur].next \in SlotIdxs \cup {NIL} /\ slots[cur].order \in Order
  BY <1>1, <1>5, <1>6, SlotTyped, LiveTyped
<1> QED BY <1>1, <1>2, <1>3, <1>4, <1>5, <1>7

(* Once the oldest order of the best level is gone the next one of that    *)
(* level, if there is one, is the oldest, and the level still the best.    *)
LEMMA NextIsHead ==
  ASSUME BookInv, NEW i \in LiveSlots, UnlinkAndFree(i), NEW s, NEW l, NEW n,
         s = slots[i].order.side, l = slots[i].level, n = slots[i].next,
         slots[i].prev = NIL, best[s] = l, n # NIL
  PROVE  /\ best'[s] = l
         /\ levels'[s][l].head = n
         /\ slots'[n].order # NoOrder
<1>1. BookTyped /\ ListsLinked /\ CountsRight
  BY DEF BookInv
<1>2. /\ i \in At(s, l) /\ s \in Sides /\ l \in LevelIdxs /\ n \in At(s, l)
      /\ slots[n].prev = i /\ i # NIL
  BY <1>1, Neighbours DEF Mirrored
<1>3. n # i
  BY <1>2
<1>4. levels[s][l].count # 1
  <2>1. levels[s][l].count = Cardinality(At(s, l))
    BY <1>1, <1>2 DEF CountsRight
  <2>2. IsFiniteSet(At(s, l))
    BY AtFinite
  <2>3. ASSUME Cardinality(At(s, l)) = 1 PROVE FALSE
    <3>1. \E x : At(s, l) = {x}
      BY <2>2, <2>3, FS_Singleton
    <3> QED BY <1>2, <1>3, <3>1
  <2> QED BY <2>1, <2>3
<1>5. best'[s] = l
  <2>1. best' = [best EXCEPT ![s] = BestAfterUnlink(s, l)]
    BY DEF UnlinkAndFree
  <2>2. best'[s] = BestAfterUnlink(s, l)
    BY <1>1, <1>2, <2>1 DEF BookTyped
  <2> QED BY <1>4, <2>2 DEF BestAfterUnlink
<1>6. levels'[s][l].head = n
  <2>1. levels'[s][l] = Unlinked(levels[s][l], slots[i])
    BY <1>1, <1>2, UnlinkFields
  <2> DEFINE u == Unlinked(levels[s][l], slots[i])
  <2>2. u.head = slots[i].next
    BY UnlinkedFields, Zenon
  <2> HIDE DEF u
  <2>3. levels'[s][l] = u
    BY <2>1 DEF u
  <2> QED BY <2>2, <2>3, Zenon
<1>7. slots'[n].order # NoOrder
  <2>1. n \in At(s, l)'
    BY <1>1, <1>2, <1>3, UnlinkOthers
  <2> QED BY <2>1 DEF At, Live
<1> QED BY <1>5, <1>6, <1>7

(* A maker that is taken out: the loop goes on with the next one, at the   *)
(* same level.                                                             *)
LEMMA MakerGone ==
  ASSUME IInv, AtMaker, UnlinkAndFree(cur), cur' = NextMaker, UNCHANGED lvl,
         taker' \in Takers, taker'.id = taker.id, taker'.price = taker.price,
         taker'.side = taker.side, out' \in Seq(Event)
  PROVE  IInv'
<1>1. PICK i : i = cur /\ i \in LiveSlots /\ UnlinkAndFree(i)
  BY AtHead
<1>2. PICK s \in Sides, l \in LevelIdxs, n \in SlotIdxs \cup {NIL} :
        /\ s = Opp /\ l = lvl /\ n = slots[i].next
        /\ slots[i].order.side = s /\ slots[i].level = l /\ slots[i].prev = NIL /\ best[s] = l
  BY <1>1, AtHead
<1>3. /\ BookInv /\ taker \in Takers /\ index[taker.id] = NIL /\ OnGrid(taker.price)
      /\ index \in [OrderIds -> SlotIdxs \cup {NIL}]
  BY AtHead DEF IInv, BookInv, BookTyped
<1>4. BookInv' /\ freeHead' # NIL /\ index' = [index EXCEPT ![slots[i].order.id] = NIL]
  BY <1>1, <1>3, UnlinkInv, UnlinkLeaves
<1>5. index'[taker'.id] = NIL
  BY <1>3, <1>4 DEF Takers
<1>6. lvl' = l /\ lvl # NIL /\ cur' = n /\ Opp' = s
  BY <1>1, <1>2 DEF AtMaker, NextMaker, Opp
<1>7. taker' # NoOrder
  BY BookAssumption
<1>8. LoopInv'
  BY <1>2, <1>3, <1>5, <1>6, <1>7 DEF LoopInv
<1>9. CursorAtHead'
  <2>1. n # NIL => /\ best'[s] = l
                   /\ levels'[s][l].head = n
                   /\ slots'[n].order # NoOrder
    BY <1>1, <1>2, <1>3, NextIsHead
  <2> QED BY <1>6, <2>1 DEF CursorAtHead
<1> QED BY <1>4, <1>8, <1>9 DEF IInv, FreeSlotForTaker

LEMMA FillInv == ASSUME IInv, FillMaker PROVE IInv'
<1>1. PICK q : q = Smaller(taker.remaining, Maker.remaining)
  OBVIOUS
<1>2. /\ AtMaker
      /\ out' = Pushed(out, Fill(taker, Maker.id, Maker.price, q))
      /\ taker' = [taker EXCEPT !.remaining = @ - q]
      /\ IF q = Maker.remaining
         THEN UnlinkAndFree(cur)
         ELSE /\ slots' = [slots EXCEPT ![cur].order.remaining = @ - q]
              /\ levels' = [levels EXCEPT ![Opp][lvl].total = @ - q]
              /\ UNCHANGED <<freeHead, len, occupied, best, index>>
      /\ cur' = NextMaker
      /\ UNCHANGED lvl
  BY <1>1 DEF FillMaker
<1>3. PICK m : m = Maker
  OBVIOUS
<1>4. m \in Order /\ taker \in Takers /\ m.remaining \in Nat /\ m.id \in OrderIds /\ m.price \in I64
      /\ taker.remaining \in Nat
  BY <1>2, <1>3, AtHead DEF Maker, Order, Takers
<1>5. q \in Nat /\ taker.remaining - q \in Nat /\ q <= m.remaining
      /\ (q # m.remaining => q < m.remaining /\ taker.remaining - q = 0)
  BY <1>1, <1>3, <1>4 DEF Smaller
<1>6. /\ taker' \in Takers /\ taker'.id = taker.id /\ taker'.price = taker.price
      /\ taker'.side = taker.side /\ taker'.remaining = taker.remaining - q
  BY <1>2, <1>4, <1>5 DEF Takers
<1>7. out' \in Seq(Event)
  <2>1. Fill(taker, m.id, m.price, q) \in Event
    BY <1>4, <1>5, EventTypes
  <2>2. out \in Seq(Event)
    BY DEF IInv, LoopInv
  <2> QED BY <1>2, <1>3, <2>1, <2>2, PushedTyped
<1>8. CASE q = m.remaining
  <2>1. UnlinkAndFree(cur)
    BY <1>2, <1>3, <1>8
  <2> QED BY <1>2, <1>6, <1>7, <2>1, MakerGone
<1>9. CASE q # m.remaining
  <2>1. PICK i, s, l : i = cur /\ s = Opp /\ l = lvl
    OBVIOUS
  <2>2. FillsPart(i, s, l, q)
    BY <1>2, <1>3, <1>5, <1>9, <2>1, AtHead DEF FillsPart, Maker
  <2>3. BookInv'
    BY <2>2, PartInv DEF IInv
  <2>4. freeHead' = freeHead /\ index' = index /\ freeHead # NIL /\ taker # NoOrder
    <3>1. taker # NoOrder
      BY <1>4, BookAssumption
    <3> QED BY <2>2, <3>1 DEF FillsPart, IInv, FreeSlotForTaker
  <2>5. /\ cur' \in SlotIdxs \cup {NIL} /\ lvl' = lvl /\ lvl \in LevelIdxs /\ lvl # NIL
        /\ index[taker.id] = NIL /\ OnGrid(taker.price)
    BY <1>2, AtHead DEF NextMaker, AtMaker
  <2>6. taker' # NoOrder /\ taker'.remaining = 0
    BY <1>5, <1>6, <1>9, BookAssumption
  <2>7. LoopInv' /\ CursorAtHead' /\ FreeSlotForTaker'
    BY <1>6, <1>7, <2>4, <2>5, <2>6 DEF LoopInv, CursorAtHead, FreeSlotForTaker
  <2> QED BY <2>3, <2>7 DEF IInv
<1> QED BY <1>8, <1>9

LEMMA StpRestingInv == ASSUME IInv, StpCancelResting PROVE IInv'
<1>1. /\ AtMaker /\ UnlinkAndFree(cur) /\ cur' = NextMaker /\ UNCHANGED <<taker, lvl>>
      /\ out' = Pushed(out, StpCancelled(Maker))
  BY DEF StpCancelResting
<1>2. taker \in Takers /\ Maker \in Order
  BY <1>1, AtHead DEF Maker
<1>3. out' \in Seq(Event)
  <2>1. StpCancelled(Maker) \in Event
    BY <1>2, EventTypes DEF StpCancelled, Order
  <2> QED BY <1>1, <2>1, PushedTyped DEF IInv, LoopInv
<1> QED BY <1>1, <1>2, <1>3, MakerGone

(* The order in the loop is given up, the book being in order.             *)
LEMMA LoopEnds ==
  ASSUME BookInv', taker' = NoOrder, lvl' = NIL, cur' = NIL, out' \in Seq(Event)
  PROVE  IInv'
BY DEF IInv, LoopInv, CursorAtHead, FreeSlotForTaker

LEMMA StpAggressorInv == ASSUME IInv, StpCancelAggressor PROVE IInv'
<1>1. /\ AtMaker /\ out' = Pushed(out, StpCancelled(taker)) /\ taker' = NoOrder /\ lvl' = NIL
      /\ cur' = NIL /\ UNCHANGED <<arena, sides, index>>
  BY DEF StpCancelAggressor
<1>2. taker \in Takers /\ out \in Seq(Event) /\ BookInv
  BY <1>1, AtHead DEF IInv, LoopInv
<1>3. StpCancelled(taker) \in Event
  BY <1>2, EventTypes DEF StpCancelled, Takers
<1>4. out' \in Seq(Event)
  BY <1>1, <1>2, <1>3, PushedTyped
<1>5. BookInv'
  BY <1>1, <1>2, BookStays
<1> QED BY <1>1, <1>4, <1>5, LoopEnds

LEMMA StpBothInv == ASSUME IInv, StpCancelBoth PROVE IInv'
<1>1. /\ AtMaker /\ UnlinkAndFree(cur) /\ taker' = NoOrder /\ lvl' = NIL /\ cur' = NIL
      /\ out' = Pushed(Pushed(out, StpCancelled(Maker)), StpCancelled(taker))
  BY DEF StpCancelBoth
<1>2. taker \in Takers /\ Maker \in Order /\ out \in Seq(Event) /\ BookInv
  BY <1>1, AtHead DEF IInv, LoopInv, Maker
<1>3. StpCancelled(taker) \in Event /\ StpCancelled(Maker) \in Event
  BY <1>2, EventTypes DEF StpCancelled, Takers, Order
<1>4. out' \in Seq(Event)
  BY <1>1, <1>2, <1>3, PushedTyped
<1>5. BookInv'
  <2>1. PICK i : i = cur /\ i \in LiveSlots /\ UnlinkAndFree(i)
    BY <1>1, AtHead
  <2> QED BY <1>2, <2>1, UnlinkInv
<1> QED BY <1>1, <1>4, <1>5, LoopEnds

LEMMA EnterInv == ASSUME IInv, EnterLevel PROVE IInv'
<1>1. /\ taker # NoOrder /\ best[Opp] # NIL /\ lvl' = best[Opp]
      /\ cur' = levels[Opp][best[Opp]].head
      /\ UNCHANGED <<arena, sides, index, taker, out>>
      /\ slots' = slots /\ levels' = levels /\ best' = best /\ freeHead' = freeHead
  BY DEF EnterLevel, Marketable, arena, sides
<1>2. BookInv /\ LoopInv /\ taker \in Takers /\ FreeSlotForTaker
  BY <1>1 DEF IInv, LoopInv
<1>3. PICK s, l : s \in Sides /\ s = Opp /\ l = best[Opp]
  BY <1>2, OppositeTyped DEF Takers, Opp
<1>4. l \in LevelIdxs /\ levels[s][l].head \in SlotIdxs \cup {NIL}
  BY <1>1, <1>2, <1>3, LevelTyped DEF BookInv, BookTyped
<1>5. Ended(s, l)
  BY <1>2, <1>3, <1>4 DEF BookInv, ListsLinked
<1>6. Opp' = s
  BY <1>1, <1>3 DEF Opp
<1>7. LoopInv'
  BY <1>1, <1>2, <1>3, <1>4 DEF LoopInv
<1>8. CursorAtHead'
  BY <1>1, <1>3, <1>5, <1>6 DEF CursorAtHead, Ended, At, Live
<1>9. BookInv'
  BY <1>1, <1>2, BookStays
<1> QED BY <1>1, <1>2, <1>7, <1>8, <1>9 DEF IInv, FreeSlotForTaker

LEMMA LeaveInv == ASSUME IInv, LeaveLevel PROVE IInv'
<1>1. /\ lvl' = NIL /\ cur' = NIL /\ UNCHANGED <<arena, sides, index, taker, out>>
      /\ freeHead' = freeHead
  BY DEF LeaveLevel, arena
<1>2. BookInv'
  BY <1>1, BookStays DEF IInv
<1> QED BY <1>1, <1>2 DEF IInv, LoopInv, CursorAtHead, FreeSlotForTaker

(* What cross() leaves is finished, rests or is killed.                    *)
LEMMA DoneFacts ==
  ASSUME IInv, CrossDone
  PROVE  /\ taker \in Takers /\ lvl = NIL /\ cur = NIL /\ out \in Seq(Event) /\ BookInv
         /\ ReadyToRest
BY DEF IInv, LoopInv, CrossDone, FreeSlotForTaker, ReadyToRest

LEMMA FinishInv == ASSUME IInv, FinishFilled PROVE IInv'
<1>1. CrossDone /\ taker' = NoOrder /\ UNCHANGED <<arena, sides, index, lvl, cur, out>>
  BY DEF FinishFilled
<1>2. lvl' = NIL /\ cur' = NIL /\ out' \in Seq(Event) /\ BookInv
  BY <1>1, DoneFacts
<1>3. BookInv'
  BY <1>1, <1>2, BookStays
<1> QED BY <1>1, <1>2, <1>3, LoopEnds

LEMMA KillInv == ASSUME IInv, KillRemainder PROVE IInv'
<1>1. /\ CrossDone /\ taker' = NoOrder /\ UNCHANGED <<arena, sides, index, lvl, cur>>
      /\ out' = Pushed(out, Cancelled(taker.id, taker.remaining, "Ioc"))
  BY DEF KillRemainder
<1>2. taker \in Takers /\ lvl' = NIL /\ cur' = NIL /\ out \in Seq(Event) /\ BookInv
  BY <1>1, DoneFacts
<1>3. Cancelled(taker.id, taker.remaining, "Ioc") \in Event
  BY <1>2, EventTypes DEF Takers
<1>4. out' \in Seq(Event)
  BY <1>1, <1>2, <1>3, PushedTyped
<1>5. BookInv'
  BY <1>1, <1>2, BookStays
<1> QED BY <1>1, <1>2, <1>4, <1>5, LoopEnds

LEMMA RestsInv == ASSUME IInv, RestRemainder PROVE IInv'
<1>1. CrossDone /\ taker' = NoOrder /\ UNCHANGED <<lvl, cur>>
  BY DEF RestRemainder
<1>2. lvl' = NIL /\ cur' = NIL /\ out \in Seq(Event) /\ BookInv /\ ReadyToRest
  BY <1>1, DoneFacts
<1>3. out' = out
  BY <1>2 DEF RestRemainder, ReadyToRest
<1>4. BookInv'
  BY <1>2, RestInv
<1> QED BY <1>1, <1>2, <1>3, <1>4, LoopEnds

LEMMA DrainInv == ASSUME IInv, Drain PROVE IInv'
<1>1. /\ taker = NoOrder /\ out' = <<>> /\ UNCHANGED <<arena, sides, index, taker, lvl, cur>>
  BY DEF Drain
<1>2. taker' = NoOrder /\ lvl' = NIL /\ cur' = NIL /\ out' \in Seq(Event)
  BY <1>1 DEF IInv, LoopInv
<1>3. BookInv'
  BY <1>1, BookStays DEF IInv
<1> QED BY <1>2, <1>3, LoopEnds

LEMMA StutterInv == ASSUME IInv, UNCHANGED vars PROVE IInv'
<1>1. /\ UNCHANGED <<arena, sides, index>> /\ taker' = taker /\ lvl' = lvl /\ cur' = cur /\ out' = out
      /\ slots' = slots /\ levels' = levels /\ best' = best /\ freeHead' = freeHead /\ index' = index
  BY DEF vars, arena, sides
<1>2. BookInv'
  BY <1>1, BookStays DEF IInv
<1> QED BY <1>1, <1>2 DEF IInv, LoopInv, CursorAtHead, FreeSlotForTaker, Opp

LEMMA NextHolds == ASSUME IInv, [Next]_vars PROVE IInv'
<1>1. ASSUME NEW id \in OrderIds, NEW tr \in TraderIds, NEW s \in Sides, NEW p \in InPrices,
             NEW q \in InQtys, NEW tif \in InTifs, NEW stp \in InStps,
             ApplyNew(id, tr, s, p, q, tif, stp)
      PROVE  IInv'
  BY <1>1, NewInv
<1>2. ASSUME NEW id \in OrderIds, NEW tr \in TraderIds, ApplyCancel(id, tr) PROVE IInv'
  BY <1>2, CancelInv
<1>3. ASSUME NEW id \in OrderIds, NEW tr \in TraderIds, NEW p \in InPrices, NEW q \in InQtys,
             ApplyModify(id, tr, p, q)
      PROVE  IInv'
  BY <1>3, ModifyInv
<1>4. ASSUME Proceed PROVE IInv'
  BY <1>4, EnterInv, LeaveInv, FillInv, StpRestingInv, StpAggressorInv, StpBothInv, FinishInv,
     RestsInv, KillInv DEF Proceed
<1>5. CASE Drain
  BY <1>5, DrainInv
<1>6. CASE UNCHANGED vars
  BY <1>6, StutterInv
<1> QED BY <1>1, <1>2, <1>3, <1>4, <1>5, <1>6 DEF Next

LEMMA Inductive == Spec => []IInv
<1>1. Init => IInv
  BY InitHolds
<1>2. IInv /\ [Next]_vars => IInv'
  BY NextHolds
<1> QED BY <1>1, <1>2, PTL DEF Spec

-----------------------------------------------------------------------------
(* The theorems.                                                           *)

(* Every field of the engine stays of its type: no count, total or length  *)
(* goes below zero, no index leaves the arena or the grid.                 *)
THEOREM EngineTyped == Spec => []TypeOK
<1>1. IInv => TypeOK
  BY DEF IInv, BookInv, BookTyped, LoopInv, TypeOK
<1> QED BY <1>1, Inductive, PTL

(* The bitmap shows the levels that hold orders, and the cached best is    *)
(* the best of them: link_tail and unlink_and_free (book.rs, book_side.rs) *)
(* keep both right without a scan of the book.                             *)
THEOREM BestStaysTrue == Spec => []BestIsTrue
<1>1. IInv => BestIsTrue
  BY DEF IInv, BookInv
<1> QED BY <1>1, Inductive, PTL

(* rest() never meets an empty free list: apply_new has looked, and        *)
(* apply_modify has just freed the slot it needs.                          *)
THEOREM RestFindsASlot == Spec => []FreeSlotForTaker
<1>1. IInv => FreeSlotForTaker
  BY DEF IInv
<1> QED BY <1>1, Inductive, PTL

(* The slot that fill_at_level is about to read is live and the oldest     *)
(* order of the best level, although the slot it came from has been freed  *)
(* and pushed on the free list, through the same links, since `next` was   *)
(* read.                                                                   *)
THEOREM CursorStaysAtHead == Spec => []CursorAtHead
<1>1. IInv => CursorAtHead
  BY DEF IInv
<1> QED BY <1>1, Inductive, PTL

(* The lists of resting orders: neighbours point at each other and are of  *)
(* the same level, the ends of a level are where its head and tail say,    *)
(* and no list runs in a circle; a level's count is the number of its      *)
(* orders and its total the sum of what they have left.                    *)
THEOREM LevelsHoldTogether == Spec => [](ListsLinked /\ ListsEnd /\ CountsRight /\ TotalsRight)
<1>1. IInv => ListsLinked /\ ListsEnd /\ CountsRight /\ TotalsRight
  BY DEF IInv, BookInv
<1> QED BY <1>1, Inductive, PTL

(* The index leads from every live order's id to its slot, and from no     *)
(* other id anywhere: a cancel finds the order it names.                   *)
THEOREM IndexFindsOrders == Spec => []IndexInverse
<1>1. IInv => IndexInverse
  BY DEF IInv, BookInv
<1> QED BY <1>1, Inductive, PTL

(* The free list and the live orders share the arena out between them, so  *)
(* that is_full (arena.rs) says what it means.                             *)
THEOREM FullMeansFull ==
  Spec => [](FreeStack /\ (IsFull <=> Cardinality(LiveSlots) = MaxLiveOrders))
<1>1. ASSUME IInv PROVE IsFull <=> Cardinality(LiveSlots) = MaxLiveOrders
  <2>1. len = Cardinality(LiveSlots) /\ len \in 0 .. MaxLiveOrders
    BY <1>1 DEF IInv, BookInv, CountsRight, BookTyped
  <2>2. PICK m \in Int : m = MaxLiveOrders - len
    BY <2>1, SlotsAreNats
  <2>3. PICK f \in [1 .. m -> SlotIdxs] : Stacked(f, m)
    BY <1>1, <2>2 DEF IInv, BookInv, FreeStack
  <2>4. m \in Nat /\ (m = 0 <=> len = MaxLiveOrders)
    BY <2>1, <2>2, SlotsAreNats
  <2>5. m # 0 => f[m] \in SlotIdxs
    BY <2>3, <2>4
  <2>6. freeHead = IF m = 0 THEN NIL ELSE f[m]
    BY <2>3 DEF Stacked
  <2> QED BY <2>1, <2>4, <2>5, <2>6, SlotsAreNats DEF IsFull
<1>2. IInv => FreeStack /\ (IsFull <=> Cardinality(LiveSlots) = MaxLiveOrders)
  BY <1>1 DEF IInv, BookInv
<1> QED BY <1>2, Inductive, PTL

(* Every bid is below every ask.                                           *)
EngineUncrossed ==
  \A i, j \in LiveSlots :
    slots[i].order.side = "Bid" /\ slots[j].order.side = "Ask"
      => slots[i].order.price < slots[j].order.price

LEMMA LevelOccupied ==
  ASSUME BookInv, NEW i \in LiveSlots
  PROVE  slots[i].level \in Occupied(slots[i].order.side)
<1>1. BookTyped /\ ListsLinked /\ CountsRight
  BY DEF BookInv
<1>2. PICK s \in Sides, l \in LevelIdxs : s = slots[i].order.side /\ l = slots[i].level /\ i \in At(s, l)
  BY <1>1, Neighbours
<1>3. levels[s][l].count = Cardinality(At(s, l)) /\ Cardinality(At(s, l)) \in Nat
  BY <1>1, AtFinite DEF CountsRight
<1>4. Cardinality(At(s, l)) # 0
  BY <1>2, AtFinite, FS_EmptySet
<1> QED BY <1>2, <1>3, <1>4, SMTT(60) DEF Occupied

(* An order rests at the level of its price with something left of it, and *)
(* every bid is below every ask, also between two iterations of the match  *)
(* loop (apply_new and rest(), book.rs).                                   *)
THEOREM EngineNeverCrosses == Spec => [](OrdersInPlace /\ EngineUncrossed)
<1>1. ASSUME IInv PROVE EngineUncrossed
  <2>1. BookInv /\ BookTyped /\ OrdersInPlace /\ SidesApart
    BY <1>1 DEF IInv, BookInv
  <2>2. ASSUME NEW i \in LiveSlots, NEW j \in LiveSlots,
               slots[i].order.side = "Bid", slots[j].order.side = "Ask"
        PROVE  slots[i].order.price < slots[j].order.price
    <3>1. slots[i].level \in Occupied("Bid") /\ slots[j].level \in Occupied("Ask")
      BY <2>1, <2>2, LevelOccupied
    <3>2. slots[i].level < slots[j].level /\ slots[i].level \in LevelIdxs /\ slots[j].level \in LevelIdxs
      BY <2>1, <3>1 DEF SidesApart, Occupied
    <3>3. /\ slots[i].order.price \in I64 /\ slots[j].order.price \in I64
          /\ OnGrid(slots[i].order.price) /\ OnGrid(slots[j].order.price)
          /\ slots[i].level = PriceToIdx(slots[i].order.price)
          /\ slots[j].level = PriceToIdx(slots[j].order.price)
      BY <2>1, LiveTyped DEF OrdersInPlace, LiveSlots
    <3>4. /\ IdxToPrice(slots[i].level) = slots[i].order.price
          /\ IdxToPrice(slots[j].level) = slots[j].order.price
      BY <3>3, LevelsArePrices
    <3> QED BY <3>2, <3>4, PricesAscend
  <2> QED BY <2>2 DEF EngineUncrossed
<1>2. IInv => OrdersInPlace /\ EngineUncrossed
  BY <1>1 DEF IInv, BookInv
<1> QED BY <1>2, Inductive, PTL

-----------------------------------------------------------------------------
(* The match loop winds down: entering a level costs nothing by itself,    *)
(* but no level that is entered is empty, and a maker that is met is       *)
(* unlinked or ends the loop.                                              *)

Phase == IF lvl = NIL THEN IF taker.remaining = 0 THEN 1 ELSE 4
         ELSE IF taker.remaining = 0 THEN 2
         ELSE IF cur # NIL THEN 3 ELSE 5

StepsLeft == IF taker = NoOrder THEN 0 ELSE 5 * len + Phase

(* The oldest order of a level has no order before it.                     *)
LEMMA HeadExists ==
  ASSUME BookInv, NEW s \in Sides, NEW l \in Occupied(s)
  PROVE  levels[s][l].head # NIL
<1>1. BookTyped /\ ListsLinked /\ ListsEnd /\ CountsRight /\ l \in LevelIdxs
  BY DEF BookInv, Occupied
<1>2. At(s, l) # {}
  <2>1. levels[s][l].count = Cardinality(At(s, l)) /\ levels[s][l].count > 0
    BY <1>1 DEF CountsRight, Occupied
  <2> QED BY <2>1, FS_EmptySet
<1>3. PICK age \in [SlotIdxs -> Nat] :
        \A i \in LiveSlots : slots[i].next # NIL => age[i] < age[slots[i].next]
  BY <1>1 DEF ListsEnd
<1> DEFINE ages == {age[i] : i \in At(s, l)}
<1>4. ages \in SUBSET Nat /\ ages # {}
  BY <1>2 DEF At
<1>5. PICK a \in ages : \A b \in ages : a <= b
  <2> HIDE DEF ages
  <2> QED BY <1>4, SmallestExists
<1>6. PICK i \in At(s, l) : age[i] = a
  BY <1>5
<1>7. i \in LiveSlots /\ i \in SlotIdxs /\ slots[i].order.side = s /\ slots[i].level = l
  BY <1>6 DEF At, LiveSlots
<1>8. Mirrored(i)
  BY <1>1, <1>7, Neighbours
<1>9. CASE slots[i].prev = NIL
  BY <1>7, <1>8, <1>9, SlotsAreNats DEF Mirrored
<1>10. CASE slots[i].prev # NIL
  <2>1. PICK p \in At(s, l) : slots[p].next = i
    BY <1>7, <1>8, <1>10 DEF Mirrored
  <2>2. p \in LiveSlots /\ p \in SlotIdxs
    BY <2>1 DEF At, LiveSlots
  <2>3. age[p] < age[i]
    BY <1>3, <1>7, <2>1, <2>2, SlotsAreNats
  <2>4. age[p] \in ages /\ age[p] \in Nat /\ age[i] \in Nat
    BY <1>7, <2>1, <2>2
  <2>5. age[i] <= age[p]
    BY <1>5, <1>6, <2>4
  <2> QED BY <2>3, <2>4, <2>5
<1> QED BY <1>9, <1>10

(* Every step of apply() after the first brings it closer to its end, for  *)
(* every book and every order: `cross` and `fill_at_level` do not loop.    *)
THEOREM MatchingWindsDown == Spec => [][Proceed => StepsLeft \in Nat /\ StepsLeft' < StepsLeft]_vars
<1>1. ASSUME IInv PROVE len \in Nat /\ len \in Int /\ (taker # NoOrder => taker.remaining \in Nat)
  BY <1>1, SlotsAreNats DEF IInv, BookInv, BookTyped, LoopInv, Takers
<1>2. ASSUME IInv PROVE Phase \in 1 .. 5 /\ StepsLeft \in Nat
                        /\ (taker # NoOrder => StepsLeft = 5 * len + Phase /\ StepsLeft > 0)
  <2>1. Phase \in 1 .. 5
    BY DEF Phase
  <2> QED BY <1>1, <1>2, <2>1 DEF StepsLeft
<1>3. ASSUME IInv, taker # NoOrder, taker' = NoOrder PROVE StepsLeft' < StepsLeft
  <2>1. StepsLeft' = 0 /\ StepsLeft > 0
    BY <1>2, <1>3 DEF StepsLeft
  <2> QED BY <2>1
<1>4. ASSUME IInv, IInv', taker # NoOrder, taker' # NoOrder,
             \/ len' = len /\ Phase' < Phase
             \/ len' = len - 1 /\ Phase = 3
      PROVE  StepsLeft' < StepsLeft
  <2>1. len \in Nat /\ Phase \in 1 .. 5 /\ StepsLeft = 5 * len + Phase
    BY <1>1, <1>2, <1>4
  <2>2. len' \in Nat /\ Phase' \in 1 .. 5
    <3>1. len' \in Nat
      BY <1>4, SlotsAreNats DEF IInv, BookInv, BookTyped
    <3>2. Phase' \in 1 .. 5
      BY DEF Phase
    <3> QED BY <3>1, <3>2
  <2>3. StepsLeft' = 5 * len' + Phase'
    BY <1>4 DEF StepsLeft
  <2>4. PICK n \in Nat, m \in Nat, a \in 1 .. 5, b \in 1 .. 5 :
          n = len /\ m = len' /\ a = Phase /\ b = Phase'
    BY <2>1, <2>2
  <2>5. (m = n /\ b < a) \/ (m = n - 1 /\ a = 3)
    BY <1>4, <2>4
  <2>6. 5 * m + b < 5 * n + a
    BY <2>5
  <2> QED BY <2>1, <2>3, <2>4, <2>6
<1>5. ASSUME IInv, AtMaker PROVE Phase = 3 /\ taker # NoOrder
  <2>1. taker \in Takers
    BY <1>5, AtHead
  <2> QED BY <1>5, <2>1, BookAssumption DEF AtMaker, Phase, Takers
<1>6. ASSUME IInv, IInv', EnterLevel PROVE StepsLeft' < StepsLeft
  <2>1. /\ taker # NoOrder /\ taker.remaining > 0 /\ lvl = NIL /\ taker' = taker /\ len' = len
        /\ lvl' = best[Opp] /\ best[Opp] # NIL /\ cur' = levels[Opp][best[Opp]].head
    BY <1>6 DEF EnterLevel, Marketable, arena
  <2>2. Opp \in Sides
    BY <1>6, <2>1, OppositeTyped DEF IInv, LoopInv, Takers, Opp
  <2>3. best[Opp] \in Occupied(Opp)
    BY <1>6, <2>1, <2>2 DEF IInv, BookInv, BestIsTrue, Occupied
  <2>4. cur' # NIL
    BY <1>6, <2>1, <2>2, <2>3, HeadExists DEF IInv
  <2>5. Phase = 4 /\ Phase' = 3
    <3>1. taker.remaining # 0
      BY <1>1, <1>6, <2>1
    <3> QED BY <2>1, <2>4, <3>1 DEF Phase
  <2> QED BY <1>4, <1>6, <2>1, <2>5
<1>7. ASSUME IInv, IInv', LeaveLevel PROVE StepsLeft' < StepsLeft
  <2>1. /\ lvl # NIL /\ (cur = NIL \/ taker.remaining = 0) /\ lvl' = NIL
        /\ taker' = taker /\ len' = len /\ taker # NoOrder
    BY <1>7 DEF LeaveLevel, arena, IInv, LoopInv
  <2>2. Phase' < Phase
    BY <2>1 DEF Phase
  <2> QED BY <1>4, <1>7, <2>1, <2>2
<1>8. ASSUME IInv, IInv', FillMaker PROVE StepsLeft' < StepsLeft
  <2>1. AtMaker /\ taker \in Takers /\ Maker \in Order /\ lvl' = lvl /\ lvl # NIL
    BY <1>8, AtHead DEF FillMaker, Maker, AtMaker
  <2>2. taker.remaining \in Nat /\ Maker.remaining \in Nat
    BY <2>1 DEF Takers, Order
  <2>3. PICK q : q = Smaller(taker.remaining, Maker.remaining)
    OBVIOUS
  <2>4. taker' = [taker EXCEPT !.remaining = @ - q]
    BY <1>8, <2>3 DEF FillMaker
  <2>5. taker' # NoOrder
    <3>1. taker.remaining - q \in Nat
      BY <2>2, <2>3 DEF Smaller
    <3>2. taker' \in Takers
      BY <2>1, <2>4, <3>1 DEF Takers
    <3> QED BY <3>2, BookAssumption
  <2>6. Phase = 3 /\ taker # NoOrder
    BY <1>5, <1>8, <2>1
  <2>7. CASE q = Maker.remaining
    <3>1. len' = len - 1
      BY <1>8, <2>3, <2>7 DEF FillMaker, UnlinkAndFree
    <3> QED BY <1>4, <1>8, <2>5, <2>6, <3>1
  <2>8. CASE q # Maker.remaining
    <3>1. len' = len
      BY <1>8, <2>3, <2>8 DEF FillMaker
    <3>2. taker'.remaining = 0
      <4>1. q = taker.remaining
        BY <2>3, <2>8 DEF Smaller
      <4>2. taker'.remaining = taker.remaining - q
        BY <2>1, <2>4 DEF Takers
      <4> QED BY <2>2, <4>1, <4>2
    <3>3. Phase' = 2
      BY <2>1, <3>2 DEF Phase
    <3> QED BY <1>4, <1>8, <2>5, <2>6, <3>1, <3>3
  <2> QED BY <2>7, <2>8
<1>9. ASSUME IInv, IInv', StpCancelResting PROVE StepsLeft' < StepsLeft
  <2>1. AtMaker /\ len' = len - 1 /\ taker' = taker
    BY <1>9 DEF StpCancelResting, UnlinkAndFree
  <2> QED BY <1>4, <1>5, <1>9, <2>1
<1>10. ASSUME IInv, StpCancelAggressor \/ StpCancelBoth PROVE StepsLeft' < StepsLeft
  <2>1. AtMaker /\ taker' = NoOrder
    BY <1>10 DEF StpCancelAggressor, StpCancelBoth
  <2> QED BY <1>3, <1>5, <1>10, <2>1
<1>11. ASSUME IInv, FinishFilled \/ RestRemainder \/ KillRemainder PROVE StepsLeft' < StepsLeft
  <2>1. taker # NoOrder /\ taker' = NoOrder
    BY <1>11 DEF FinishFilled, RestRemainder, KillRemainder, CrossDone
  <2> QED BY <1>3, <1>11, <2>1
<1>12. ASSUME IInv, IInv', [Next]_vars
       PROVE  [Proceed => StepsLeft \in Nat /\ StepsLeft' < StepsLeft]_vars
  BY <1>2, <1>6, <1>7, <1>8, <1>9, <1>10, <1>11, <1>12 DEF Proceed
<1> QED BY <1>12, Inductive, PTL DEF Spec

-----------------------------------------------------------------------------
(* Chains.                                                                 *)

(* The level of the order in slot i.                                       *)
Lv(i) == slots[i].level

(* q holds the slots of side s, each once, no worse level before a better  *)
(* one; whoever has a link is followed by whom it leads to, and whoever    *)
(* has none by another level.                                              *)
Chain(s, q) ==
  /\ q \in Seq(SlotIdxs)
  /\ \A k \in 1 .. Len(q) : q[k] \in LiveSlots /\ slots[q[k]].order.side = s
  /\ \A j, k \in 1 .. Len(q) : q[j] = q[k] => j = k
  /\ \A i \in LiveSlots : slots[i].order.side = s => \E k \in 1 .. Len(q) : q[k] = i
  /\ \A j, k \in 1 .. Len(q) : j < k => ~ Better(s, Lv(q[k]), Lv(q[j]))
  /\ \A k \in 1 .. Len(q) : slots[q[k]].next # NIL => /\ k + 1 \in 1 .. Len(q)
                                                      /\ q[k + 1] = slots[q[k]].next
  /\ \A k \in 1 .. Len(q) : /\ k + 1 \in 1 .. Len(q)
                            /\ slots[q[k]].next = NIL
                            => Lv(q[k]) # Lv(q[k + 1])

LEMMA ChainTyped ==
  ASSUME BookInv, NEW s \in Sides, NEW q, Chain(s, q)
  PROVE  /\ q \in Seq(SlotIdxs) /\ Len(q) \in Nat
         /\ \A k \in 1 .. Len(q) : /\ q[k] \in SlotIdxs /\ q[k] \in LiveSlots /\ q[k] # NIL
                                   /\ slots[q[k]].order.side = s
                                   /\ Lv(q[k]) \in LevelIdxs
                                   /\ q[k] \in At(s, Lv(q[k]))
                                   /\ Mirrored(q[k])
<1>1. BookTyped /\ ListsLinked
  BY DEF BookInv
<1>2. q \in Seq(SlotIdxs) /\ Len(q) \in Nat
  BY LenProperties DEF Chain
<1>3. ASSUME NEW k \in 1 .. Len(q)
      PROVE  /\ q[k] \in SlotIdxs /\ q[k] \in LiveSlots /\ q[k] # NIL
             /\ slots[q[k]].order.side = s
             /\ Lv(q[k]) \in LevelIdxs
             /\ q[k] \in At(s, Lv(q[k]))
             /\ Mirrored(q[k])
  <2>1. q[k] \in LiveSlots /\ slots[q[k]].order.side = s
    BY DEF Chain
  <2>2. PICK i \in LiveSlots : i = q[k]
    BY <2>1
  <2> QED BY <1>1, <2>1, <2>2, Neighbours DEF Lv
<1> QED BY <1>2, <1>3

(* Between two orders of a level stand only orders of that level.          *)
LEMMA ChainBetween ==
  ASSUME BookInv, NEW s \in Sides, NEW q, Chain(s, q), NEW j \in 1 .. Len(q), NEW k \in 1 .. Len(q),
         NEW m \in 1 .. Len(q), j <= k, k <= m, Lv(q[j]) = Lv(q[m])
  PROVE  Lv(q[k]) = Lv(q[j])
<1>1. Lv(q[j]) \in LevelIdxs /\ Lv(q[k]) \in LevelIdxs
  BY ChainTyped
<1>2. j < k => ~ Better(s, Lv(q[k]), Lv(q[j]))
  BY DEF Chain
<1>3. k < m => ~ Better(s, Lv(q[j]), Lv(q[k]))
  BY DEF Chain
<1>4. CASE j < k /\ k < m
  BY <1>1, <1>2, <1>3, <1>4, BetterFacts
<1>5. CASE j = k \/ k = m
  BY <1>5
<1>6. (j < k /\ k < m) \/ j = k \/ k = m
  BY ChainTyped
<1> QED BY <1>4, <1>5, <1>6

(* The link of an order leads to the next one and its back link to the one *)
(* before it.                                                              *)
LEMMA ChainLinks ==
  ASSUME BookInv, NEW s \in Sides, NEW q, Chain(s, q), NEW k \in 1 .. Len(q)
  PROVE  /\ slots[q[k]].next # NIL => /\ k + 1 \in 1 .. Len(q)
                                      /\ q[k + 1] = slots[q[k]].next
                                      /\ slots[q[k + 1]].prev = q[k]
                                      /\ Lv(q[k + 1]) = Lv(q[k])
         /\ slots[q[k]].prev # NIL => /\ k - 1 \in 1 .. Len(q)
                                      /\ q[k - 1] = slots[q[k]].prev
                                      /\ slots[q[k - 1]].next = q[k]
                                      /\ Lv(q[k - 1]) = Lv(q[k])
<1>1. /\ q[k] \in LiveSlots /\ q[k] # NIL /\ slots[q[k]].order.side = s /\ Mirrored(q[k])
      /\ Lv(q[k]) \in LevelIdxs /\ Len(q) \in Nat
  BY ChainTyped
<1>2. ASSUME slots[q[k]].next # NIL
      PROVE  /\ k + 1 \in 1 .. Len(q)
             /\ q[k + 1] = slots[q[k]].next
             /\ slots[q[k + 1]].prev = q[k]
             /\ Lv(q[k + 1]) = Lv(q[k])
  <2>1. k + 1 \in 1 .. Len(q) /\ q[k + 1] = slots[q[k]].next
    BY <1>2 DEF Chain
  <2>2. slots[q[k]].next \in At(s, Lv(q[k])) /\ slots[slots[q[k]].next].prev = q[k]
    BY <1>1, <1>2 DEF Mirrored, Lv
  <2>3. q[k + 1] \in At(s, Lv(q[k])) /\ slots[q[k + 1]].prev = q[k]
    BY <2>1, <2>2
  <2> QED BY <2>1, <2>3 DEF At, Lv
<1>3. ASSUME slots[q[k]].prev # NIL
      PROVE  /\ k - 1 \in 1 .. Len(q)
             /\ q[k - 1] = slots[q[k]].prev
             /\ slots[q[k - 1]].next = q[k]
             /\ Lv(q[k - 1]) = Lv(q[k])
  <2>1. PICK p : p = slots[q[k]].prev
    OBVIOUS
  <2>2. p \in At(s, Lv(q[k])) /\ slots[p].next = q[k]
    BY <1>1, <1>3, <2>1 DEF Mirrored, Lv
  <2>3. p \in LiveSlots /\ slots[p].order.side = s /\ Lv(p) = Lv(q[k])
    BY <2>2 DEF At, LiveSlots, Lv
  <2>4. PICK j \in 1 .. Len(q) : q[j] = p
    BY <2>3 DEF Chain
  <2>5. slots[q[j]].next # NIL /\ slots[q[j]].next = q[k]
    BY <1>1, <2>2, <2>4
  <2>6. j + 1 \in 1 .. Len(q) /\ q[j + 1] = q[k]
    BY <2>5 DEF Chain
  <2>7. j + 1 = k
    BY <2>6 DEF Chain
  <2>8. k - 1 = j
    BY <1>1, <2>7
  <2> QED BY <2>1, <2>2, <2>3, <2>4, <2>8
<1> QED BY <1>2, <1>3

(* The first order of its level is the head of the level.                  *)
LEMMA ChainHead ==
  ASSUME BookInv, NEW s \in Sides, NEW q, Chain(s, q), NEW m \in 1 .. Len(q),
         m = 1 \/ Lv(q[m - 1]) # Lv(q[m])
  PROVE  levels[s][Lv(q[m])].head = q[m]
<1>1. PICK l \in LevelIdxs : l = Lv(q[m])
  BY ChainTyped
<1>2. Len(q) \in Nat /\ q[m] \in LiveSlots /\ slots[q[m]].order.side = s
  BY ChainTyped
<1>3. PICK h : h = levels[s][l].head
  OBVIOUS
<1>4. l \in Occupied(s)
  BY <1>1, <1>2, LevelOccupied DEF Lv
<1>5. h # NIL
  BY <1>3, <1>4, HeadExists
<1>6. h \in At(s, l) /\ slots[h].prev = NIL
  BY <1>3, <1>5 DEF BookInv, ListsLinked, Ended
<1>7. h \in LiveSlots /\ slots[h].order.side = s /\ Lv(h) = l
  BY <1>6 DEF At, LiveSlots, Lv
<1>8. PICK j \in 1 .. Len(q) : q[j] = h
  BY <1>7 DEF Chain
<1>9. CASE j < m
  <2>1. m - 1 \in 1 .. Len(q) /\ j <= m - 1 /\ m - 1 <= m /\ m # 1
    BY <1>2, <1>9
  <2>2. Lv(q[m - 1]) = Lv(q[j])
    BY <1>1, <1>7, <1>8, <2>1, ChainBetween
  <2> QED BY <1>1, <1>7, <1>8, <2>1, <2>2
<1>10. CASE m < j
  <2>1. j - 1 \in 1 .. Len(q) /\ m <= j - 1 /\ j - 1 <= j /\ (j - 1) + 1 = j
    BY <1>2, <1>10
  <2>2. Lv(q[j - 1]) = Lv(q[m])
    BY <1>1, <1>7, <1>8, <2>1, ChainBetween
  <2>3. slots[q[j - 1]].next # NIL
    BY <1>1, <1>7, <1>8, <2>1, <2>2 DEF Chain
  <2>4. slots[q[j]].prev = q[j - 1] /\ q[j - 1] # NIL
    BY <2>1, <2>3, ChainLinks, ChainTyped
  <2> QED BY <1>6, <1>8, <2>4
<1>11. j < m \/ m < j \/ j = m
  BY <1>2
<1> QED BY <1>1, <1>3, <1>8, <1>9, <1>10, <1>11

(* Every occupied level is found in the chain.                             *)
LEMMA ChainMeets ==
  ASSUME BookInv, NEW s \in Sides, NEW q, Chain(s, q), NEW l \in Occupied(s)
  PROVE  \E k \in 1 .. Len(q) : Lv(q[k]) = l
<1>1. PICK h : h = levels[s][l].head
  OBVIOUS
<1>2. h # NIL /\ l \in LevelIdxs
  BY <1>1, HeadExists DEF Occupied
<1>3. h \in At(s, l)
  BY <1>1, <1>2 DEF BookInv, ListsLinked, Ended
<1>4. h \in LiveSlots /\ slots[h].order.side = s /\ Lv(h) = l
  BY <1>3 DEF At, LiveSlots, Lv
<1> QED BY <1>4 DEF Chain

-----------------------------------------------------------------------------
(* The walk of a side is its chain.                                        *)

LEMMA ChainFront ==
  ASSUME BookInv, NEW s \in Sides, NEW q, Chain(s, q)
  PROVE  HeadOf(s, best[s]) = IF 1 \in 1 .. Len(q) THEN q[1] ELSE NIL
<1>1. /\ best[s] \in LevelIdxs \cup {NIL} /\ NIL \notin LevelIdxs
      /\ best[s] # NIL => best[s] \in Occupied(s)
      /\ \A l \in Occupied(s) : best[s] # NIL /\ ~ Better(s, l, best[s])
  BY SlotsAreNats DEF BookInv, BookTyped, BestIsTrue, Occupied
<1>2. CASE 1 \in 1 .. Len(q)
  <2>1. PICK l \in LevelIdxs : l = Lv(q[1])
    BY <1>2, ChainTyped
  <2>2. q[1] \in LiveSlots /\ slots[q[1]].order.side = s
    BY <1>2, ChainTyped
  <2>3. l \in Occupied(s)
    BY <2>1, <2>2, LevelOccupied DEF Lv
  <2>4. PICK b \in Occupied(s) : b = best[s] /\ ~ Better(s, l, b)
    BY <1>1, <2>3
  <2>5. PICK k \in 1 .. Len(q) : Lv(q[k]) = b
    BY <2>4, ChainMeets
  <2>6. k # 1 => 1 < k
    BY <1>2, ChainTyped
  <2>7. ~ Better(s, b, l)
    <3>1. CASE k = 1
      BY <2>1, <2>4, <2>5, <3>1
    <3>2. CASE k # 1
      BY <1>2, <2>1, <2>5, <2>6, <3>2 DEF Chain
    <3> QED BY <3>1, <3>2
  <2>8. b = l
    BY <2>1, <2>4, <2>7, BetterFacts DEF Occupied
  <2>9. levels[s][l].head = q[1]
    BY <1>2, <2>1, ChainHead
  <2> QED BY <1>1, <1>2, <2>4, <2>8, <2>9, SlotsAreNats DEF HeadOf
<1>3. CASE 1 \notin 1 .. Len(q)
  <2>1. ASSUME best[s] # NIL PROVE FALSE
    <3>1. PICK k \in 1 .. Len(q) : Lv(q[k]) = best[s]
      BY <1>1, <2>1, ChainMeets
    <3>2. 1 \in 1 .. Len(q)
      BY <3>1, ChainTyped
    <3> QED BY <1>3, <3>2
  <2> QED BY <1>3, <2>1 DEF HeadOf
<1> QED BY <1>2, <1>3

LEMMA ChainAfter ==
  ASSUME BookInv, NEW s \in Sides, NEW q, Chain(s, q), NEW k \in 1 .. Len(q)
  PROVE  After(s, q[k]) = IF k + 1 \in 1 .. Len(q) THEN q[k + 1] ELSE NIL
<1>1. CASE slots[q[k]].next # NIL
  BY <1>1 DEF After, Chain
<1>2. CASE slots[q[k]].next = NIL
  <2>1. PICK l \in LevelIdxs : l = Lv(q[k])
    BY ChainTyped
  <2>2. After(s, q[k]) = HeadOf(s, NextWorse(s, l))
    BY <1>2, <2>1 DEF After, Lv
  <2>3. PICK worse : worse = {m \in occupied[s] : Better(s, l, m)}
    OBVIOUS
  <2>4. /\ worse = {m \in Occupied(s) : Better(s, l, m)}
        /\ IF worse = {} THEN NextWorse(s, l) = NIL
           ELSE /\ NextWorse(s, l) \in worse
                /\ \A n \in worse : ~ Better(s, n, NextWorse(s, l))
    <3>1. BookTyped /\ occupied[s] = Occupied(s)
      BY DEF BookInv, BestIsTrue, Occupied
    <3> QED BY <2>3, <3>1, NextWorseFacts
  <2>5. Len(q) \in Nat
    BY ChainTyped
  <2>6. ASSUME NEW m \in worse PROVE \E j \in 1 .. Len(q) : Lv(q[j]) = m /\ k + 1 <= j
    <3>1. PICK j \in 1 .. Len(q) : Lv(q[j]) = m
      BY <2>4, ChainMeets
    <3>2. m \in LevelIdxs /\ Better(s, l, m)
      BY <2>4 DEF Occupied
    <3>3. ~ (j <= k)
      <4>1. ASSUME j < k PROVE FALSE
        BY <2>1, <3>1, <3>2, <4>1 DEF Chain
      <4>2. ASSUME j = k PROVE FALSE
        BY <2>1, <3>1, <3>2, <4>2, BetterFacts
      <4> QED BY <2>5, <4>1, <4>2
    <3> QED BY <2>5, <3>1, <3>3
  <2>7. CASE k + 1 \in 1 .. Len(q)
    <3>1. PICK m \in LevelIdxs : m = Lv(q[k + 1])
      BY <2>7, ChainTyped
    <3>2. l # m /\ ~ Better(s, m, l)
      <4>1. k < k + 1
        OBVIOUS
      <4>2. l # m
        BY <1>2, <2>1, <2>7, <3>1 DEF Chain
      <4>3. ~ Better(s, m, l)
        BY <2>1, <2>7, <3>1, <4>1 DEF Chain
      <4> QED BY <4>2, <4>3
    <3>3. Better(s, l, m)
      BY <3>1, <3>2, <2>1, BetterFacts
    <3>4. m \in Occupied(s)
      <4>1. q[k + 1] \in LiveSlots /\ slots[q[k + 1]].order.side = s
        BY <2>7, ChainTyped
      <4> QED BY <3>1, <4>1, LevelOccupied DEF Lv
    <3>5. m \in worse
      BY <2>4, <3>3, <3>4
    <3>6. PICK n \in worse : n = NextWorse(s, l) /\ ~ Better(s, m, n)
      BY <2>4, <3>5
    <3>7. PICK j \in 1 .. Len(q) : Lv(q[j]) = n /\ k + 1 <= j
      BY <2>6, <3>6
    <3>8. ~ Better(s, n, m)
      <4>1. CASE k + 1 < j
        BY <2>7, <3>1, <3>7, <4>1 DEF Chain
      <4>2. CASE j = k + 1
        BY <3>1, <3>7, <4>2, BetterFacts
      <4> QED BY <2>5, <3>7, <4>1, <4>2
    <3>9. n = m
      BY <2>4, <3>1, <3>6, <3>8, BetterFacts DEF Occupied
    <3>10. levels[s][m].head = q[k + 1]
      <4>1. (k + 1) - 1 = k
        OBVIOUS
      <4> QED BY <2>1, <2>7, <3>1, <3>2, <4>1, ChainHead
    <3> QED BY <2>2, <2>7, <3>1, <3>6, <3>9, <3>10, SlotsAreNats DEF HeadOf
  <2>8. CASE k + 1 \notin 1 .. Len(q)
    <3>1. worse = {}
      <4>1. ASSUME NEW m \in worse PROVE FALSE
        <5>1. PICK j \in 1 .. Len(q) : k + 1 <= j
          BY <2>6
        <5> QED BY <2>5, <2>8, <5>1
      <4> QED BY <4>1
    <3> QED BY <2>2, <2>4, <2>8, <3>1 DEF HeadOf
  <2> QED BY <2>7, <2>8
<1> QED BY <1>1, <1>2

LEMMA CountTo == ASSUME NEW n \in Nat PROVE Cardinality(1 .. n) = n
BY FS_Interval

(* No chain is longer than the arena.                                      *)
LEMMA ChainFits ==
  ASSUME BookInv, NEW s \in Sides, NEW q, Chain(s, q)
  PROVE  Len(q) <= MaxLiveOrders
<1>1. Len(q) \in Nat /\ q \in [1 .. Len(q) -> SlotIdxs]
  BY ChainTyped
<1>2. \A j, k \in 1 .. Len(q) : q[j] = q[k] => j = k
  BY DEF Chain
<1>3. q \in Injection(1 .. Len(q), SlotIdxs)
  BY <1>1, <1>2 DEF Injection, IsInjective
<1>4. Cardinality(1 .. Len(q)) <= Cardinality(SlotIdxs)
  BY <1>3, SlotsAreNats, FS_Injection
<1>5. Cardinality(1 .. Len(q)) = Len(q)
  BY <1>1, CountTo
<1> QED BY <1>4, <1>5, SlotsAreNats

(* f takes the steps that Nodes takes.                                     *)
StepsAlong(s, f) ==
  f = [k \in 1 .. MaxLiveOrders |->
         IF k = 1 THEN HeadOf(s, best[s])
         ELSE LET p == f[k - 1] IN IF p = NIL THEN NIL ELSE After(s, p)]

LEMMA NodesChosen == \A s : Nodes(s) = CHOOSE f : StepsAlong(s, f)
BY DEF Nodes, StepsAlong

LEMMA StepsUnique ==
  ASSUME NEW s, NEW f, NEW g, StepsAlong(s, f), StepsAlong(s, g)
  PROVE  f = g
<1> DEFINE D == 1 .. MaxLiveOrders
           F == {k \in D : f[k] # g[k]}
<1>1. DOMAIN f = D /\ DOMAIN g = D /\ f = [k \in D |-> f[k]] /\ g = [k \in D |-> g[k]]
  BY DEF StepsAlong
<1>2. ASSUME F # {} PROVE FALSE
  <2>1. F \in SUBSET Nat
    BY SlotsAreNats
  <2>2. PICK k \in F : \A j \in F : k <= j
    <3> HIDE DEF F
    <3> QED BY <1>2, <2>1, SmallestExists
  <2>3. k \in D /\ f[k] # g[k]
    BY <2>2
  <2>4. k # 1
    BY <2>3 DEF StepsAlong
  <2>5. k - 1 \in D /\ k - 1 \notin F
    BY <2>2, <2>3, <2>4, SlotsAreNats
  <2>6. f[k - 1] = g[k - 1]
    BY <2>5
  <2>7. /\ f[k] = IF f[k - 1] = NIL THEN NIL ELSE After(s, f[k - 1])
        /\ g[k] = IF g[k - 1] = NIL THEN NIL ELSE After(s, g[k - 1])
    BY <2>3, <2>4 DEF StepsAlong
  <2> QED BY <2>3, <2>6, <2>7
<1> QED BY <1>1, <1>2

LEMMA ChainIsLine ==
  ASSUME BookInv, NEW s \in Sides, NEW q, Chain(s, q)
  PROVE  Line(s) = q
<1> DEFINE D == 1 .. MaxLiveOrders
           g == [k \in D |-> IF k \in 1 .. Len(q) THEN q[k] ELSE NIL]
<1>1. Len(q) \in Nat /\ Len(q) <= MaxLiveOrders /\ MaxLiveOrders \in Nat \ {0}
  BY ChainTyped, ChainFits, SlotsAreNats
<1>2. ASSUME NEW k \in D
      PROVE  g[k] = IF k = 1 THEN HeadOf(s, best[s])
                    ELSE IF g[k - 1] = NIL THEN NIL ELSE After(s, g[k - 1])
  <2>1. CASE k = 1
    BY <2>1, ChainFront
  <2>2. CASE k # 1
    <3>1. PICK j \in D : j = k - 1 /\ j + 1 = k
      BY <1>1, <2>2
    <3>2. CASE j \in 1 .. Len(q)
      <4>1. g[j] = q[j] /\ g[j] # NIL
        BY <3>2, ChainTyped
      <4>2. After(s, q[j]) = IF k \in 1 .. Len(q) THEN q[k] ELSE NIL
        BY <3>1, <3>2, ChainAfter
      <4> QED BY <2>2, <3>1, <4>1, <4>2
    <3>3. CASE j \notin 1 .. Len(q)
      <4>1. k \notin 1 .. Len(q)
        BY <1>1, <3>1, <3>3
      <4> QED BY <2>2, <3>1, <3>3, <4>1
    <3> QED BY <3>2, <3>3
  <2> QED BY <2>1, <2>2
<1>3. StepsAlong(s, g)
  <2>1. g = [k \in D |-> g[k]]
    OBVIOUS
  <2> HIDE DEF g
  <2> QED BY <1>2, <2>1 DEF StepsAlong
<1>4. Nodes(s) = g
  <2> HIDE DEF g
  <2>1. StepsAlong(s, CHOOSE f : StepsAlong(s, f))
    BY <1>3
  <2> QED BY <1>3, <2>1, NodesChosen, StepsUnique
<1>5. {k \in D : g[k] # NIL} = 1 .. Len(q)
  <2>1. \A k \in 1 .. Len(q) : k \in D /\ g[k] = q[k] /\ q[k] # NIL
    BY <1>1, ChainTyped
  <2>2. \A k \in D : k \notin 1 .. Len(q) => g[k] = NIL
    OBVIOUS
  <2> HIDE DEF g
  <2> QED BY <2>1, <2>2
<1>6. Cardinality(1 .. Len(q)) = Len(q)
  BY <1>1, CountTo
<1>7. Line(s) = [k \in 1 .. Len(q) |-> g[k]]
  <2> HIDE DEF g
  <2> QED BY <1>4, <1>5, <1>6 DEF Line
<1>8. \A k \in 1 .. Len(q) : g[k] = q[k]
  BY <1>1
<1>9. q = [k \in 1 .. Len(q) |-> q[k]]
  BY ChainTyped
<1> HIDE DEF g
<1> QED BY <1>7, <1>8, <1>9

-----------------------------------------------------------------------------
(* unlink_and_free takes one slot out of the chain of its side.            *)

LEMMA UnlinkKeeps ==
  ASSUME BookInv, NEW i \in LiveSlots, UnlinkAndFree(i), NEW j \in LiveSlots, j # i
  PROVE  /\ j \in LiveSlots' /\ j \in SlotIdxs
         /\ slots'[j].order = slots[j].order
         /\ Lv(j)' = Lv(j)
         /\ slots'[j].next = IF j = slots[i].prev THEN slots[i].next ELSE slots[j].next
<1>1. BookTyped /\ j \in SlotIdxs \ {i}
  BY DEF BookInv, LiveSlots
<1> QED BY <1>1, UnlinkFields, UnlinkAt DEF Lv

LEMMA UnlinkOtherChain ==
  ASSUME BookInv, NEW i \in LiveSlots, UnlinkAndFree(i), NEW s \in Sides, NEW q, Chain(s, q),
         slots[i].order.side # s
  PROVE  Chain(s, q)'
<1>1. Len(q) \in Nat /\ \A k \in 1 .. Len(q) : q[k] \in LiveSlots /\ slots[q[k]].order.side = s
  BY ChainTyped
<1>2. LiveSlots' = LiveSlots \ {i}
  BY UnlinkAt DEF BookInv
<1>3. ASSUME NEW j \in LiveSlots, slots[j].order.side = s
      PROVE  /\ j # i /\ j \in LiveSlots' /\ Lv(j)' = Lv(j)
             /\ slots'[j].order.side = s
             /\ slots'[j].next = slots[j].next
  <2>1. j # i
    BY <1>3
  <2>2. ASSUME j = slots[i].prev PROVE FALSE
    <3>1. PICK l : l = slots[i].level
      OBVIOUS
    <3>2. Mirrored(i) /\ slots[i].prev # NIL
      BY <2>2, Neighbours, SlotsAreNats DEF BookInv, LiveSlots
    <3>3. j \in At(slots[i].order.side, l)
      BY <2>2, <3>1, <3>2 DEF Mirrored
    <3> QED BY <1>3, <3>3 DEF At
  <2> QED BY <1>3, <2>1, <2>2, UnlinkKeeps
<1>4. \A k \in 1 .. Len(q) : /\ q[k] \in LiveSlots' /\ slots'[q[k]].order.side = s
                             /\ Lv(q[k])' = Lv(q[k]) /\ slots'[q[k]].next = slots[q[k]].next
  BY <1>1, <1>3
<1>5. \A j \in LiveSlots' : slots'[j].order.side = s => j \in LiveSlots /\ slots[j].order.side = s
  BY <1>2, UnlinkKeeps
<1>6. \A j \in LiveSlots' : slots'[j].order.side = s => \E k \in 1 .. Len(q) : q[k] = j
  BY <1>5 DEF Chain
<1>7. \A j, k \in 1 .. Len(q) : j < k => ~ Better(s, Lv(q[k])', Lv(q[j])')
  BY <1>4 DEF Chain
<1>8. /\ \A k \in 1 .. Len(q) : slots'[q[k]].next # NIL => /\ k + 1 \in 1 .. Len(q)
                                                           /\ q[k + 1] = slots'[q[k]].next
      /\ \A k \in 1 .. Len(q) : /\ k + 1 \in 1 .. Len(q)
                                /\ slots'[q[k]].next = NIL
                                => Lv(q[k])' # Lv(q[k + 1])'
  BY <1>4 DEF Chain
<1>9. q \in Seq(SlotIdxs) /\ \A j, k \in 1 .. Len(q) : q[j] = q[k] => j = k
  BY DEF Chain
<1> QED BY <1>4, <1>6, <1>7, <1>8, <1>9 DEF Chain

LEMMA UnlinkOwnChain ==
  ASSUME BookInv, NEW i \in LiveSlots, UnlinkAndFree(i), NEW s \in Sides, NEW q, Chain(s, q),
         NEW m \in 1 .. Len(q), q[m] = i
  PROVE  Chain(s, RemoveAt(q, m))'
<1>1. PICK n \in Nat : n = Len(q) /\ m \in 1 .. n
  BY ChainTyped
<1>2. PICK r \in Seq(SlotIdxs) : r = RemoveAt(q, m) /\ Len(r) = n - 1
                                 /\ \A j \in 1 .. n - 1 : r[j] = IF j < m THEN q[j] ELSE q[j + 1]
  BY <1>1, ChainTyped, RemoveAtFacts
<1> DEFINE f(j) == IF j < m THEN j ELSE j + 1
<1>3. \A j \in 1 .. n - 1 : /\ f(j) \in 1 .. n /\ f(j) # m /\ r[j] = q[f(j)]
                            /\ f(j) < m <=> j < m
  BY <1>1, <1>2
<1>4. \A j, k \in 1 .. n - 1 : (j < k => f(j) < f(k)) /\ (f(j) = f(k) => j = k)
  BY <1>1
<1>5. \A k \in 1 .. n : k # m => \E j \in 1 .. n - 1 : f(j) = k
  <2>1. ASSUME NEW k \in 1 .. n, k # m PROVE \E j \in 1 .. n - 1 : f(j) = k
    <3>1. CASE k < m
      BY <1>1, <3>1
    <3>2. CASE m < k
      <4>1. k - 1 \in 1 .. n - 1 /\ f(k - 1) = k
        BY <1>1, <3>2
      <4> QED BY <4>1
    <3> QED BY <1>1, <2>1, <3>1, <3>2
  <2> QED BY <2>1
<1>6. \A k \in 1 .. n : /\ q[k] \in LiveSlots /\ q[k] # NIL /\ slots[q[k]].order.side = s
                        /\ Lv(q[k]) \in LevelIdxs
                        /\ q[k] = i <=> k = m
  <2>1. ASSUME NEW k \in 1 .. Len(q) PROVE q[k] = i <=> k = m
    BY DEF Chain
  <2> QED BY <1>1, <2>1, ChainTyped
<1>7. LiveSlots' = LiveSlots \ {i}
  BY UnlinkAt DEF BookInv
(* What the links of the others become.                                    *)
<1>8. ASSUME NEW k \in 1 .. n, k # m
      PROVE  /\ q[k] \in LiveSlots' /\ slots'[q[k]].order.side = s /\ Lv(q[k])' = Lv(q[k])
             /\ q[k] = slots[i].prev => k + 1 = m /\ slots'[q[k]].next = slots[i].next
             /\ q[k] # slots[i].prev => slots'[q[k]].next = slots[q[k]].next
             /\ q[k] # slots[i].prev /\ k + 1 = m => slots[q[k]].next = NIL
  <2>1. q[k] \in LiveSlots /\ q[k] # i /\ q[k] # NIL
    BY <1>6, <1>8
  <2>2. q[k] = slots[i].prev => k + 1 = m
    <3>1. ASSUME q[k] = slots[i].prev PROVE k + 1 = m
      <4>1. slots[q[m]].prev # NIL
        BY <2>1, <3>1
      <4>2. m - 1 \in 1 .. n /\ q[m - 1] = q[k]
        BY <1>1, <3>1, <4>1, ChainLinks
      <4>3. m - 1 = k
        BY <1>1, <4>2 DEF Chain
      <4> QED BY <1>1, <4>3
    <3> QED BY <3>1
  <2>3. ASSUME q[k] # slots[i].prev, k + 1 = m PROVE slots[q[k]].next = NIL
    <3>1. ASSUME slots[q[k]].next # NIL PROVE FALSE
      <4>1. k \in 1 .. Len(q)
        BY <1>1
      <4>2. PICK j \in 1 .. Len(q) : j = k /\ slots[q[j]].next # NIL
        BY <3>1, <4>1
      <4>3. slots[q[j + 1]].prev = q[j]
        BY <4>2, ChainLinks
      <4> QED BY <2>3, <4>2, <4>3
    <3> QED BY <3>1
  <2> QED BY <2>1, <2>2, <2>3, <1>6, UnlinkKeeps
<1> HIDE DEF f
<1>9. \A k \in 1 .. n - 1 : r[k] \in LiveSlots' /\ slots'[r[k]].order.side = s
  BY <1>3, <1>8
<1>10. \A j, k \in 1 .. n - 1 : r[j] = r[k] => j = k
  BY <1>1, <1>3, <1>4 DEF Chain
<1>11. ASSUME NEW j \in LiveSlots', slots'[j].order.side = s PROVE \E k \in 1 .. n - 1 : r[k] = j
  <2>1. j \in LiveSlots /\ j # i /\ slots[j].order.side = s
    BY <1>7, <1>11, UnlinkKeeps
  <2>2. PICK k \in 1 .. n : q[k] = j
    BY <1>1, <2>1 DEF Chain
  <2>3. k # m
    BY <2>1, <2>2
  <2> QED BY <1>3, <1>5, <2>2, <2>3
<1>12. ASSUME NEW j \in 1 .. n - 1, NEW k \in 1 .. n - 1, j < k
       PROVE  ~ Better(s, Lv(r[k])', Lv(r[j])')
  <2>1. PICK a \in 1 .. n, b \in 1 .. n : a = f(j) /\ b = f(k) /\ a # m /\ b # m /\ a < b
                                          /\ r[j] = q[a] /\ r[k] = q[b]
    BY <1>3, <1>4, <1>12
  <2>2. Lv(q[a])' = Lv(q[a]) /\ Lv(q[b])' = Lv(q[b])
    BY <1>8, <2>1
  <2>3. ~ Better(s, Lv(q[b]), Lv(q[a]))
    BY <1>1, <2>1 DEF Chain
  <2> QED BY <2>1, <2>2, <2>3
<1>13. ASSUME NEW k \in 1 .. n - 1
       PROVE  /\ slots'[r[k]].next # NIL => k + 1 \in 1 .. n - 1 /\ r[k + 1] = slots'[r[k]].next
              /\ k + 1 \in 1 .. n - 1 /\ slots'[r[k]].next = NIL => Lv(r[k])' # Lv(r[k + 1])'
  <2>1. PICK a \in 1 .. n : a = f(k) /\ a # m /\ r[k] = q[a]
    BY <1>3
  <2>2. /\ Lv(q[a])' = Lv(q[a])
        /\ q[a] = slots[i].prev => a + 1 = m /\ slots'[q[a]].next = slots[i].next
        /\ q[a] # slots[i].prev => slots'[q[a]].next = slots[q[a]].next
        /\ q[a] # slots[i].prev /\ a + 1 = m => slots[q[a]].next = NIL
    BY <1>8, <2>1
  <2>3. /\ k + 1 \in 1 .. n - 1 => /\ f(k + 1) \in 1 .. n /\ f(k + 1) # m /\ r[k + 1] = q[f(k + 1)]
                                   /\ Lv(r[k + 1])' = Lv(q[f(k + 1)])
        /\ a + 1 # m => f(k + 1) = a + 1 /\ (k + 1 \in 1 .. n - 1 <=> a + 1 \in 1 .. n)
        /\ a + 1 = m => f(k + 1) = m + 1 /\ (k + 1 \in 1 .. n - 1 <=> m + 1 \in 1 .. n)
    <3>1. k + 1 \in 1 .. n - 1 => /\ f(k + 1) \in 1 .. n /\ f(k + 1) # m /\ r[k + 1] = q[f(k + 1)]
                                  /\ Lv(r[k + 1])' = Lv(q[f(k + 1)])
      BY <1>3, <1>8
    <3> QED BY <1>1, <2>1, <3>1 DEF f
  <2>4. CASE q[a] = slots[i].prev
    <3>1. slots'[r[k]].next = slots[i].next /\ a + 1 = m
      BY <2>1, <2>2, <2>4
    <3>2. slots[i].next # NIL => m + 1 \in 1 .. n /\ q[m + 1] = slots[i].next
      BY <1>1 DEF Chain
    <3>3. slots[i].next = NIL /\ m + 1 \in 1 .. n => Lv(i) # Lv(q[m + 1])
      BY <1>1 DEF Chain
    <3>4. Lv(q[a]) = Lv(i)
      <4>1. slots[q[m]].prev # NIL /\ m - 1 = a
        BY <1>6, <2>1, <2>4, <3>1
      <4> QED BY <1>1, <4>1, ChainLinks
    <3> QED BY <2>1, <2>2, <2>3, <3>1, <3>2, <3>3, <3>4
  <2>5. CASE q[a] # slots[i].prev /\ a + 1 # m
    <3>1. slots'[r[k]].next = slots[q[a]].next
      BY <2>1, <2>2, <2>5
    <3>2. slots[q[a]].next # NIL => a + 1 \in 1 .. n /\ q[a + 1] = slots[q[a]].next
      BY <1>1 DEF Chain
    <3>3. slots[q[a]].next = NIL /\ a + 1 \in 1 .. n => Lv(q[a]) # Lv(q[a + 1])
      BY <1>1 DEF Chain
    <3> QED BY <2>1, <2>2, <2>3, <2>5, <3>1, <3>2, <3>3
  <2>6. CASE q[a] # slots[i].prev /\ a + 1 = m
    <3>1. slots'[r[k]].next = NIL /\ slots[q[a]].next = NIL
      BY <2>1, <2>2, <2>6
    <3>2. Lv(q[a]) # Lv(q[m])
      BY <1>1, <2>6, <3>1 DEF Chain
    <3>3. ASSUME m + 1 \in 1 .. n, Lv(q[a]) = Lv(q[m + 1]) PROVE FALSE
      <4>1. a <= m /\ m <= m + 1 /\ a \in 1 .. Len(q) /\ m + 1 \in 1 .. Len(q)
        BY <1>1, <2>6, <3>3
      <4>2. Lv(q[m]) = Lv(q[a])
        BY <3>3, <4>1, ChainBetween
      <4> QED BY <3>2, <4>2
    <3> QED BY <2>1, <2>2, <2>3, <2>6, <3>1, <3>3
  <2> QED BY <2>4, <2>5, <2>6
<1>14. Len(r) = n - 1 /\ r \in Seq(SlotIdxs)
  BY <1>2
<1>15. Chain(s, r)'
  BY <1>9, <1>10, <1>11, <1>12, <1>13, <1>14 DEF Chain
<1> QED BY <1>2, <1>15

-----------------------------------------------------------------------------
(* rest puts one slot into the chain of its side.                          *)

(* Where: the orders that are not of a worse level come first.             *)
LEMMA ChainPlace ==
  ASSUME BookInv, NEW s \in Sides, NEW q, Chain(s, q), NEW l \in LevelIdxs
  PROVE  \E k \in 0 .. Len(q) :
           \A j \in 1 .. Len(q) : j <= k <=> ~ Better(s, l, Lv(q[j]))
<1>1. PICK n \in Nat : n = Len(q)
  BY ChainTyped
<1>2. \A j \in 1 .. n : Lv(q[j]) \in LevelIdxs
  BY <1>1, ChainTyped
<1> DEFINE G == {j \in 1 .. n : ~ Better(s, l, Lv(q[j]))}
<1>3. CASE G = {}
  <2>1. \A j \in 1 .. n : j <= 0 <=> ~ Better(s, l, Lv(q[j]))
    BY <1>3
  <2> QED BY <1>1, <2>1
<1>4. CASE G # {}
  <2>1. PICK k \in G : \A j \in G : j <= k
    <3>1. G \in SUBSET (0 .. n)
      OBVIOUS
    <3> HIDE DEF G
    <3> QED BY <1>1, <1>4, <3>1, LargestExists
  <2>2. ASSUME NEW j \in 1 .. n, j <= k PROVE ~ Better(s, l, Lv(q[j]))
    <3>1. CASE j = k
      BY <2>1, <3>1
    <3>2. CASE j # k
      <4>1. j < k /\ k \in 1 .. n /\ ~ Better(s, l, Lv(q[k]))
        BY <2>1, <2>2, <3>2
      <4>2. ~ Better(s, Lv(q[k]), Lv(q[j]))
        BY <1>1, <4>1 DEF Chain
      <4>3. PICK a \in Nat, b \in Nat, c \in Nat : a = l /\ b = Lv(q[k]) /\ c = Lv(q[j])
        BY <1>2, <4>1, SlotsAreNats
      <4> QED BY <4>1, <4>2, <4>3 DEF Better
    <3> QED BY <3>1, <3>2
  <2>3. \A j \in 1 .. n : j <= k <=> ~ Better(s, l, Lv(q[j]))
    BY <2>1, <2>2
  <2>4. k \in 0 .. n
    OBVIOUS
  <2> QED BY <1>1, <2>3, <2>4
<1> QED BY <1>3, <1>4

LEMMA RestKeeps ==
  ASSUME BookInv, NEW i \in SlotIdxs, NEW r \in Sides, NEW l \in LevelIdxs, RestsIn(i, r, l),
         NEW j \in LiveSlots
  PROVE  /\ j \in LiveSlots' /\ j # i /\ j # NIL
         /\ slots'[j].order = slots[j].order
         /\ Lv(j)' = Lv(j)
         /\ slots'[j].next = IF j = levels[r][l].tail THEN i ELSE slots[j].next
<1>1. j \in SlotIdxs /\ j # NIL
  BY SlotsAreNats DEF LiveSlots
<1>2. j # i /\ j \in LiveSlots'
  BY RestAt, ZenonT(60) DEF RestsIn
<1> QED BY <1>1, <1>2 DEF RestsIn, Lv

LEMMA RestSlot ==
  ASSUME NEW i \in SlotIdxs, NEW s \in Sides, NEW l \in LevelIdxs, RestsIn(i, s, l)
  PROVE  /\ LiveSlots' = LiveSlots \cup {i} /\ i \notin LiveSlots /\ i # NIL
         /\ slots'[i].order = Resting(taker) /\ slots'[i].order.side = s
         /\ Lv(i)' = l /\ slots'[i].next = NIL
<1>1. i \notin LiveSlots /\ s = taker.side
      /\ slots'[i] = [order |-> Resting(taker), level |-> l, prev |-> levels[s][l].tail, next |-> NIL]
  BY DEF RestsIn
<1>2. /\ slots'[i].order = Resting(taker) /\ slots'[i].level = l /\ slots'[i].next = NIL
      /\ Resting(taker).side = s
  BY <1>1 DEF Resting
<1>3. LiveSlots' = LiveSlots \cup {i}
  BY RestAt
<1> QED BY <1>1, <1>2, <1>3, SlotsAreNats DEF Lv

LEMMA RestOtherChain ==
  ASSUME BookInv, NEW i \in SlotIdxs, NEW r \in Sides, NEW l \in LevelIdxs, RestsIn(i, r, l),
         NEW s \in Sides, NEW q, Chain(s, q), s # r
  PROVE  Chain(s, q)'
<1>1. Len(q) \in Nat /\ \A k \in 1 .. Len(q) : q[k] \in LiveSlots /\ slots[q[k]].order.side = s
  BY ChainTyped
<1>2. LiveSlots' = LiveSlots \cup {i} /\ slots'[i].order.side = r
  BY RestSlot
<1>3. ASSUME NEW j \in LiveSlots, slots[j].order.side = s
      PROVE  /\ j \in LiveSlots' /\ Lv(j)' = Lv(j)
             /\ slots'[j].order.side = s
             /\ slots'[j].next = slots[j].next
  <2>1. ASSUME j = levels[r][l].tail PROVE FALSE
    <3>1. levels[r][l].tail # NIL
      BY <2>1, RestKeeps
    <3>2. j \in At(r, l)
      BY <2>1, <3>1 DEF BookInv, ListsLinked, Ended
    <3> QED BY <1>3, <3>2 DEF At
  <2> QED BY <1>3, <2>1, RestKeeps
<1>4. \A k \in 1 .. Len(q) : /\ q[k] \in LiveSlots' /\ slots'[q[k]].order.side = s
                             /\ Lv(q[k])' = Lv(q[k]) /\ slots'[q[k]].next = slots[q[k]].next
  BY <1>1, <1>3
<1>5. \A j \in LiveSlots' : slots'[j].order.side = s => j \in LiveSlots /\ slots[j].order.side = s
  BY <1>2, RestKeeps
<1>6. \A j \in LiveSlots' : slots'[j].order.side = s => \E k \in 1 .. Len(q) : q[k] = j
  BY <1>5 DEF Chain
<1>7. \A j, k \in 1 .. Len(q) : j < k => ~ Better(s, Lv(q[k])', Lv(q[j])')
  BY <1>4 DEF Chain
<1>8. /\ \A k \in 1 .. Len(q) : slots'[q[k]].next # NIL => /\ k + 1 \in 1 .. Len(q)
                                                           /\ q[k + 1] = slots'[q[k]].next
      /\ \A k \in 1 .. Len(q) : /\ k + 1 \in 1 .. Len(q)
                                /\ slots'[q[k]].next = NIL
                                => Lv(q[k])' # Lv(q[k + 1])'
  BY <1>4, SMTT(60) DEF Chain
<1>9. q \in Seq(SlotIdxs) /\ \A j, k \in 1 .. Len(q) : q[j] = q[k] => j = k
  BY DEF Chain
<1> QED BY <1>4, <1>6, <1>7, <1>8, <1>9 DEF Chain

(* The tail of the level it joins is the last order before it.             *)
LEMMA ChainTail ==
  ASSUME BookInv, NEW s \in Sides, NEW q, Chain(s, q), NEW l \in LevelIdxs,
         NEW k \in 0 .. Len(q), \A j \in 1 .. Len(q) : j <= k <=> ~ Better(s, l, Lv(q[j])),
         NEW j \in 1 .. Len(q)
  PROVE  /\ q[j] = levels[s][l].tail => j = k /\ slots[q[j]].next = NIL /\ Lv(q[j]) = l
         /\ j = k /\ Lv(q[j]) = l /\ slots[q[j]].next = NIL => q[j] = levels[s][l].tail
         /\ j = k => q[j] = levels[s][l].tail \/ slots[q[j]].next = NIL
<1>1. Len(q) \in Nat /\ q[j] # NIL /\ Mirrored(q[j]) /\ Lv(q[j]) \in LevelIdxs
      /\ slots[q[j]].order.side = s
  BY ChainTyped
<1>2. ASSUME q[j] = levels[s][l].tail
      PROVE  j = k /\ slots[q[j]].next = NIL /\ Lv(q[j]) = l
  <2>1. q[j] \in At(s, l) /\ slots[q[j]].next = NIL
    BY <1>1, <1>2 DEF BookInv, ListsLinked, Ended
  <2>2. Lv(q[j]) = l
    BY <2>1 DEF At, Lv
  <2>3. j <= k
    BY <2>2, BetterFacts
  <2>4. ASSUME j < k PROVE FALSE
    <3>1. j + 1 \in 1 .. Len(q) /\ j + 1 <= k /\ j < j + 1
      BY <1>1, <2>4
    <3>2. Lv(q[j + 1]) \in LevelIdxs
      BY <3>1, ChainTyped
    <3>3. ~ Better(s, l, Lv(q[j + 1]))
      BY <3>1
    <3>4. ~ Better(s, Lv(q[j + 1]), l)
      BY <2>2, <3>1 DEF Chain
    <3>5. Lv(q[j + 1]) = l
      BY <3>2, <3>3, <3>4, BetterFacts
    <3> QED BY <2>1, <2>2, <3>1, <3>5 DEF Chain
  <2> QED BY <1>1, <2>1, <2>2, <2>3, <2>4
<1>3. ASSUME j = k, Lv(q[j]) = l, slots[q[j]].next = NIL
      PROVE  q[j] = levels[s][l].tail
  BY <1>1, <1>3 DEF Mirrored, Lv
<1>4. ASSUME j = k, slots[q[j]].next # NIL PROVE FALSE
  <2>1. j + 1 \in 1 .. Len(q) /\ Lv(q[j + 1]) = Lv(q[j])
    BY <1>4, ChainLinks
  <2>2. j + 1 <= k
    BY <1>4, <2>1
  <2> QED BY <1>1, <1>4, <2>2
<1> QED BY <1>2, <1>3, <1>4

LEMMA RestOwnChain ==
  ASSUME BookInv, NEW i \in SlotIdxs, NEW s \in Sides, NEW l \in LevelIdxs, RestsIn(i, s, l),
         NEW q, Chain(s, q), NEW m \in 0 .. Len(q),
         \A j \in 1 .. Len(q) : j <= m <=> ~ Better(s, l, Lv(q[j]))
  PROVE  Chain(s, InsertAt(q, m + 1, i))'
<1>1. PICK n \in Nat : n = Len(q) /\ m \in 0 .. n /\ m \in Nat
  BY ChainTyped
<1>2. PICK r \in Seq(SlotIdxs) :
        /\ r = InsertAt(q, m + 1, i) /\ Len(r) = n + 1
        /\ \A j \in 1 .. n + 1 : r[j] = IF j < m + 1 THEN q[j] ELSE IF j = m + 1 THEN i ELSE q[j - 1]
  <2>1. m + 1 \in 1 .. Len(q) + 1
    BY <1>1
  <2>2. q \in Seq(SlotIdxs) /\ i \in SlotIdxs
    BY ChainTyped
  <2>3. /\ InsertAt(q, m + 1, i) \in Seq(SlotIdxs) /\ Len(InsertAt(q, m + 1, i)) = Len(q) + 1
        /\ \A j \in 1 .. Len(q) + 1 :
             InsertAt(q, m + 1, i)[j] = IF j < m + 1 THEN q[j] ELSE IF j = m + 1 THEN i ELSE q[j - 1]
    BY <2>1, <2>2, InsertAtFacts
  <2> QED BY <1>1, <2>3
<1> DEFINE f(j) == IF j < m + 1 THEN j ELSE j - 1
<1>3. /\ r[m + 1] = i /\ m + 1 \in 1 .. n + 1
      /\ \A j \in 1 .. n + 1 : j # m + 1 => /\ f(j) \in 1 .. n /\ r[j] = q[f(j)]
                                            /\ j < m + 1 <=> f(j) <= m
  BY <1>1, <1>2
<1>4. \A j, k \in 1 .. n + 1 : j # m + 1 /\ k # m + 1 => /\ j < k => f(j) < f(k)
                                                         /\ f(j) = f(k) => j = k
  BY <1>1
<1>5. \A k \in 1 .. n : \E j \in 1 .. n + 1 : j # m + 1 /\ f(j) = k
  <2>1. ASSUME NEW k \in 1 .. n PROVE \E j \in 1 .. n + 1 : j # m + 1 /\ f(j) = k
    <3>1. CASE k <= m
      BY <1>1, <3>1
    <3>2. CASE m < k
      <4>1. k + 1 \in 1 .. n + 1 /\ f(k + 1) = k /\ k + 1 # m + 1
        BY <1>1, <3>2
      <4> QED BY <4>1
    <3> QED BY <1>1, <3>1, <3>2
  <2> QED BY <2>1
<1>6. \A k \in 1 .. n : /\ q[k] \in LiveSlots /\ slots[q[k]].order.side = s
                        /\ Lv(q[k]) \in LevelIdxs
                        /\ k <= m <=> ~ Better(s, l, Lv(q[k]))
  BY <1>1, ChainTyped
<1>7. LiveSlots' = LiveSlots \cup {i} /\ i \notin LiveSlots /\ i # NIL
  BY RestSlot
<1>8. Lv(i)' = l /\ slots'[i].order.side = s /\ slots'[i].next = NIL
  BY RestSlot
(* What the links of the others become.                                    *)
<1>9. ASSUME NEW k \in 1 .. n
      PROVE  /\ q[k] \in LiveSlots' /\ q[k] # i /\ slots'[q[k]].order.side = s /\ Lv(q[k])' = Lv(q[k])
             /\ slots'[q[k]].next = i => k = m
             /\ slots'[q[k]].next # i => slots'[q[k]].next = slots[q[k]].next
             /\ slots'[q[k]].next # i /\ k = m => slots[q[k]].next = NIL /\ Lv(q[k]) # l
  <2>1. /\ q[k] \in LiveSlots' /\ q[k] # i /\ slots'[q[k]].order.side = s /\ Lv(q[k])' = Lv(q[k])
        /\ slots'[q[k]].next = IF q[k] = levels[s][l].tail THEN i ELSE slots[q[k]].next
    <3>1. q[k] \in LiveSlots
      BY <1>6
    <3> QED BY <1>6, <3>1, RestKeeps
  <2>2. /\ q[k] = levels[s][l].tail => k = m /\ slots[q[k]].next = NIL /\ Lv(q[k]) = l
        /\ k = m /\ Lv(q[k]) = l /\ slots[q[k]].next = NIL => q[k] = levels[s][l].tail
        /\ k = m => q[k] = levels[s][l].tail \/ slots[q[k]].next = NIL
    <3>1. k \in 1 .. Len(q)
      BY <1>1
    <3> QED BY <3>1, ChainTail
  <2>3. slots[q[k]].next # i
    <3>1. ASSUME slots[q[k]].next # NIL PROVE slots[q[k]].next \in LiveSlots
      <4>1. k + 1 \in 1 .. n /\ q[k + 1] = slots[q[k]].next
        BY <1>1, <3>1 DEF Chain
      <4> QED BY <1>6, <4>1
    <3> QED BY <1>7, <3>1
  <2> QED BY <2>1, <2>2, <2>3
<1> HIDE DEF f
<1>10. \A k \in 1 .. n + 1 : r[k] \in LiveSlots' /\ slots'[r[k]].order.side = s
  BY <1>3, <1>7, <1>8, <1>9
<1>11. ASSUME NEW j \in 1 .. n + 1, NEW k \in 1 .. n + 1, r[j] = r[k] PROVE j = k
  <2>1. CASE j = m + 1 \/ k = m + 1
    BY <1>3, <1>9, <1>11, <2>1
  <2>2. CASE j # m + 1 /\ k # m + 1
    <3>1. q[f(j)] = q[f(k)] /\ f(j) \in 1 .. n /\ f(k) \in 1 .. n
      BY <1>3, <1>11, <2>2
    <3>2. f(j) = f(k)
      BY <1>1, <3>1 DEF Chain
    <3> QED BY <1>4, <2>2, <3>2
  <2> QED BY <2>1, <2>2
<1>12. ASSUME NEW j \in LiveSlots', slots'[j].order.side = s PROVE \E k \in 1 .. n + 1 : r[k] = j
  <2>1. CASE j = i
    BY <1>3, <2>1
  <2>2. CASE j # i
    <3>1. j \in LiveSlots /\ slots[j].order.side = s
      BY <1>7, <1>12, <2>2, RestKeeps
    <3>2. PICK k \in 1 .. n : q[k] = j
      BY <1>1, <3>1 DEF Chain
    <3> QED BY <1>3, <1>5, <3>2
  <2> QED BY <2>1, <2>2
<1>13. ASSUME NEW j \in 1 .. n + 1, NEW k \in 1 .. n + 1, j < k
       PROVE  ~ Better(s, Lv(r[k])', Lv(r[j])')
  <2>1. CASE j # m + 1 /\ k # m + 1
    <3>1. PICK a \in 1 .. n, b \in 1 .. n : a < b /\ r[j] = q[a] /\ r[k] = q[b]
      BY <1>3, <1>4, <1>13, <2>1
    <3>2. ~ Better(s, Lv(q[b]), Lv(q[a]))
      BY <1>1, <3>1 DEF Chain
    <3> QED BY <1>9, <3>1, <3>2
  <2>2. CASE k = m + 1
    <3>1. j < m + 1 /\ j # m + 1
      BY <1>1, <1>13, <2>2
    <3>2. PICK a \in 1 .. n : r[j] = q[a] /\ a <= m
      BY <1>3, <3>1
    <3>3. ~ Better(s, l, Lv(q[a]))
      BY <1>6, <3>2
    <3> QED BY <1>3, <1>8, <1>9, <2>2, <3>2, <3>3
  <2>3. CASE j = m + 1
    <3>1. ~ (k < m + 1) /\ k # m + 1
      BY <1>1, <1>13, <2>3
    <3>2. PICK a \in 1 .. n : r[k] = q[a] /\ ~ (a <= m)
      BY <1>3, <3>1
    <3>3. Better(s, l, Lv(q[a])) /\ Lv(q[a]) \in LevelIdxs
      BY <1>6, <3>2
    <3>4. ~ Better(s, Lv(q[a]), l)
      BY <3>3, BetterFacts
    <3> QED BY <1>3, <1>8, <1>9, <2>3, <3>2, <3>4
  <2> QED BY <2>1, <2>2, <2>3
<1>14. ASSUME NEW k \in 1 .. n + 1
       PROVE  /\ slots'[r[k]].next # NIL => k + 1 \in 1 .. n + 1 /\ r[k + 1] = slots'[r[k]].next
              /\ k + 1 \in 1 .. n + 1 /\ slots'[r[k]].next = NIL => Lv(r[k])' # Lv(r[k + 1])'
  <2>1. CASE k = m + 1
    <3>1. slots'[r[k]].next = NIL /\ Lv(r[k])' = l
      BY <1>3, <1>8, <2>1
    <3>2. ASSUME k + 1 \in 1 .. n + 1 PROVE Lv(r[k + 1])' # l
      <4>1. k + 1 # m + 1 /\ ~ (k + 1 < m + 1)
        BY <1>1, <2>1
      <4>2. PICK a \in 1 .. n : r[k + 1] = q[a] /\ ~ (a <= m)
        BY <1>3, <3>2, <4>1
      <4>3. Better(s, l, Lv(q[a])) /\ Lv(q[a]) \in LevelIdxs
        BY <1>6, <4>2
      <4> QED BY <1>9, <4>2, <4>3, BetterFacts
    <3> QED BY <3>1, <3>2
  <2>2. CASE k # m + 1
    <3>1. PICK a \in 1 .. n : a = f(k) /\ r[k] = q[a] /\ (k < m + 1 <=> a <= m)
      BY <1>3, <2>2
    <3>2. Lv(r[k])' = Lv(q[a]) /\ slots'[r[k]].next = slots'[q[a]].next
      BY <1>9, <3>1
    <3>3. CASE a = m
      <4>1. k = m
        BY <1>1, <2>2, <3>1, <3>3 DEF f
      <4>2. k + 1 = m + 1 /\ r[k + 1] = i /\ k + 1 \in 1 .. n + 1 /\ Lv(r[k + 1])' = l
        BY <1>3, <1>8, <4>1
      <4>3. slots'[q[a]].next # i => slots'[q[a]].next = NIL /\ Lv(q[a]) # l
        BY <1>9, <3>3
      <4> QED BY <1>7, <3>2, <4>2, <4>3
    <3>4. CASE a # m
      <4>1. slots'[r[k]].next = slots[q[a]].next
        BY <1>9, <3>2, <3>4
      <4>2. /\ slots[q[a]].next # NIL => a + 1 \in 1 .. n /\ q[a + 1] = slots[q[a]].next
            /\ a + 1 \in 1 .. n /\ slots[q[a]].next = NIL => Lv(q[a]) # Lv(q[a + 1])
        BY <1>1 DEF Chain
      <4>3. k + 1 # m + 1 /\ (k + 1 \in 1 .. n + 1 <=> a + 1 \in 1 .. n) /\ f(k + 1) = a + 1
        BY <1>1, <2>2, <3>1, <3>4 DEF f
      <4>4. k + 1 \in 1 .. n + 1 => r[k + 1] = q[a + 1] /\ Lv(r[k + 1])' = Lv(q[a + 1])
        BY <1>3, <1>9, <4>3
      <4> QED BY <3>2, <4>1, <4>2, <4>3, <4>4
    <3> QED BY <3>3, <3>4
  <2> QED BY <2>1, <2>2
<1>15. Len(r) = n + 1 /\ r \in Seq(SlotIdxs)
  BY <1>2
<1>16. Chain(s, r)'
  BY <1>10, <1>11, <1>12, <1>13, <1>14, <1>15 DEF Chain
<1> QED BY <1>2, <1>16

=============================================================================
