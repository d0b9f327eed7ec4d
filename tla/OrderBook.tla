------------------------------ MODULE OrderBook ------------------------------
(***************************************************************************)
(* The fast engine, src/crates/core/src/{book,book_side,arena}.rs: orders  *)
(* live in the slots of a fixed arena, a price level is a doubly linked    *)
(* list threaded through the slots, free slots form a list of their own    *)
(* through the same `next`, a bitmap says which levels are occupied, the   *)
(* best level of each side is cached and an index maps order ids to slots. *)
(*                                                                         *)
(* Three abstractions.  The index is the map that OrderIndex.tla shows the *)
(* probe table to be, and the bitmap the set that OccupancyBitmap.tla shows*)
(* the words to be.  The fields of a free slot other than `next`, stale in *)
(* the code and never read before rest() overwrites them, are poisoned.    *)
(*                                                                         *)
(* The steps are those of ReferenceBook, plus the two that the oracle does *)
(* not have: entering the best level and leaving it.                       *)
(***************************************************************************)
EXTENDS BookTypes, SequencesExt

VARIABLES
  slots,      \* Arena::slots
  freeHead,   \* Arena::free_head
  len,        \* Arena::len
  levels,     \* levels[side][level]: head, tail, total_qty, order_count
  occupied,   \* occupied[side]: the set of levels whose bit is set
  best,       \* best[side]: cached best level or NIL
  index,      \* index[id]: slot of the live order id, or NIL
  taker,      \* the order inside cross(), or NoOrder
  lvl, cur,   \* fill_at_level: the level being walked and the slot, or NIL
  out         \* EventBuffer

arena == <<slots, freeHead, len>>
sides == <<levels, occupied, best>>
vars == <<slots, freeHead, len, levels, occupied, best, index,
          taker, lvl, cur, out>>

SlotIdxs == 0 .. MaxLiveOrders - 1

Slot == [order : Order \cup {NoOrder}, level : LevelIdxs \cup {NIL},
         prev : SlotIdxs \cup {NIL}, next : SlotIdxs \cup {NIL}]
Level == [head : SlotIdxs \cup {NIL}, tail : SlotIdxs \cup {NIL},
          total : Nat, count : Nat]

TypeOK == /\ slots \in [SlotIdxs -> Slot]
          /\ freeHead \in SlotIdxs \cup {NIL}
          /\ len \in 0 .. MaxLiveOrders
          /\ levels \in [Sides -> [LevelIdxs -> Level]]
          /\ occupied \in [Sides -> SUBSET LevelIdxs]
          /\ best \in [Sides -> LevelIdxs \cup {NIL}]
          /\ index \in [OrderIds -> SlotIdxs \cup {NIL}]
          /\ taker \in Takers \cup {NoOrder}
          /\ lvl \in LevelIdxs \cup {NIL}
          /\ cur \in SlotIdxs \cup {NIL}
          /\ out \in Seq(Event)

FreeSlot(next) == [order |-> NoOrder, level |-> NIL, prev |-> NIL, next |-> next]
EmptyLevel == [head |-> NIL, tail |-> NIL, total |-> 0, count |-> 0]

Init == /\ slots = [i \in SlotIdxs |->
                      FreeSlot(IF i + 1 < MaxLiveOrders THEN i + 1 ELSE NIL)]
        /\ freeHead = 0
        /\ len = 0
        /\ levels = [s \in Sides |-> [l \in LevelIdxs |-> EmptyLevel]]
        /\ occupied = [s \in Sides |-> {}]
        /\ best = [s \in Sides |-> NIL]
        /\ index = [id \in OrderIds |-> NIL]
        /\ taker = NoOrder
        /\ lvl = NIL
        /\ cur = NIL
        /\ out = <<>>

-----------------------------------------------------------------------------
(* EventBuffer: a push beyond the capacity given by for_book is dropped.   *)

(* Mutant: sized for one Fill per order and nothing else.                  *)
EventCapacityMut == MaxLiveOrders
EventCapacity == MaxLiveOrders + 8

Pushed(buf, e) == IF Len(buf) < EventCapacity THEN Append(buf, e) ELSE buf

-----------------------------------------------------------------------------
(* Levels.                                                                 *)

Crosses(s, agg, resting) == IF s = "Bid" THEN agg >= resting ELSE agg <= resting

(* Level l of side s has the better price.                                 *)
Better(s, l, m) == IF s = "Bid" THEN l > m ELSE l < m

(* next_occupied_below, next_occupied_above: the best of the occupied      *)
(* levels that are worse than l.                                           *)
NextWorse(s, l) ==
  LET worse == {m \in occupied[s] : Better(s, l, m)}
  IN  IF worse = {} THEN NIL
      ELSE CHOOSE m \in worse : \A n \in worse \ {m} : Better(s, m, n)

Linked(lv, i, qty) == [head |-> IF lv.head = NIL THEN i ELSE lv.head,
                       tail |-> i, total |-> lv.total + qty, count |-> lv.count + 1]

Unlinked(lv, slot) ==
  [head |-> IF slot.prev = NIL THEN slot.next ELSE lv.head,
   tail |-> IF slot.next = NIL THEN slot.prev ELSE lv.tail,
   total |-> lv.total - slot.order.remaining,
   count |-> lv.count - 1]

(* What link_tail and unlink leave in the bitmap and in the cached best.   *)
OccupiedAfterLink(s, l) ==
  IF levels[s][l].count = 0 THEN occupied[s] \cup {l} ELSE occupied[s]

BestAfterLink(s, l) ==
  IF levels[s][l].count = 0 /\ (best[s] = NIL \/ Better(s, l, best[s]))
  THEN l ELSE best[s]

(* Mutant: the cached best is not rescanned.                               *)
BestAfterUnlinkMut(s, l) == best[s]
BestAfterUnlink(s, l) ==
  IF levels[s][l].count = 1 /\ best[s] = l THEN NextWorse(s, l) ELSE best[s]

OccupiedAfterUnlink(s, l) ==
  IF levels[s][l].count = 1 THEN occupied[s] \ {l} ELSE occupied[s]

(* Mutant: the freed slot cuts the free list off.                          *)
SplicedOutMut(i, j) ==
  IF j = i THEN FreeSlot(NIL)
  ELSE [slots[j] EXCEPT !.next = IF j = slots[i].prev THEN slots[i].next ELSE @,
                        !.prev = IF j = slots[i].next THEN slots[i].prev ELSE @]
(* Slot j after slot i has been spliced out of its level and pushed on the *)
(* free list.                                                              *)
SplicedOut(i, j) ==
  IF j = i THEN FreeSlot(freeHead)
  ELSE [slots[j] EXCEPT !.next = IF j = slots[i].prev THEN slots[i].next ELSE @,
                        !.prev = IF j = slots[i].next THEN slots[i].prev ELSE @]

Unindexed(id) == [index EXCEPT ![id] = NIL]

(* unlink_and_free: the O(1) cancel path, also used for makers.            *)
UnlinkAndFree(i) ==
  LET s == slots[i].order.side
      l == slots[i].level
  IN  /\ slots' = [j \in SlotIdxs |-> SplicedOut(i, j)]
      /\ freeHead' = i
      /\ len' = len - 1
      /\ levels' = [levels EXCEPT ![s][l] = Unlinked(@, slots[i])]
      /\ occupied' = [occupied EXCEPT ![s] = OccupiedAfterUnlink(s, l)]
      /\ best' = [best EXCEPT ![s] = BestAfterUnlink(s, l)]
      /\ index' = Unindexed(slots[i].order.id)

-----------------------------------------------------------------------------
(* Walking the book without changing it.                                   *)

(* `first`, and then `next` after `next`, up to one slot more than there   *)
(* are: a walk that runs in a circle repeats a slot.                       *)
Visited(first) ==
  LET node[k \in 1 .. MaxLiveOrders + 1] ==
        IF k = 1 THEN first
        ELSE LET p == node[k - 1] IN IF p = NIL THEN NIL ELSE slots[p].next
  IN  node

Walk(first) ==
  LET node == Visited(first)
  IN  [k \in 1 .. Cardinality({j \in 1 .. MaxLiveOrders + 1 : node[j] # NIL}) |-> node[k]]

(* The FIFO of a level, oldest first.                                      *)
Fifo(s, l) == Walk(levels[s][l].head)

(* next_occupied_worse, as a walk uses it: from order i along the links,    *)
(* and from the end of a level to the head of the next.                    *)
HeadOf(s, l) == IF l = NIL THEN NIL ELSE levels[s][l].head

After(s, i) == IF slots[i].next # NIL THEN slots[i].next
               ELSE HeadOf(s, NextWorse(s, slots[i].level))

(* The slots of side s in the order in which the book is walked, from the  *)
(* head of the cached best level on; no walk is longer than the arena.     *)
Nodes(s) ==
  LET node[k \in 1 .. MaxLiveOrders] ==
        IF k = 1 THEN HeadOf(s, best[s])
        ELSE LET p == node[k - 1] IN IF p = NIL THEN NIL ELSE After(s, p)
  IN  node

Line(s) ==
  LET node == Nodes(s)
  IN  [k \in 1 .. Cardinality({j \in 1 .. MaxLiveOrders : node[j] # NIL}) |-> node[k]]

OrdersInLine(s) == LET line == Line(s) IN [k \in DOMAIN line |-> slots[line[k]].order]

(* The levels of a walk: the cached best and the occupied ones worse.      *)
LevelsWalked(s) ==
  {l \in LevelIdxs :
     l = best[s] \/ (best[s] # NIL /\ l \in occupied[s] /\ Better(s, best[s], l))}

(* What the levels within the limit of t hold together.                    *)
TotalWithin(t) ==
  LET s == Opposite(t.side)
  IN  SumFunctionOnSet([l \in LevelIdxs |-> levels[s][l].total],
                       {l \in LevelsWalked(s) : Crosses(t.side, t.price, IdxToPrice(l))})

(* Mutant: the totals are used under STP too.                              *)
CanFillFullyMutStp(t) == t.remaining <= TotalWithin(t)
(* can_fill_fully: without STP the level totals are the fillable quantity; *)
(* with STP the FIFOs are walked, own orders are skipped (CancelResting)   *)
(* or end the walk.                                                        *)
CanFillFully(t) ==
  LET line == Line(Opposite(t.side))
      order(i) == slots[line[i]].order
      own(i) == order(i).trader = t.trader
      reached(i) == Crosses(t.side, t.price, IdxToPrice(slots[line[i]].level))
      counted == {i \in DOMAIN line :
                    /\ ~ own(i)
                    /\ \A j \in 1 .. i : reached(j) /\ (own(j) => t.stp = "CancelResting")}
  IN  IF t.stp = "None" THEN t.remaining <= TotalWithin(t)
      ELSE t.remaining <= SumFunctionOnSet([i \in DOMAIN line |-> order(i).remaining], counted)

(* state_hash (hash.rs): of each side the occupied levels, ascending, with *)
(* their aggregates and their FIFO.                                        *)
(* Mutant: the slot is hashed with the order.                              *)
StateHashMut ==
  [s \in Sides |->
     LET occ == Ascending(occupied[s])
     IN  [k \in DOMAIN occ |->
            LET lv == levels[s][occ[k]]
                q == Fifo(s, occ[k])
            IN  <<occ[k], lv.total, lv.count, [j \in DOMAIN q |-> Append(Hashed(slots[q[j]].order), q[j])]>>]]
StateHash ==
  [s \in Sides |->
     LET occ == Ascending(occupied[s])
     IN  [k \in DOMAIN occ |->
            LET lv == levels[s][occ[k]]
                q == Fifo(s, occ[k])
            IN  <<occ[k], lv.total, lv.count, [j \in DOMAIN q |-> Hashed(slots[q[j]].order)]>>]]

Quiescent == taker = NoOrder /\ out = <<>>

-----------------------------------------------------------------------------
(* The three inputs.                                                       *)

(* Mutant: the arena is never seen to be full.                             *)
IsFullMut == len > MaxLiveOrders
IsFull == freeHead = NIL

NewVerdict(t) ==
  IF t.remaining = 0 THEN "ZeroQty"
  ELSE IF index[t.id] # NIL THEN "DuplicateOrderId"
  ELSE IF ~ OnGrid(t.price) THEN "PriceOutOfBounds"
  ELSE IF IsFull THEN "ArenaFull"
  ELSE IF t.tif = "Fok" /\ ~ CanFillFully(t) THEN "FokUnfillable"
  ELSE "Accepted"

ApplyNew(id, tr, s, p, q, tif, stp) ==
  LET t == [id |-> id, trader |-> tr, side |-> s, price |-> p,
            original |-> q, remaining |-> q, tif |-> tif, stp |-> stp]
  IN  /\ Quiescent
      /\ UNCHANGED <<arena, sides, index, lvl, cur>>
      /\ \/ /\ NewVerdict(t) = "Accepted"
            /\ taker' = t
            /\ out' = Pushed(out, Ack(id))
         \/ /\ NewVerdict(t) # "Accepted"
            /\ out' = Pushed(out, Rejected(id, NewVerdict(t)))
            /\ UNCHANGED taker

CancelVerdict(id, tr) ==
  IF index[id] = NIL THEN "UnknownOrderId"
  ELSE IF slots[index[id]].order.trader # tr THEN "WrongTrader"
  ELSE "Accepted"

ApplyCancel(id, tr) ==
  /\ Quiescent
  /\ UNCHANGED <<taker, lvl, cur>>
  /\ \/ /\ CancelVerdict(id, tr) = "Accepted"
        /\ UnlinkAndFree(index[id])
        /\ out' = Pushed(out, Cancelled(id, slots[index[id]].order.remaining, "User"))
     \/ /\ CancelVerdict(id, tr) # "Accepted"
        /\ out' = Pushed(out, Rejected(id, CancelVerdict(id, tr)))
        /\ UNCHANGED <<arena, sides, index>>

(* Mutant: the quantity is looked at before the owner.                     *)
ModifyVerdictMut(id, tr, p, q) ==
  IF index[id] # NIL /\ q = 0 THEN "ZeroQty"
  ELSE IF CancelVerdict(id, tr) # "Accepted" THEN CancelVerdict(id, tr)
  ELSE IF ~ OnGrid(p) THEN "PriceOutOfBounds"
  ELSE "Accepted"
ModifyVerdict(id, tr, p, q) ==
  IF CancelVerdict(id, tr) # "Accepted" THEN CancelVerdict(id, tr)
  ELSE IF q = 0 THEN "ZeroQty"
  ELSE IF ~ OnGrid(p) THEN "PriceOutOfBounds"
  ELSE "Accepted"

ApplyModify(id, tr, p, q) ==
  /\ Quiescent
  /\ UNCHANGED <<lvl, cur>>
  /\ \/ /\ ModifyVerdict(id, tr, p, q) = "Accepted"
        /\ LET o == slots[index[id]].order
           IN  /\ UnlinkAndFree(index[id])
               /\ taker' = [id |-> id, trader |-> tr, side |-> o.side,
                            price |-> p, original |-> q, remaining |-> q,
                            tif |-> "Gtc", stp |-> o.stp]
               /\ out' = Pushed(Pushed(out, Cancelled(id, o.remaining, "User")),
                                Ack(id))
     \/ /\ ModifyVerdict(id, tr, p, q) # "Accepted"
        /\ out' = Pushed(out, Rejected(id, ModifyVerdict(id, tr, p, q)))
        /\ UNCHANGED <<arena, sides, index, taker>>

-----------------------------------------------------------------------------
(* cross: level by level; fill_at_level: maker by maker.                   *)

Opp == Opposite(taker.side)
Maker == slots[cur].order

Marketable == /\ best[Opp] # NIL
              /\ Crosses(taker.side, taker.price, IdxToPrice(best[Opp]))

EnterLevel == /\ taker # NoOrder
              /\ lvl = NIL
              /\ taker.remaining > 0
              /\ Marketable
              /\ lvl' = best[Opp]
              /\ cur' = levels[Opp][best[Opp]].head
              /\ UNCHANGED <<arena, sides, index, taker, out>>

LeaveLevel == /\ lvl # NIL
              /\ cur = NIL \/ taker.remaining = 0
              /\ lvl' = NIL
              /\ cur' = NIL
              /\ UNCHANGED <<arena, sides, index, taker, out>>

AtMaker == lvl # NIL /\ cur # NIL /\ taker.remaining > 0

SelfTrade == taker.stp # "None" /\ Maker.trader = taker.trader

(* Mutant: `next` is read from the slot after it was freed.                *)
NextMakerMut == IF taker.remaining >= Maker.remaining THEN freeHead ELSE slots[cur].next
(* `next`, read before the maker's slot is freed.                          *)
NextMaker == slots[cur].next

(* A maker that is used up is unlinked after its remaining and the level   *)
(* total were reduced by what it filled: together, by all it had.          *)
FillMaker ==
  LET q == Smaller(taker.remaining, Maker.remaining)
  IN  /\ AtMaker
      /\ ~ SelfTrade
      /\ out' = Pushed(out, Fill(taker, Maker.id, Maker.price, q))
      /\ taker' = [taker EXCEPT !.remaining = @ - q]
      /\ IF q = Maker.remaining
         THEN UnlinkAndFree(cur)
         ELSE /\ slots' = [slots EXCEPT ![cur].order.remaining = @ - q]
              /\ levels' = [levels EXCEPT ![Opp][lvl].total = @ - q]
              /\ UNCHANGED <<freeHead, len, occupied, best, index>>
      /\ cur' = NextMaker
      /\ UNCHANGED lvl

(* Mutant: what was entered is reported, not what was left.                *)
StpCancelledMut(o) == Cancelled(o.id, o.original, "SelfTradePrevention")
StpCancelled(o) == Cancelled(o.id, o.remaining, "SelfTradePrevention")

StpCancelResting ==
  /\ AtMaker
  /\ SelfTrade
  /\ taker.stp = "CancelResting"
  /\ UnlinkAndFree(cur)
  /\ out' = Pushed(out, StpCancelled(Maker))
  /\ cur' = NextMaker
  /\ UNCHANGED <<taker, lvl>>

StpCancelAggressor ==
  /\ AtMaker
  /\ SelfTrade
  /\ taker.stp = "CancelAggressor"
  /\ out' = Pushed(out, StpCancelled(taker))
  /\ taker' = NoOrder
  /\ lvl' = NIL
  /\ cur' = NIL
  /\ UNCHANGED <<arena, sides, index>>

StpCancelBoth ==
  /\ AtMaker
  /\ SelfTrade
  /\ taker.stp = "CancelBoth"
  /\ UnlinkAndFree(cur)
  /\ out' = Pushed(Pushed(out, StpCancelled(Maker)), StpCancelled(taker))
  /\ taker' = NoOrder
  /\ lvl' = NIL
  /\ cur' = NIL

-----------------------------------------------------------------------------
(* After cross.                                                            *)

CrossDone == /\ taker # NoOrder
             /\ lvl = NIL
             /\ taker.remaining = 0 \/ ~ Marketable

FinishFilled == /\ CrossDone
                /\ taker.remaining = 0
                /\ taker' = NoOrder
                /\ UNCHANGED <<arena, sides, index, lvl, cur, out>>

(* rest: alloc, fill the slot, link_tail, index.insert.  Without a free    *)
(* slot the remainder is lost with a rejection (FreeSlotForTaker: never).  *)
RestRemainder ==
  LET s == taker.side
      l == PriceToIdx(taker.price)
      i == freeHead
      tail == levels[s][l].tail
  IN  /\ CrossDone
      /\ taker.remaining > 0
      /\ taker.tif = "Gtc"
      /\ taker' = NoOrder
      /\ UNCHANGED <<lvl, cur>>
      /\ IF i = NIL
         THEN /\ out' = Pushed(out, Rejected(taker.id, "ArenaFull"))
              /\ UNCHANGED <<arena, sides, index>>
         ELSE /\ freeHead' = slots[i].next
              /\ len' = len + 1
              /\ slots' = [j \in SlotIdxs |->
                             IF j = i THEN [order |-> Resting(taker), level |-> l,
                                            prev |-> tail, next |-> NIL]
                             ELSE [slots[j] EXCEPT !.next = IF j = tail THEN i ELSE @]]
              /\ levels' = [levels EXCEPT ![s][l] = Linked(@, i, taker.remaining)]
              /\ occupied' = [occupied EXCEPT ![s] = OccupiedAfterLink(s, l)]
              /\ best' = [best EXCEPT ![s] = BestAfterLink(s, l)]
              /\ index' = [index EXCEPT ![taker.id] = i]
              /\ UNCHANGED out

KillRemainder ==
  /\ CrossDone
  /\ taker.remaining > 0
  /\ taker.tif \in {"Ioc", "Fok"}
  /\ out' = Pushed(out, Cancelled(taker.id, taker.remaining, "Ioc"))
  /\ taker' = NoOrder
  /\ UNCHANGED <<arena, sides, index, lvl, cur>>

Proceed == \/ EnterLevel
           \/ LeaveLevel
           \/ FillMaker
           \/ StpCancelResting
           \/ StpCancelAggressor
           \/ StpCancelBoth
           \/ FinishFilled
           \/ RestRemainder
           \/ KillRemainder

(* EventBuffer::clear, by the caller before its next apply.                *)
Drain == /\ taker = NoOrder
         /\ out # <<>>
         /\ out' = <<>>
         /\ UNCHANGED <<arena, sides, index, taker, lvl, cur>>

Next == \/ \E id \in OrderIds, tr \in TraderIds, s \in Sides, p \in InPrices,
              q \in InQtys, tif \in InTifs, stp \in InStps :
             ApplyNew(id, tr, s, p, q, tif, stp)
        \/ \E id \in OrderIds, tr \in TraderIds : ApplyCancel(id, tr)
        \/ \E id \in OrderIds, tr \in TraderIds, p \in InPrices, q \in InQtys :
             ApplyModify(id, tr, p, q)
        \/ Proceed
        \/ Drain

(* apply() runs to its end once called; nothing makes a caller call it.    *)
Spec == Init /\ [][Next]_vars /\ WF_vars(Proceed)

-----------------------------------------------------------------------------
(* Invariants.  I1 and I3 to I9 of docs/02_TECHNICAL_DESIGN.md are those   *)
(* that Validator.tla states.                                              *)

(* I3, I4: a bit is set exactly while its level has orders, and the cached *)
(* best is the best such level, or NIL.                                    *)
BestIsTrue ==
  \A s \in Sides :
    LET live == {l \in LevelIdxs : levels[s][l].count > 0}
    IN  /\ occupied[s] = live
        /\ IF live = {} THEN best[s] = NIL
           ELSE best[s] \in live /\ \A l \in live : ~ Better(s, l, best[s])

(* The slot that the order in the match loop may need is still there when  *)
(* it gets to rest: the defensive ArenaFull arm of rest() is dead, for a   *)
(* Modify too, which never looks at the free list.                         *)
FreeSlotForTaker == taker # NoOrder => freeHead # NIL

(* fill_at_level's cursor is what the code takes it for: the head of the   *)
(* best level, whose earlier orders are all gone, or NIL when that level   *)
(* has been used up.                                                       *)
CursorAtHead ==
  cur # NIL =>
    \/ taker.remaining = 0
    \/ /\ best[Opp] = lvl
       /\ levels[Opp][lvl].head = cur
       /\ slots[cur].order # NoOrder

-----------------------------------------------------------------------------
(* The fast engine implements the oracle: reading every side's queues best *)
(* level first gives the oracle's sorted vectors, and the events are the   *)
(* same one by one ("must reproduce its output streams byte-for-byte",     *)
(* book.rs:3-5).                                                           *)
OracleBook == [s \in Sides |-> OrdersInLine(s)]

Oracle == INSTANCE ReferenceBook WITH book <- OracleBook

ImplementsOracle == Oracle!Spec

=============================================================================
