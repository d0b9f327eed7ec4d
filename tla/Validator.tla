------------------------------ MODULE Validator ------------------------------
(***************************************************************************)
(* The invariant checker of the fast engine, src/crates/core/src/          *)
(* validate.rs, which tests and the fuzzer call after every event, and the *)
(* damage it is there to find.                                             *)
(*                                                                         *)
(* Validate is TRUE where validate() returns Ok; which of the violations   *)
(* is reported first is left out.  It walks whatever links it finds, so    *)
(* its walks are bounded as the code bounds them: the book may be damaged. *)
(*                                                                         *)
(* Damage is external: it stands for an engine bug that leaves one field   *)
(* wrong, as those of docs/BUGS.md do.  The harness stops at the first     *)
(* violation, so nothing else happens to a damaged book.                   *)
(***************************************************************************)
EXTENDS OrderBook

VARIABLE damaged    \* a field was made wrong

-----------------------------------------------------------------------------
(* The slots that the queues of a side lead to.                            *)
LinkedIn(s) == UNION {ToSet(Fifo(s, l)) : l \in {m \in LevelIdxs : levels[s][m].count > 0}}

(* A slot at its place in a queue (I6, I7, I9).  A free slot is in no      *)
(* index: its stale id is unknown or is that of another slot.              *)
ValidLink(s, l, q, k) ==
  LET slot == slots[q[k]]
  IN  /\ slot.prev = IF k = 1 THEN NIL ELSE q[k - 1]
      /\ slot.level = l
      /\ slot.order # NoOrder
      /\ slot.order.side = s
      /\ slot.order.remaining # 0
      /\ index[slot.order.id] = q[k]
      /\ \A j \in 1 .. k - 1 : q[j] # q[k]

(* Mutant: where the walk ends is not compared with the tail.              *)
ValidLevelMut(s, l) ==
  LET lv == levels[s][l]
      q == Fifo(s, l)
  IN  /\ l \in occupied[s] <=> lv.count > 0
      /\ lv.count = 0 => lv = EmptyLevel
      /\ lv.count > 0 => /\ Len(q) = lv.count
                         /\ \A k \in DOMAIN q : ValidLink(s, l, q, k)
                         /\ SumFunction([k \in DOMAIN q |-> slots[q[k]].order.remaining]) = lv.total
(* One level of validate_side (I3, I5, I6).                                *)
ValidLevel(s, l) ==
  LET lv == levels[s][l]
      q == Fifo(s, l)
  IN  /\ l \in occupied[s] <=> lv.count > 0
      /\ lv.count = 0 => lv = EmptyLevel
      /\ lv.count > 0 => /\ Len(q) = lv.count
                         /\ \A k \in DOMAIN q : ValidLink(s, l, q, k)
                         /\ Last(q) = lv.tail
                         /\ SumFunction([k \in DOMAIN q |-> slots[q[k]].order.remaining]) = lv.total

BestOf(s, ls) ==
  IF ls = {} THEN NIL ELSE CHOOSE l \in ls : \A m \in ls \ {l} : Better(s, l, m)

(* The cached best is the best level seen and what the bitmap says (I4).   *)
ValidSide(s) ==
  /\ \A l \in LevelIdxs : ValidLevel(s, l)
  /\ best[s] = BestOf(s, {l \in LevelIdxs : levels[s][l].count > 0})
  /\ best[s] = BestOf(s, occupied[s])

NotCrossed ==
  best["Bid"] # NIL /\ best["Ask"] # NIL => IdxToPrice(best["Bid"]) < IdxToPrice(best["Ask"])

(* I8: the free list and the live slots are all slots, and disjoint.       *)
ValidFreeList(live) ==
  LET free == Walk(freeHead)
  IN  /\ Len(free) + len = MaxLiveOrders
      /\ ToSet(free) \cap live = {}
      /\ IsInjective(free)

Validate ==
  LET live == LinkedIn("Bid") \cup LinkedIn("Ask")
  IN  /\ \A s \in Sides : ValidSide(s)
      /\ LinkedIn("Bid") \cap LinkedIn("Ask") = {}
      /\ NotCrossed
      /\ Cardinality(live) = len
      /\ Cardinality({id \in OrderIds : index[id] # NIL}) = len
      /\ ValidFreeList(live)

-----------------------------------------------------------------------------
(* Damage to one field: a link, id, side, bit or cached best becomes any    *)
(* other, a slot's level another level, and a number is off by one.        *)

Link == SlotIdxs \cup {NIL}
Off(n) == {n - 1, n + 1} \cap Nat

DamageSlot ==
  /\ \E i \in SlotIdxs :
       \/ \E v \in Link \ {slots[i].next} : slots' = [slots EXCEPT ![i].next = v]
       \/ /\ slots[i].order # NoOrder
          /\ \/ \E v \in Link \ {slots[i].prev} : slots' = [slots EXCEPT ![i].prev = v]
             \/ \E l \in LevelIdxs \ {slots[i].level} : slots' = [slots EXCEPT ![i].level = l]
             \/ slots' = [slots EXCEPT ![i].order.side = Opposite(@)]
             \/ \E n \in Off(slots[i].order.remaining) :
                  slots' = [slots EXCEPT ![i].order.remaining = n]
             \/ \E id \in OrderIds \ {slots[i].order.id} :
                  slots' = [slots EXCEPT ![i].order.id = id]
  /\ UNCHANGED <<freeHead, len, sides, index>>

DamageLevel ==
  /\ \E s \in Sides, l \in LevelIdxs :
       \/ \E v \in Link \ {levels[s][l].head} : levels' = [levels EXCEPT ![s][l].head = v]
       \/ \E v \in Link \ {levels[s][l].tail} : levels' = [levels EXCEPT ![s][l].tail = v]
       \/ \E n \in Off(levels[s][l].total) : levels' = [levels EXCEPT ![s][l].total = n]
       \/ \E n \in Off(levels[s][l].count) : levels' = [levels EXCEPT ![s][l].count = n]
  /\ UNCHANGED <<arena, occupied, best, index>>

DamageCache ==
  /\ \E s \in Sides :
       \/ /\ \E l \in LevelIdxs :
               occupied' = [occupied EXCEPT ![s] = SymDiff(@, {l})]
          /\ UNCHANGED best
       \/ /\ \E l \in (LevelIdxs \cup {NIL}) \ {best[s]} : best' = [best EXCEPT ![s] = l]
          /\ UNCHANGED occupied
  /\ UNCHANGED <<arena, levels, index>>

DamageIndex ==
  /\ \E id \in OrderIds : \E v \in Link \ {index[id]} : index' = [index EXCEPT ![id] = v]
  /\ UNCHANGED <<arena, sides>>

DamageArena ==
  /\ \/ /\ freeHead' \in Link \ {freeHead}
        /\ UNCHANGED len
     \/ /\ len' \in Off(len)
        /\ UNCHANGED freeHead
  /\ UNCHANGED <<slots, sides, index>>

Damage == /\ Quiescent
          /\ ~ damaged
          /\ damaged' = TRUE
          /\ DamageSlot \/ DamageLevel \/ DamageCache \/ DamageIndex \/ DamageArena
          /\ UNCHANGED <<taker, lvl, cur, out>>

-----------------------------------------------------------------------------
(* The checker raises no false alarm: whatever the engine did, and between *)
(* any two steps of an apply, the book passes (validate.rs: "called after  *)
(* every event").  So the engine keeps I1 and I3 to I9.                    *)
ValidatorPasses == ~ damaged => Validate

(* ... and it is not blind: no one wrong link, count, total, bit, cached   *)
(* best, index entry, side, level, id or quantity goes unnoticed.  (What   *)
(* it never looks at can: trader, stp, original and price of an order.)    *)
EveryDamageShows == damaged => ~ Validate

=============================================================================
