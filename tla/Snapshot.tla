------------------------------ MODULE Snapshot ------------------------------
(***************************************************************************)
(* Snapshot and restore, src/crates/core/src/snapshot.rs: the engine's     *)
(* live orders in canonical order, and the engine rebuilt from them by     *)
(* linking each into a fresh book, without matching.  Slots are handed out *)
(* anew, so only the meaning of the book survives, not its layout.         *)
(*                                                                         *)
(* Restart stands for a process that stops between two applies, after a    *)
(* snapshot, and carries on from it (determinism.rs: a snapshot in the     *)
(* middle and a replay of the rest give what a full replay gives).         *)
(***************************************************************************)
EXTENDS OrderBook

(* Where snapshot() finds an order: in the queue of a level whose bit is   *)
(* set.  It visits bids, then asks; levels ascending; each head to tail.   *)
Places == {p \in [side : Sides, level : LevelIdxs, place : 1 .. MaxLiveOrders] :
             p.level \in occupied[p.side] /\ p.place <= Len(Fifo(p.side, p.level))}

(* Mutant: every level tail to head.                                       *)
NotAfterMut(p, q) ==
  IF p.side # q.side THEN p.side = "Bid"
  ELSE IF p.level # q.level THEN p.level < q.level ELSE p.place >= q.place
NotAfter(p, q) ==
  IF p.side # q.side THEN p.side = "Bid"
  ELSE IF p.level # q.level THEN p.level < q.level ELSE p.place <= q.place

Visits == Listed(Places, {r \in Places \X Places : NotAfter(r[1], r[2])})
SlotAt(p) == Fifo(p.side, p.level)[p.place]

(* snapshot().                                                             *)
SnapOrders == LET v == Visits IN [k \in DOMAIN v |-> slots[SlotAt(v[k])].order]

(* Mutant: a full book does not fit.                                       *)
RestorableMut(os) ==
  /\ Len(os) < MaxLiveOrders
  /\ \A i \in DOMAIN os : OnGrid(os[i].price) /\ os[i].remaining # 0
(* The checks of restore(), each order against those before it.            *)
Restorable(os) ==
  /\ Len(os) <= MaxLiveOrders
  /\ \A i \in DOMAIN os : /\ OnGrid(os[i].price)
                          /\ os[i].remaining # 0
                          /\ \A j \in 1 .. i - 1 : os[j].id # os[i].id

LevelOf(o) == PriceToIdx(o.price)

(* The orders of level l of side s, and those of them before or after i.   *)
Members(os, s, l) == {i \in DOMAIN os : os[i].side = s /\ LevelOf(os[i]) = l}
Peers(os, i) == Members(os, os[i].side, LevelOf(os[i]))

(* The i-th order goes into slot i - 1 (alloc from a fresh arena) and to   *)
(* the tail of its level.                                                  *)
RestoredSlot(os, i) ==
  LET before == {j \in Peers(os, i) : j < i}
      after == {j \in Peers(os, i) : j > i}
  IN  [order |-> os[i], level |-> LevelOf(os[i]),
       prev |-> IF before = {} THEN NIL ELSE Max(before) - 1,
       next |-> IF after = {} THEN NIL ELSE Min(after) - 1]

RestoredLevel(os, s, l) ==
  LET m == Members(os, s, l)
  IN  IF m = {} THEN EmptyLevel
      ELSE [head |-> Min(m) - 1, tail |-> Max(m) - 1,
            total |-> SumFunctionOnSet([i \in DOMAIN os |-> os[i].remaining], m),
            count |-> Cardinality(m)]

RestoredOccupied(os, s) == {l \in LevelIdxs : Members(os, s, l) # {}}

RestoredBest(os, s) ==
  LET occ == RestoredOccupied(os, s)
  IN  IF occ = {} THEN NIL ELSE CHOOSE l \in occ : \A m \in occ \ {l} : Better(s, l, m)

Restore(os) ==
  /\ Restorable(os)
  /\ slots' = [i \in SlotIdxs |->
                 IF i < Len(os) THEN RestoredSlot(os, i + 1)
                 ELSE FreeSlot(IF i + 1 < MaxLiveOrders THEN i + 1 ELSE NIL)]
  /\ freeHead' = IF Len(os) < MaxLiveOrders THEN Len(os) ELSE NIL
  /\ len' = Len(os)
  /\ levels' = [s \in Sides |-> [l \in LevelIdxs |-> RestoredLevel(os, s, l)]]
  /\ occupied' = [s \in Sides |-> RestoredOccupied(os, s)]
  /\ best' = [s \in Sides |-> RestoredBest(os, s)]
  /\ index' = [id \in OrderIds |->
                 LET m == {i \in DOMAIN os : os[i].id = id}
                 IN  IF m = {} THEN NIL ELSE Min(m) - 1]

Restart == /\ Quiescent
           /\ Restore(SnapOrders)
           /\ UNCHANGED <<taker, lvl, cur, out>>

NextOrRestart == Next \/ Restart

-----------------------------------------------------------------------------
(* A snapshot taken between two applies is never refused by restore():     *)
(* whatever reached the book passes the checks again.                      *)
SnapshotRestorable == Quiescent => Restorable(SnapOrders)

=============================================================================
