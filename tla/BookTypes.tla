------------------------------ MODULE BookTypes ------------------------------
(***************************************************************************)
(* The vocabulary both engines share (src/crates/core/src/types.rs and     *)
(* events.rs): sides, order attributes and the output events.  The         *)
(* sequence number an event carries is left out: it is a copy of the       *)
(* input's, the same for all events of one apply.                          *)
(***************************************************************************)
EXTENDS PriceGrid, Sequences, FiniteSets

CONSTANTS OrderIds, TraderIds,
          MaxLiveOrders,    \* arena capacity, max_live_orders
          InPrices,         \* prices that inputs carry, on the grid or not
          InQtys,           \* quantities that inputs carry, zero included
          InTifs, InStps,   \* order attributes that inputs carry
          NoOrder           \* "no order": nothing in the match loop, a free slot

Tifs == {"Gtc", "Ioc", "Fok"}
Stps == {"None", "CancelResting", "CancelAggressor", "CancelBoth"}
Sides == {"Bid", "Ask"}

Opposite(s) == IF s = "Bid" THEN "Ask" ELSE "Bid"

(* An order on its way through apply: `remaining` and `killed` are locals  *)
(* of the match loop, the rest are the fields of the input.                *)
Takers == [id : OrderIds, trader : TraderIds, side : Sides, price : I64,
           original : Nat, remaining : Nat, tif : Tifs, stp : Stps]

(* An order at rest (RefOrder; the data fields of OrderSlot).              *)
Order == [id : OrderIds, trader : TraderIds, side : Sides, price : I64,
          remaining : Nat, original : Nat, stp : Stps]

ASSUME BookAssumption == /\ MaxLiveOrders \in Nat \ {0}
                         /\ InPrices \subseteq I64
                         /\ InQtys \subseteq Nat
                         /\ InTifs \subseteq Tifs
                         /\ InStps \subseteq Stps
                         /\ NoOrder \notin Takers \cup Order

(* What is left of an order when it comes to rest.                         *)
Resting(t) == [id |-> t.id, trader |-> t.trader, side |-> t.side,
               price |-> t.price, remaining |-> t.remaining,
               original |-> t.original, stp |-> t.stp]

(* Output events.  A Fill always carries the maker's price.                *)
Event == [ev : {"Ack"}, id : OrderIds]
           \cup [ev : {"Fill"}, id : OrderIds, maker : OrderIds,
                 price : I64, qty : Nat, side : Sides]
           \cup [ev : {"Cancelled"}, id : OrderIds, remaining : Nat,
                 reason : {"User", "Ioc", "SelfTradePrevention"}]
           \cup [ev : {"Rejected"}, id : OrderIds,
                 reason : {"DuplicateOrderId", "UnknownOrderId",
                           "PriceOutOfBounds", "ZeroQty", "FokUnfillable",
                           "ArenaFull", "WrongTrader"}]

Ack(id) == [ev |-> "Ack", id |-> id]
Fill(t, maker, price, qty) ==
  [ev |-> "Fill", id |-> t.id, maker |-> maker, price |-> price,
   qty |-> qty, side |-> t.side]
Cancelled(id, remaining, reason) ==
  [ev |-> "Cancelled", id |-> id, remaining |-> remaining, reason |-> reason]
Rejected(id, reason) == [ev |-> "Rejected", id |-> id, reason |-> reason]

(* What a state hash feeds to FNV-1a (core/src/hash.rs).  The digest itself *)
(* is left out: a hash is the words it is computed from, each of a fixed   *)
(* width, the orders of a level after their number.  Of an order it takes  *)
(* neither stp nor the original quantity.                                  *)
Hashed(o) == <<o.id, o.price, o.remaining, o.trader>>

(* The elements of S from the first to the last, R being the pairs whose   *)
(* first does not come after the second.                                   *)
Listed(S, R) ==
  [n \in 1 .. Cardinality(S) |->
     CHOOSE x \in S : Cardinality({y \in S : <<y, x>> \in R}) = n]

Ascending(S) == Listed(S, {r \in S \X S : r[1] <= r[2]})

(* Mutant: the larger of the two is filled.                                *)
SmallerMut(a, b) == IF a <= b THEN b ELSE a
Smaller(a, b) == IF a <= b THEN a ELSE b

=============================================================================
