------------------------------ MODULE PriceGrid ------------------------------
(***************************************************************************)
(* The price grid of a book (src/crates/core/src/config.rs).  A book knows *)
(* NumLevels prices per side, MinPrice + i * TickSize; every input price   *)
(* goes through PriceToIdx before anything else looks at it.               *)
(*                                                                         *)
(* Prices are i64 in the code.  The width matters in price_to_idx, whose   *)
(* subtraction is checked, so the range is a parameter: a price lies in    *)
(* I64 == -I64Max - 1 .. I64Max.                                           *)
(***************************************************************************)
EXTENDS Integers

CONSTANTS MinPrice, TickSize, NumLevels, I64Max

(* min_price and tick_size are i64, "Must be >= 1" (config.rs), num_levels *)
(* is a u32, which is narrower than an i64.                                *)
ASSUME GridAssumption == /\ I64Max \in Nat
                         /\ MinPrice \in -I64Max - 1 .. I64Max
                         /\ TickSize \in 1 .. I64Max
                         /\ NumLevels \in 1 .. I64Max

I64 == -I64Max - 1 .. I64Max

(* Arena indices and level indices share one "no such index" value, the    *)
(* largest u32.  Any value outside every index range serves.               *)
NIL == -1

LevelIdxs == 0 .. NumLevels - 1

(* Mutant: the subtraction wraps around.                                   *)
PriceToIdxMut(p) ==
  LET off == ((p - MinPrice + I64Max + 1) % (2 * I64Max + 2)) - I64Max - 1
  IN  IF \/ off < 0
         \/ off % TickSize # 0
         \/ off \div TickSize >= NumLevels
      THEN NIL
      ELSE off \div TickSize
(* checked_sub: None when the difference does not fit; NIL stands for None. *)
PriceToIdx(p) ==
  LET off == p - MinPrice
  IN  IF \/ off \notin I64
         \/ off < 0
         \/ off % TickSize # 0
         \/ off \div TickSize >= NumLevels
      THEN NIL
      ELSE off \div TickSize

OnGrid(p) == PriceToIdx(p) # NIL

IdxToPrice(i) == MinPrice + i * TickSize

=============================================================================
