--------------------------- MODULE OccupancyBitmap ---------------------------
(***************************************************************************)
(* The occupancy bitmap of one side, src/crates/core/src/book_side.rs: one *)
(* bit for each price level in words of W bits (64 in the code), scanned   *)
(* word by word for the next occupied level.  A word is the set of its set *)
(* bits.  A shift distance is taken modulo W, as the shift instruction of  *)
(* a release build does; distance W is what the code has to avoid.         *)
(*                                                                         *)
(* OrderBook.tla uses the set of occupied levels and its neighbours in     *)
(* order in place of this bitmap.  As there, a level is found from a price *)
(* (price_to_idx) and read back as one (idx_to_price, best_bid).           *)
(***************************************************************************)
EXTENDS PriceGrid, FiniteSetsExt

CONSTANT W    \* bits of a word

ASSUME BitmapAssumption == W \in Nat \ {0}

Bits == 0 .. W - 1

(* num_levels.div_ceil(64)                                                 *)
NumWords == (NumLevels + W - 1) \div W
LastWord == NumWords - 1

VARIABLES
  words,     \* BookSide::occupied
  entered    \* history: the prices at which orders stand

TypeOK == /\ words \in [0 .. LastWord -> SUBSET Bits]
          /\ entered \subseteq I64

Init == /\ words = [w \in 0 .. LastWord |-> {}]
        /\ entered = {}

SetBit(l) == words' = [words EXCEPT ![l \div W] = @ \cup {l % W}]

ClearBit(l) == words' = [words EXCEPT ![l \div W] = @ \ {l % W}]

Bit(l) == l % W \in words[l \div W]

(* u64::MAX << n                                                           *)
OnesFrom(n) == {b \in Bits : b >= n % W}

NextOccupiedBelow(from) ==
  LET masked(w) == IF w = from \div W THEN words[w] \cap 0 .. (from % W) - 1 ELSE words[w]
      hits == {w \in 0 .. from \div W : masked(w) # {}}
  IN  IF hits = {} THEN NIL ELSE Max(hits) * W + Max(masked(Max(hits)))

(* Mutant: no special case for the last bit of a word.                     *)
NextOccupiedAboveMut(from) ==
  LET first == words[from \div W] \cap OnesFrom((from % W) + 1)
      masked(w) == IF w = from \div W THEN first ELSE words[w]
      hits == {w \in from \div W .. LastWord : masked(w) # {}}
  IN  IF hits = {} THEN NIL ELSE Min(hits) * W + Min(masked(Min(hits)))
NextOccupiedAbove(from) ==
  LET first == IF from % W = W - 1 THEN {}
               ELSE words[from \div W] \cap OnesFrom((from % W) + 1)
      masked(w) == IF w = from \div W THEN first ELSE words[w]
      hits == {w \in from \div W .. LastWord : masked(w) # {}}
  IN  IF hits = {} THEN NIL ELSE Min(hits) * W + Min(masked(Min(hits)))

(* scan_true_best: what the validator compares the cached best with.       *)
ScanTrueBest(s) ==
  IF s = "Bid"
  THEN IF Bit(NumLevels - 1) THEN NumLevels - 1 ELSE NextOccupiedBelow(NumLevels - 1)
  ELSE IF Bit(0) THEN 0 ELSE NextOccupiedAbove(0)

(* The first order at price p comes to rest; the last one leaves.          *)
Enter(p) == /\ OnGrid(p)
            /\ SetBit(PriceToIdx(p))
            /\ entered' = entered \cup {p}

Leave(p) == /\ p \in entered
            /\ ClearBit(PriceToIdx(p))
            /\ entered' = entered \ {p}

Next == \E p \in I64 : Enter(p) \/ Leave(p)

Spec == Init /\ [][Next]_<<words, entered>>

-----------------------------------------------------------------------------
(* Properties.                                                             *)

Occupied == {l \in LevelIdxs : Bit(l)}

(* The scans find the neighbours of every level among the occupied ones,   *)
(* across word boundaries, from the first and the last bit of a word and   *)
(* in a last word that is only partly used; and the validator's best (I4)  *)
(* is the best occupied level of either side.                              *)
ScansFindTheNeighbours ==
  LET greatest(levels) == IF levels = {} THEN NIL ELSE Max(levels)
      least(levels) == IF levels = {} THEN NIL ELSE Min(levels)
  IN  /\ \A l \in LevelIdxs :
           /\ NextOccupiedBelow(l) = greatest({m \in Occupied : m < l})
           /\ NextOccupiedAbove(l) = least({m \in Occupied : m > l})
      /\ ScanTrueBest("Bid") = greatest(Occupied)
      /\ ScanTrueBest("Ask") = least(Occupied)

(* The occupied levels read back as exactly the prices entered, one level  *)
(* for each, also when the grid runs past the end of i64: what lies beyond *)
(* is turned away and never wraps around onto a level ("never wraps",      *)
(* config.rs:30).                                                          *)
LevelsReadBackAsPrices == {IdxToPrice(l) : l \in Occupied} = entered

=============================================================================
