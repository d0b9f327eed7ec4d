----------------------------- MODULE OrderIndex -----------------------------
(***************************************************************************)
(* The id index, src/crates/core/src/order_index.rs: an open-addressed,    *)
(* linearly probed table.  A removed entry becomes a tombstone, which a    *)
(* probe passes over and an insertion may reuse; no tombstone ever becomes *)
(* empty again.                                                            *)
(*                                                                         *)
(* Home[k] stands for mix(k) & mask.  The bits of splitmix64 do not matter *)
(* to the table, so Home is any function at all.                           *)
(***************************************************************************)
EXTENDS Integers, FiniteSets

CONSTANTS Keys, Vals, MaxLive, None, Home, Cap

(* with_capacity: the smallest power of two that is at least 8 and twice   *)
(* the number of live orders.                                              *)
IsCapacity(c) == /\ \E e \in 3 .. 31 : c = 2 ^ e
                 /\ c >= 2 * MaxLive
                 /\ c = 8 \/ c < 4 * MaxLive

CellIdxs == 0 .. Cap - 1

ASSUME IndexAssumption == /\ MaxLive \in Nat \ {0}
                          /\ Cap \in Nat /\ IsCapacity(Cap)
                          /\ Home \in [Keys -> CellIdxs]
                          /\ None \notin Vals

VARIABLES
  ctrl,          \* CTRL_EMPTY, CTRL_FULL or CTRL_TOMBSTONE
  keys, vals,    \* read where ctrl is Full only
  len

vars == <<ctrl, keys, vals, len>>

TypeOK == /\ ctrl \in [CellIdxs -> {"Empty", "Full", "Tombstone"}]
          /\ keys \in [CellIdxs -> Keys \cup {None}]
          /\ vals \in [CellIdxs -> Vals \cup {None}]
          /\ len \in 0 .. MaxLive

(* keys and vals of a cell never written are zero in the code.             *)
Init == /\ ctrl = [c \in CellIdxs |-> "Empty"]
        /\ keys = [c \in CellIdxs |-> None]
        /\ vals = [c \in CellIdxs |-> None]
        /\ len = 0

-----------------------------------------------------------------------------
(* Probing.                                                                *)

(* The cell that a probe for k looks at after d others.                    *)
Probed(k, d) == (Home[k] + d) % Cap

Holds(k, d) == ctrl[Probed(k, d)] = "Full" /\ keys[Probed(k, d)] = k

(* Mutant: a tombstone ends the probe.                                     *)
ReachesMut(k, d) ==
  \A e \in 0 .. d - 1 : ctrl[Probed(k, e)] = "Full" /\ ~ Holds(k, e)
(* The loop of get and remove gets as far as the cell after d others.      *)
Reaches(k, d) ==
  \A e \in 0 .. d - 1 : ctrl[Probed(k, e)] # "Empty" /\ ~ Holds(k, e)

Hits(k) == {d \in CellIdxs : Reaches(k, d) /\ Holds(k, d)}

Contains(k) == Hits(k) # {}

Get(k) == IF Contains(k) THEN vals[Probed(k, CHOOSE d \in Hits(k) : TRUE)] ELSE None

(* Mutant: the last free cell before an empty one is taken, not the first. *)
TargetMut(k, d) ==
  /\ ctrl[Probed(k, d)] = "Empty"
  /\ \A e \in 0 .. d - 1 : ctrl[Probed(k, e)] # "Empty"
(* insert takes the first tombstone before the first empty cell, or that   *)
(* cell: the first cell on the path that is not full.                      *)
Target(k, d) == /\ ctrl[Probed(k, d)] # "Full"
                /\ \A e \in 0 .. d - 1 : ctrl[Probed(k, e)] = "Full"

-----------------------------------------------------------------------------
(* Operations.  OrderBook inserts an id it has just looked up in vain, and *)
(* only with an arena slot in hand, so at most MaxLive ids are in.         *)

Insert(k, v) ==
  /\ ~ Contains(k)
  /\ len < MaxLive
  /\ \E d \in CellIdxs :
       /\ Target(k, d)
       /\ ctrl' = [ctrl EXCEPT ![Probed(k, d)] = "Full"]
       /\ keys' = [keys EXCEPT ![Probed(k, d)] = k]
       /\ vals' = [vals EXCEPT ![Probed(k, d)] = v]
  /\ len' = len + 1

(* A miss changes nothing.                                                 *)
Remove(k) == \E d \in Hits(k) :
               /\ ctrl' = [ctrl EXCEPT ![Probed(k, d)] = "Tombstone"]
               /\ len' = len - 1
               /\ UNCHANGED <<keys, vals>>

Next == \/ \E k \in Keys, v \in Vals : Insert(k, v)
        \/ \E k \in Keys : Remove(k)

Spec == Init /\ [][Next]_vars

-----------------------------------------------------------------------------
(* Properties.                                                             *)

(* What get() answers is a map: an operation on one id never changes the   *)
(* answer for another, whatever collides with whatever.                    *)
Map == INSTANCE IndexMap WITH map <- [k \in Keys |-> Get(k)]

ImplementsMap == Map!Spec

(* insert finds a cell whenever it is allowed to be called ("len <=        *)
(* max_live <= cap/2 guarantees a free slot exists", order_index.rs:108):  *)
(* len counts the full cells, whatever became tombstones.                  *)
InsertHasRoom ==
  /\ len = Cardinality({c \in CellIdxs : ctrl[c] = "Full"})
  /\ len < MaxLive => \A k \in Keys : \E d \in CellIdxs : Target(k, d)

(* "Sized at 2x the arena capacity (load factor <= 0.5) so probe chains    *)
(* stay short" (order_index.rs:5-6), in its weakest reading: no probe has  *)
(* to look at every cell of the table before it knows that an id is not    *)
(* there.                                                                  *)
ProbeChainsStayShort ==
  \A k \in Keys : ~ Contains(k) => \E d \in CellIdxs : ctrl[Probed(k, d)] = "Empty"

=============================================================================
