------------------------------ MODULE IndexMap ------------------------------
(***************************************************************************)
(* What OrderIndex promises its only user, OrderBook: a partial map from   *)
(* order ids to arena slots that never refuses an insertion as long as at  *)
(* most MaxLive ids are in it.  OrderBook.tla uses the index as this map.  *)
(***************************************************************************)
EXTENDS Integers, FiniteSets

CONSTANTS Keys, Vals, MaxLive, None

VARIABLES map

InMap == {k \in Keys : map[k] # None}

Init == map = [k \in Keys |-> None]

Insert(k, v) == /\ map[k] = None
                /\ Cardinality(InMap) < MaxLive
                /\ map' = [map EXCEPT ![k] = v]

Remove(k) == map' = [map EXCEPT ![k] = None]

Next == \/ \E k \in Keys, v \in Vals : Insert(k, v)
        \/ \E k \in Keys : Remove(k)

Spec == Init /\ [][Next]_map

=============================================================================
