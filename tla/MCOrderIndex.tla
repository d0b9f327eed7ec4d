---------------------------- MODULE MCOrderIndex ----------------------------
(* OrderIndex for TLC: tables of eight cells, with homes that collide, that *)
(* lie next to one another and that wrap around the end of the table.      *)
EXTENDS OrderIndex, TLC

CONSTANTS k1, k2, k3, k4, k5, k6, k7, k8

(* Homes that collide, that lie in each other's way across the end of the   *)
(* table, and one home apart from the cluster.                             *)
Clustered == k1 :> 6 @@ k2 :> 6 @@ k3 :> 7 @@ k4 :> 0 @@ k5 :> 3

(* One home each.                                                           *)
Spread == k1 :> 0 @@ k2 :> 1 @@ k3 :> 2 @@ k4 :> 3
            @@ k5 :> 4 @@ k6 :> 5 @@ k7 :> 6 @@ k8 :> 7

=============================================================================
