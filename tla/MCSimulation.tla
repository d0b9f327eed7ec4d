---------------------------- MODULE MCSimulation ----------------------------
(* Simulation for TLC: the ids agents can have used by the end of a run.    *)
EXTENDS Simulation

SimIds == {a * IdSpace + n : a \in 1 .. 3, n \in 1 .. IdSpace - 1}

(* Of the code's -4 .. 4, on four levels: one level below the grid, its    *)
(* lowest level, one inside it and one above it.                           *)
Draws == {-2, -1, 1, 3}

(* Prices on the grid and those that a chase or a target may reach.         *)
SimPrices == MinPrice - 1 .. MaxPrice + 1

(* Quotes under attack; a trend for Momentum to follow, between a market    *)
(* maker and noise; two market makers side by side, who requote as the      *)
(* reference price moves and, quoting alike, queue at the same prices.      *)
Runs == {[agents |-> <<"MarketMaker", "Adversarial">>, events |-> 6],
         [agents |-> <<"MarketMaker", "Momentum", "Noise">>, events |-> 5],
         [agents |-> <<"MarketMaker", "MarketMaker">>, events |-> 9]}

=============================================================================
