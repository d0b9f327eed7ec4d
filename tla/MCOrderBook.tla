----------------------------- MODULE MCOrderBook -----------------------------
(* OrderBook for TLC.  The safety runs use symmetry: no definition compares *)
(* ids or traders other than for equality.                                 *)
EXTENDS OrderBook

Symmetry == Permutations(OrderIds) \cup Permutations(TraderIds)

(* The oracle's book, as the refinement map reads it from the fast engine,  *)
(* in a variable of its own: a function of the other variables, which TLC  *)
(* then evaluates once for each step.                                      *)
VARIABLE book

ViewInit == Init /\ book = OracleBook
ViewNext == Next /\ book' = OracleBook'
ViewSpec == ViewInit /\ [][ViewNext]_<<vars, book>> /\ WF_<<vars, book>>(Proceed /\ book' = OracleBook')

View == INSTANCE ReferenceBook

(* Between two applies the engines agree on the answer to every input that  *)
(* may come next, rejection by rejection, although each looks the order up *)
(* and counts what a fill-or-kill can fill in its own data.                *)
NewOrders == {t \in [id : OrderIds, trader : TraderIds, side : Sides,
                     price : InPrices, original : InQtys, remaining : InQtys,
                     tif : InTifs, stp : InStps] : t.original = t.remaining}

VerdictsAgree ==
  Quiescent =>
    /\ \A t \in NewOrders : NewVerdict(t) = View!NewVerdict(t)
    /\ \A id \in OrderIds : index[id] = NIL <=> ~ View!Live(id)
    /\ \A s \in Sides : \A i \in DOMAIN book[s] :
         LET o == book[s][i]
         IN  \A tr \in TraderIds :
               /\ CancelVerdict(o.id, tr) = "WrongTrader" <=> o.trader # tr
               /\ \A p \in InPrices, q \in InQtys :
                    ModifyVerdict(o.id, tr, p, q) = View!ModifyVerdict(o, tr, p, q)

(* OrderBook implements ReferenceBook: every step of the fast engine is a   *)
(* step of the oracle that emits the same events, or leaves the oracle     *)
(* where it is.  With VerdictsAgree: for the same input, since the answer  *)
(* is fixed by the input and an accepted one shows in `taker`.             *)
StepsOfOracle == View!Init /\ [][View!Next]_(View!vars)

(* ... and it returns from apply() because the oracle does.                *)
OracleSpec == View!Spec

=============================================================================
