---------------------------- MODULE ReferenceBook ----------------------------
(***************************************************************************)
(* The oracle, src/crates/reference/src/lib.rs: the slow and obvious order *)
(* book that defines what the fast engine must do.  Each side is a vector  *)
(* kept sorted in price-time priority, the best order first.               *)
(*                                                                         *)
(* apply() is split into the steps at which it changes state: validation   *)
(* with the Ack (or the rejection), one step for each iteration of the     *)
(* match loop on opp[0], and what happens to the remainder.  Between two   *)
(* applies the caller takes the events (Drain).  Nothing interleaves with  *)
(* an apply in one thread; the steps are there so that properties can      *)
(* speak of the book while an order is being matched, and so that the fast *)
(* engine can be compared with the oracle loop iteration by loop iteration.*)
(***************************************************************************)
EXTENDS BookTypes, SequencesExt

VARIABLES
  book,     \* book["Bid"], book["Ask"]: the sorted vectors bids and asks
  taker,    \* the order inside do_new, or NoOrder
  out       \* the events apply has pushed and the caller has not yet taken

vars == <<book, taker, out>>

TypeOK == /\ book \in [Sides -> Seq(Order)]
          /\ taker \in Takers \cup {NoOrder}
          /\ out \in Seq(Event)

Init == /\ book = [s \in Sides |-> <<>>]
        /\ taker = NoOrder
        /\ out = <<>>

-----------------------------------------------------------------------------
(* Helpers.                                                                *)

(* Mutant: an order at the same price is not marketable.                   *)
CrossesMut(s, agg, resting) == IF s = "Bid" THEN agg > resting ELSE agg < resting
Crosses(s, agg, resting) == IF s = "Bid" THEN agg >= resting ELSE agg <= resting

(* Price p stands strictly before price q on side s.                       *)
Before(s, p, q) == IF s = "Bid" THEN p > q ELSE p < q

LiveCount == Len(book["Bid"]) + Len(book["Ask"])

(* Mutant: room is looked for one order too late.                          *)
AtCapacityMut == LiveCount > MaxLiveOrders
AtCapacity == LiveCount >= MaxLiveOrders

(* Mutant: find() looks at the bids only.                                  *)
LiveMut(id) == \E i \in DOMAIN book["Bid"] : book["Bid"][i].id = id
Live(id) == \E s \in Sides : \E i \in DOMAIN book[s] : book[s][i].id = id

(* Mutant: the pre-check forgets self-trade prevention.                    *)
CanFillFullyMut(t) ==
  LET opp == book[Opposite(t.side)]
  IN  SumFunctionOnSet([i \in DOMAIN opp |-> opp[i].remaining],
                       {i \in DOMAIN opp : Crosses(t.side, t.price, opp[i].price)})
        >= t.remaining
(* The pre-check of a fill-or-kill: own orders are skipped (CancelResting) *)
(* or end the count (CancelAggressor, CancelBoth).                         *)
CanFillFully(t) ==
  LET opp == book[Opposite(t.side)]
      own(i) == t.stp # "None" /\ opp[i].trader = t.trader
      counted == {i \in DOMAIN opp :
                    /\ ~ own(i)
                    /\ \A j \in 1 .. i : /\ Crosses(t.side, t.price, opp[j].price)
                                         /\ own(j) => t.stp = "CancelResting"}
  IN  SumFunctionOnSet([i \in DOMAIN opp |-> opp[i].remaining], counted) >= t.remaining

(* The orders of one level, filtered out of the vector.                    *)
AtLevel(s, l) ==
  LET at == Ascending({k \in DOMAIN book[s] : PriceToIdx(book[s][k].price) = l})
  IN  [n \in DOMAIN at |-> book[s][at[n]]]

(* state_hash: of each side the levels that have orders, ascending.        *)
StateHash ==
  [s \in Sides |->
     LET occ == Ascending({l \in LevelIdxs : AtLevel(s, l) # <<>>})
     IN  [k \in DOMAIN occ |->
            LET q == AtLevel(s, occ[k])
            IN  <<occ[k], SumFunction([j \in DOMAIN q |-> q[j].remaining]), Len(q),
                  [j \in DOMAIN q |-> Hashed(q[j])]>>]]

Quiescent == taker = NoOrder /\ out = <<>>

-----------------------------------------------------------------------------
(* The three inputs: validation in its fixed order, then the Ack.          *)

NewVerdict(t) ==
  IF t.remaining = 0 THEN "ZeroQty"
  ELSE IF Live(t.id) THEN "DuplicateOrderId"
  ELSE IF ~ OnGrid(t.price) THEN "PriceOutOfBounds"
  ELSE IF AtCapacity THEN "ArenaFull"
  ELSE IF t.tif = "Fok" /\ ~ CanFillFully(t) THEN "FokUnfillable"
  ELSE "Accepted"

ApplyNew(id, tr, s, p, q, tif, stp) ==
  LET t == [id |-> id, trader |-> tr, side |-> s, price |-> p,
            original |-> q, remaining |-> q, tif |-> tif, stp |-> stp]
  IN  /\ Quiescent
      /\ UNCHANGED book
      /\ \/ /\ taker' = t
            /\ out' = <<Ack(id)>>
            /\ NewVerdict(t) = "Accepted"
         \/ /\ UNCHANGED taker
            /\ out' = <<Rejected(id, NewVerdict(t))>>
            /\ NewVerdict(t) # "Accepted"

(* Mutant: the hole is closed with the last order (swap_remove).           *)
RemoveOrderMut(s, i) ==
  book' = [book EXCEPT ![s] = [j \in 1 .. Len(@) - 1 |-> IF j = i THEN Last(@) ELSE @[j]]]
(* find() followed by remove(): ids are unique (UniqueIds below), so       *)
(* retain() drops the one order find() returned.                           *)
RemoveOrder(s, i) == book' = [book EXCEPT ![s] = RemoveAt(@, i)]

RejectUnknown(id) == /\ Quiescent
                     /\ ~ Live(id)
                     /\ out' = <<Rejected(id, "UnknownOrderId")>>
                     /\ UNCHANGED <<book, taker>>

ApplyCancel(id, tr) ==
  \/ RejectUnknown(id)
  \/ \E s \in Sides : \E i \in DOMAIN book[s] :
       LET o == book[s][i]
       IN  /\ Quiescent
           /\ o.id = id
           /\ UNCHANGED taker
           /\ \/ /\ o.trader # tr
                 /\ out' = <<Rejected(id, "WrongTrader")>>
                 /\ UNCHANGED book
              \/ /\ o.trader = tr
                 /\ RemoveOrder(s, i)
                 /\ out' = <<Cancelled(id, o.remaining, "User")>>

ModifyVerdict(o, tr, p, q) ==
  IF o.trader # tr THEN "WrongTrader"
  ELSE IF q = 0 THEN "ZeroQty"
  ELSE IF ~ OnGrid(p) THEN "PriceOutOfBounds"
  ELSE "Accepted"

(* Cancel and re-enter: side and stp are the old order's, the rest is new, *)
(* and the remainder rests like that of a good-till-cancelled order.       *)
ApplyModify(id, tr, p, q) ==
  \/ RejectUnknown(id)
  \/ \E s \in Sides : \E i \in DOMAIN book[s] :
       LET o == book[s][i]
       IN  /\ Quiescent
           /\ o.id = id
           /\ \/ /\ ModifyVerdict(o, tr, p, q) # "Accepted"
                 /\ out' = <<Rejected(id, ModifyVerdict(o, tr, p, q))>>
                 /\ UNCHANGED <<book, taker>>
              \/ /\ ModifyVerdict(o, tr, p, q) = "Accepted"
                 /\ RemoveOrder(s, i)
                 /\ taker' = [id |-> id, trader |-> tr, side |-> o.side,
                              price |-> p, original |-> q, remaining |-> q,
                              tif |-> "Gtc", stp |-> o.stp]
                 /\ out' = <<Cancelled(id, o.remaining, "User"), Ack(id)>>

-----------------------------------------------------------------------------
(* do_new: the match loop on the front of the opposite side.               *)

Opp == Opposite(taker.side)
Maker == book[Opp][1]

Marketable == /\ taker # NoOrder
              /\ taker.remaining > 0
              /\ book[Opp] # <<>>
              /\ Crosses(taker.side, taker.price, Maker.price)

SelfTrade == taker.stp # "None" /\ Maker.trader = taker.trader

(* Mutant: a filled maker stays, with nothing left.                        *)
AfterFillMut(side, q) == [side EXCEPT ![1].remaining = @ - q]
AfterFill(side, q) == IF q = side[1].remaining
                      THEN Tail(side)
                      ELSE [side EXCEPT ![1].remaining = @ - q]

FillFront ==
  LET q == Smaller(taker.remaining, Maker.remaining)
  IN  /\ Marketable
      /\ ~ SelfTrade
      /\ out' = Append(out, Fill(taker, Maker.id, Maker.price, q))
      /\ taker' = [taker EXCEPT !.remaining = @ - q]
      /\ book' = [book EXCEPT ![Opp] = AfterFill(@, q)]

(* Mutant: what was entered is reported, not what was left.                *)
StpCancelledMut(o) == Cancelled(o.id, o.original, "SelfTradePrevention")
StpCancelled(o) == Cancelled(o.id, o.remaining, "SelfTradePrevention")

(* Mutant: the own order is reported but left where it is.                 *)
StpCancelRestingMut == /\ Marketable
                       /\ SelfTrade
                       /\ taker.stp = "CancelResting"
                       /\ out' = Append(out, StpCancelled(Maker))
                       /\ UNCHANGED <<book, taker>>
StpCancelResting ==
  /\ Marketable
  /\ SelfTrade
  /\ taker.stp = "CancelResting"
  /\ out' = Append(out, StpCancelled(Maker))
  /\ book' = [book EXCEPT ![Opp] = Tail(@)]
  /\ UNCHANGED taker

StpCancelAggressor ==
  /\ Marketable
  /\ SelfTrade
  /\ taker.stp = "CancelAggressor"
  /\ out' = Append(out, StpCancelled(taker))
  /\ taker' = NoOrder
  /\ UNCHANGED book

StpCancelBoth ==
  /\ Marketable
  /\ SelfTrade
  /\ taker.stp = "CancelBoth"
  /\ out' = out \o <<StpCancelled(Maker), StpCancelled(taker)>>
  /\ book' = [book EXCEPT ![Opp] = Tail(@)]
  /\ taker' = NoOrder

-----------------------------------------------------------------------------
(* do_new after the loop.                                                  *)

FinishFilled == /\ taker # NoOrder
                /\ taker.remaining = 0
                /\ taker' = NoOrder
                /\ UNCHANGED <<book, out>>

(* Mutants: the order goes in front of its price; or simply last.          *)
SortsToMutFront(t, k) ==
  \A i \in DOMAIN book[t.side] :
    i <= k <=> Before(t.side, book[t.side][i].price, t.price)
SortsToMutLast(t, k) == k = Len(book[t.side])
(* push and sort: the new order has the largest sequence number so far     *)
(* (runner.rs numbers inputs upwards), so it goes behind the k orders that *)
(* do not stand strictly after its price.                                  *)
SortsTo(t, k) ==
  \A i \in DOMAIN book[t.side] :
    i <= k <=> ~ Before(t.side, t.price, book[t.side][i].price)

RestRemainder ==
  /\ taker # NoOrder
  /\ taker.remaining > 0
  /\ ~ Marketable
  /\ taker.tif = "Gtc"
  /\ \E k \in 0 .. Len(book[taker.side]) :
       /\ SortsTo(taker, k)
       /\ book' = [book EXCEPT ![taker.side] = InsertAt(@, k + 1, Resting(taker))]
  /\ taker' = NoOrder
  /\ UNCHANGED out

(* The Fok arm is dead code as long as CanFillFully is right; it kills the *)
(* remainder like an Ioc.                                                  *)
KillRemainder ==
  /\ taker # NoOrder
  /\ taker.remaining > 0
  /\ ~ Marketable
  /\ taker.tif \in {"Ioc", "Fok"}
  /\ out' = Append(out, Cancelled(taker.id, taker.remaining, "Ioc"))
  /\ taker' = NoOrder
  /\ UNCHANGED book

Proceed == \/ FillFront
           \/ StpCancelResting
           \/ StpCancelAggressor
           \/ StpCancelBoth
           \/ FinishFilled
           \/ RestRemainder
           \/ KillRemainder

(* The caller takes the returned events.                                   *)
Drain == /\ taker = NoOrder
         /\ out # <<>>
         /\ out' = <<>>
         /\ UNCHANGED <<book, taker>>

Next == \/ \E id \in OrderIds, tr \in TraderIds, s \in Sides, p \in InPrices,
              q \in InQtys, tif \in InTifs, stp \in InStps :
             ApplyNew(id, tr, s, p, q, tif, stp)
        \/ \E id \in OrderIds, tr \in TraderIds : ApplyCancel(id, tr)
        \/ \E id \in OrderIds, tr \in TraderIds, p \in InPrices, q \in InQtys :
             ApplyModify(id, tr, p, q)
        \/ Proceed
        \/ Drain

(* apply() runs to its end once called; nothing makes a caller call it.    *)
Spec == Init /\ [][Next]_vars /\ WF_vars(Proceed)

-----------------------------------------------------------------------------
(* Properties.                                                             *)

(* Price-time order: every side is sorted by price, best first.  (Arrival  *)
(* order within a price is NeverOvertakes below.)                          *)
PriceSorted ==
  \A s \in Sides : \A i, j \in DOMAIN book[s] :
    i < j => ~ Before(s, book[s][j].price, book[s][i].price)

(* No resting bid ever meets a resting ask, even while an order is inside  *)
(* the match loop (I1, properties.rs "never crosses").                     *)
NeverCrossed ==
  \A i \in DOMAIN book["Bid"], j \in DOMAIN book["Ask"] :
    book["Bid"][i].price < book["Ask"][j].price

(* An id rests at most once, on one side, and never while the order of     *)
(* that id is being matched: what find() and retain() rely on.             *)
UniqueIds ==
  \A s, u \in Sides : \A i \in DOMAIN book[s], j \in DOMAIN book[u] :
    /\ book[s][i].id = book[u][j].id => s = u /\ i = j
    /\ taker # NoOrder => taker.id # book[s][i].id

(* Every resting order has something left to trade, never more than it was *)
(* entered with, stands on the grid and on its own side (I9).              *)
RestingOrdersSound ==
  \A s \in Sides : \A i \in DOMAIN book[s] :
    LET o == book[s][i]
    IN  o.remaining \in 1 .. o.original /\ OnGrid(o.price) /\ o.side = s

(* There is always room for the order being matched, so the capacity check *)
(* made before matching is still good when the remainder rests, also for a *)
(* Modify, which is not checked at all.                                    *)
RoomToRest == LiveCount + (IF taker = NoOrder THEN 0 ELSE 1) <= MaxLiveOrders

(* One apply emits at most one event for each order that can be live, and  *)
(* two of its own: the sizing argument of EventBuffer (buffer.rs:5-8),     *)
(* which allows for six more.                                              *)
OutputBounded == Len(out) <= MaxLiveOrders + 2

(* An accepted fill-or-kill still finds in the book all it has to fill, at *)
(* every step of its matching: the pre-check agrees with the loop whatever *)
(* STP does, and the "pre-check violated" arm is dead.                     *)
FokStaysFillable ==
  taker # NoOrder /\ taker.tif = "Fok" => CanFillFully(taker)

(* Resting orders never overtake one another: whoever is ahead stays ahead *)
(* as long as both rest.  With PriceSorted this is time priority; a Modify *)
(* takes its order out and so sends it to the back.                        *)
NeverOvertakes ==
  [][\A s \in Sides : \A i, j \in DOMAIN book[s] : \A k, l \in DOMAIN book'[s] :
       (i < j /\ book[s][i].id = book'[s][k].id /\ book[s][j].id = book'[s][l].id)
         => k < l]_vars

(* A step that puts an order on the book puts it behind all of its price.  *)
JoinsAtTheBack ==
  [][\A s \in Sides : \A k, l \in DOMAIN book'[s] :
       (~ Live(book'[s][l].id) /\ k > l) => book'[s][k].price # book'[s][l].price]_vars

(* Quantity is conserved (I2): what a step changes in the open quantity of *)
(* an id, on the book or in the match loop, is exactly what its events say:*)
(* an Ack brings in the order's quantity, a Fill takes its quantity from   *)
(* both parties, a Cancelled takes what it reports.                        *)
OpenIn(side, id) ==
  SumFunction([i \in DOMAIN side |-> IF side[i].id = id THEN side[i].remaining ELSE 0])

Open(bk, t, id) == OpenIn(bk["Bid"], id) + OpenIn(bk["Ask"], id)
                     + (IF t # NoOrder /\ t.id = id THEN t.remaining ELSE 0)

Reported(e, t, id) ==
  IF e.ev = "Fill" THEN (IF e.id = id THEN -e.qty ELSE 0)
                      + (IF e.maker = id THEN -e.qty ELSE 0)
  ELSE IF e.id # id THEN 0
  ELSE IF e.ev = "Ack" THEN t.original
  ELSE IF e.ev = "Cancelled" THEN -e.remaining ELSE 0

QuantityConserved ==
  [][\A id \in OrderIds :
       out' # <<>> =>
         Open(book', taker', id) - Open(book, taker, id)
           = SumFunction([k \in 1 .. Len(out') - Len(out) |->
                            Reported(out'[Len(out) + k], taker', id)])]_vars

=============================================================================
