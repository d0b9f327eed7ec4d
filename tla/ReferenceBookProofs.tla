------------------------- MODULE ReferenceBookProofs -------------------------
(***************************************************************************)
(* Theorems about ReferenceBook, for every grid, capacity and input set,   *)
(* and, from "The simulation" on, about Simulation, which drives it.  The  *)
(* assumptions about the simulation are cited in that part only: what is   *)
(* proved of the oracle's Spec before it depends on none of them.          *)
(***************************************************************************)
EXTENDS Simulation, BookLemmas

-----------------------------------------------------------------------------
(* Types of what the actions build.                                        *)

LEMMA EventTypes ==
  /\ \A id \in OrderIds : Ack(id) \in Event
  /\ \A id \in OrderIds, r \in Nat, why \in {"User", "Ioc", "SelfTradePrevention"} :
       Cancelled(id, r, why) \in Event
  /\ \A t \in Takers, id \in OrderIds, p \in I64, q \in Nat : Fill(t, id, p, q) \in Event
  /\ \A id \in OrderIds,
        why \in {"DuplicateOrderId", "UnknownOrderId", "PriceOutOfBounds", "ZeroQty",
                 "FokUnfillable", "ArenaFull", "WrongTrader"} :
       Rejected(id, why) \in Event
BY DEF Ack, Cancelled, Fill, Rejected, Event, Takers

LEMMA RestingTyped == ASSUME NEW t \in Takers PROVE Resting(t) \in Order
BY DEF Takers, Order, Resting

LEMMA OppositeTyped == \A s \in Sides : Opposite(s) \in Sides /\ Opposite(s) # s
BY DEF Sides, Opposite

(* A resting order, looked up by side and position.                        *)
LEMMA OrderTyped ==
  ASSUME TypeOK, NEW s \in Sides, NEW i \in DOMAIN book[s]
  PROVE  /\ book[s] \in Seq(Order)
         /\ DOMAIN book[s] = 1 .. Len(book[s])
         /\ Len(book[s]) \in Nat
         /\ i \in 1 .. Len(book[s])
         /\ book[s][i] \in Order
<1>1. book[s] \in Seq(Order)
  BY DEF TypeOK
<1> QED BY <1>1, LenProperties, ElementOfSeq

LEMMA PricesAreInts ==
  ASSUME TypeOK, NEW s \in Sides, NEW i \in DOMAIN book[s]
  PROVE  book[s][i].price \in Int
<1>1. book[s][i] \in Order
  BY OrderTyped
<1> QED BY <1>1 DEF Order, I64

LEMMA MakerTyped ==
  ASSUME TypeOK, Marketable
  PROVE  /\ taker \in Takers
         /\ Opp \in Sides
         /\ book[Opp] \in Seq(Order)
         /\ book[Opp] # <<>>
         /\ 1 \in DOMAIN book[Opp]
         /\ Maker \in Order
<1>1. taker \in Takers
  BY DEF TypeOK, Marketable
<1>2. Opp \in Sides
  BY <1>1, OppositeTyped DEF Opp, Takers
<1>3. book[Opp] \in Seq(Order) /\ book[Opp] # <<>>
  BY <1>2 DEF TypeOK, Marketable
<1>4. 1 \in DOMAIN book[Opp]
  BY <1>3, EmptySeq, LenProperties
<1> QED BY <1>1, <1>2, <1>3, <1>4, OrderTyped DEF Maker

LEMMA RemoveTyped ==
  ASSUME TypeOK, NEW s \in Sides, NEW i \in DOMAIN book[s], RemoveOrder(s, i)
  PROVE  book' \in [Sides -> Seq(Order)]
<1>1. RemoveAt(book[s], i) \in Seq(Order)
  BY OrderTyped, RemoveAtFacts
<1> QED BY <1>1 DEF RemoveOrder, TypeOK

(* The front of a side filled with q is the rest of the side or the side   *)
(* with less in front.                                                     *)
LEMMA AfterFillTyped ==
  ASSUME NEW s \in Seq(Order), s # <<>>, NEW q \in Nat, q <= s[1].remaining
  PROVE  AfterFill(s, q) \in Seq(Order)
<1>1. 1 \in 1 .. Len(s) /\ s[1] \in Order
  BY EmptySeq, LenProperties, ElementOfSeq
<1>2. CASE q = s[1].remaining
  BY <1>2, HeadTailProperties DEF AfterFill
<1>3. CASE q # s[1].remaining
  <2> DEFINE o == [s[1] EXCEPT !.remaining = @ - q]
  <2>1. o \in Order
    BY <1>1 DEF Order
  <2>2. AfterFill(s, q) = [s EXCEPT ![1] = o]
    BY <1>3 DEF AfterFill
  <2> HIDE DEF o
  <2> QED BY <1>1, <2>1, <2>2, ExceptSeq
<1> QED BY <1>2, <1>3

-----------------------------------------------------------------------------
(* Type correctness.                                                       *)

LEMMA InitTyped == Init => TypeOK
<1> SUFFICES ASSUME Init PROVE TypeOK
  OBVIOUS
<1>1. <<>> \in Seq(Order) /\ <<>> \in Seq(Event)
  OBVIOUS
<1> QED BY <1>1 DEF Init, TypeOK

LEMMA ApplyNewTyped ==
  ASSUME TypeOK, NEW id \in OrderIds, NEW tr \in TraderIds, NEW s \in Sides,
         NEW p \in InPrices, NEW q \in InQtys, NEW tif \in InTifs, NEW stp \in InStps,
         ApplyNew(id, tr, s, p, q, tif, stp)
  PROVE  TypeOK'
<1> DEFINE t == [id |-> id, trader |-> tr, side |-> s, price |-> p,
                 original |-> q, remaining |-> q, tif |-> tif, stp |-> stp]
<1>1. t \in Takers
  BY BookAssumption DEF Takers
<1>2. CASE /\ taker' = t
           /\ out' = <<Ack(id)>>
           /\ UNCHANGED book
  <2>1. out' \in Seq(Event)
    BY <1>2, EventTypes, Singleton
  <2> QED BY <1>1, <1>2, <2>1 DEF TypeOK
<1>3. CASE /\ UNCHANGED <<book, taker>>
           /\ out' = <<Rejected(id, NewVerdict(t))>>
           /\ NewVerdict(t) # "Accepted"
  <2>1. NewVerdict(t) \in {"DuplicateOrderId", "UnknownOrderId", "PriceOutOfBounds",
                           "ZeroQty", "FokUnfillable", "ArenaFull", "WrongTrader"}
    BY <1>3 DEF NewVerdict
  <2>2. out' \in Seq(Event)
    BY <1>3, <2>1, EventTypes, Singleton
  <2> QED BY <1>3, <2>2 DEF TypeOK
<1> QED BY <1>2, <1>3 DEF ApplyNew

LEMMA RejectUnknownTyped ==
  ASSUME TypeOK, NEW id \in OrderIds, RejectUnknown(id)
  PROVE  TypeOK'
<1>1. out' \in Seq(Event)
  BY EventTypes, Singleton DEF RejectUnknown
<1> QED BY <1>1 DEF RejectUnknown, TypeOK

LEMMA ApplyCancelTyped ==
  ASSUME TypeOK, NEW id \in OrderIds, NEW tr \in TraderIds, ApplyCancel(id, tr)
  PROVE  TypeOK'
<1>1. CASE RejectUnknown(id)
  BY <1>1, RejectUnknownTyped
<1>2. ASSUME NEW s \in Sides, NEW i \in DOMAIN book[s], UNCHANGED taker,
             out' = <<Rejected(id, "WrongTrader")>>, UNCHANGED book
      PROVE  TypeOK'
  <2>1. out' \in Seq(Event)
    BY <1>2, EventTypes, Singleton
  <2> QED BY <1>2, <2>1 DEF TypeOK
<1>3. ASSUME NEW s \in Sides, NEW i \in DOMAIN book[s], UNCHANGED taker,
             RemoveOrder(s, i),
             out' = <<Cancelled(id, book[s][i].remaining, "User")>>
      PROVE  TypeOK'
  <2>1. book[s][i].remaining \in Nat
    BY OrderTyped DEF Order
  <2>2. out' \in Seq(Event)
    BY <1>3, <2>1, EventTypes, Singleton
  <2>3. book' \in [Sides -> Seq(Order)]
    BY <1>3, RemoveTyped
  <2> QED BY <1>3, <2>2, <2>3 DEF TypeOK
<1> QED BY <1>1, <1>2, <1>3 DEF ApplyCancel

LEMMA ApplyModifyTyped ==
  ASSUME TypeOK, NEW id \in OrderIds, NEW tr \in TraderIds,
         NEW p \in InPrices, NEW q \in InQtys, ApplyModify(id, tr, p, q)
  PROVE  TypeOK'
<1>1. CASE RejectUnknown(id)
  BY <1>1, RejectUnknownTyped
<1>2. ASSUME NEW s \in Sides, NEW i \in DOMAIN book[s],
             ModifyVerdict(book[s][i], tr, p, q) # "Accepted",
             out' = <<Rejected(id, ModifyVerdict(book[s][i], tr, p, q))>>,
             UNCHANGED <<book, taker>>
      PROVE  TypeOK'
  <2>1. ModifyVerdict(book[s][i], tr, p, q) \in {"PriceOutOfBounds", "ZeroQty", "WrongTrader"}
    BY <1>2 DEF ModifyVerdict
  <2>2. out' \in Seq(Event)
    BY <1>2, <2>1, EventTypes, Singleton
  <2> QED BY <1>2, <2>2 DEF TypeOK
<1>3. ASSUME NEW s \in Sides, NEW i \in DOMAIN book[s], RemoveOrder(s, i),
             taker' = [id |-> id, trader |-> tr, side |-> book[s][i].side,
                       price |-> p, original |-> q, remaining |-> q,
                       tif |-> "Gtc", stp |-> book[s][i].stp],
             out' = <<Cancelled(id, book[s][i].remaining, "User"), Ack(id)>>
      PROVE  TypeOK'
  <2>1. book[s][i] \in Order
    BY OrderTyped
  <2>2. taker' \in Takers
    BY <1>3, <2>1, BookAssumption DEF Order, Takers, Tifs
  <2>3. Cancelled(id, book[s][i].remaining, "User") \in Event /\ Ack(id) \in Event
    BY <2>1, EventTypes DEF Order
  <2>4. out' \in Seq(Event)
    BY <1>3, <2>3, Pair
  <2>5. book' \in [Sides -> Seq(Order)]
    BY <1>3, RemoveTyped
  <2> QED BY <2>2, <2>4, <2>5 DEF TypeOK
<1> QED BY <1>1, <1>2, <1>3 DEF ApplyModify

LEMMA FillFrontTyped == ASSUME TypeOK, FillFront PROVE TypeOK'
<1> DEFINE q == Smaller(taker.remaining, Maker.remaining)
<1>1. /\ Marketable
      /\ out' = Append(out, Fill(taker, Maker.id, Maker.price, q))
      /\ taker' = [taker EXCEPT !.remaining = @ - q]
      /\ book' = [book EXCEPT ![Opp] = AfterFill(@, q)]
  BY DEF FillFront
<1>2. /\ taker \in Takers /\ Opp \in Sides /\ Maker \in Order
      /\ book[Opp] \in Seq(Order) /\ book[Opp] # <<>>
  BY <1>1, MakerTyped
<1>3. q \in Nat /\ q <= taker.remaining /\ q <= Maker.remaining
  BY <1>2 DEF Smaller, Takers, Order
<1> HIDE DEF q
<1>4. taker' \in Takers
  BY <1>1, <1>2, <1>3 DEF Takers
<1>5. Fill(taker, Maker.id, Maker.price, q) \in Event
  BY <1>2, <1>3, EventTypes DEF Order
<1>6. out' \in Seq(Event)
  BY <1>1, <1>5, AppendProperties DEF TypeOK
<1>7. AfterFill(book[Opp], q) \in Seq(Order)
  BY <1>2, <1>3, AfterFillTyped DEF Maker
<1>8. book' \in [Sides -> Seq(Order)]
  BY <1>1, <1>2, <1>7 DEF TypeOK
<1> QED BY <1>4, <1>6, <1>8 DEF TypeOK

LEMMA StpTyped ==
  ASSUME TypeOK, StpCancelResting \/ StpCancelAggressor \/ StpCancelBoth
  PROVE  TypeOK'
<1>1. Marketable
  BY DEF StpCancelResting, StpCancelAggressor, StpCancelBoth
<1>2. /\ taker \in Takers /\ Opp \in Sides /\ Maker \in Order
      /\ book[Opp] \in Seq(Order) /\ book[Opp] # <<>>
  BY <1>1, MakerTyped
<1>3. StpCancelled(Maker) \in Event /\ StpCancelled(taker) \in Event
  BY <1>2, EventTypes DEF StpCancelled, Order, Takers
<1>4. [book EXCEPT ![Opp] = Tail(@)] \in [Sides -> Seq(Order)]
  <2>1. Tail(book[Opp]) \in Seq(Order)
    BY <1>2, HeadTailProperties
  <2> QED BY <1>2, <2>1 DEF TypeOK
<1>5. /\ Append(out, StpCancelled(Maker)) \in Seq(Event)
      /\ Append(out, StpCancelled(taker)) \in Seq(Event)
      /\ out \o <<StpCancelled(Maker), StpCancelled(taker)>> \in Seq(Event)
  BY <1>3, AppendProperties, Pair, ConcatProperties DEF TypeOK
<1>6. CASE StpCancelResting
  BY <1>4, <1>5, <1>6 DEF StpCancelResting, TypeOK
<1>7. CASE StpCancelAggressor
  BY <1>5, <1>7 DEF StpCancelAggressor, TypeOK
<1>8. CASE StpCancelBoth
  BY <1>4, <1>5, <1>8 DEF StpCancelBoth, TypeOK
<1> QED BY <1>6, <1>7, <1>8

(* w is v with r inserted before position m.                               *)
Inserts(w, v, m, r) ==
  /\ w \in Seq(Order)
  /\ Len(w) = Len(v) + 1
  /\ \A j \in 1 .. Len(v) + 1 :
       w[j] = IF j < m THEN v[j] ELSE IF j = m THEN r ELSE v[j - 1]

(* InsertAtFacts for the queues of the book.                               *)
LEMMA InsertOrder ==
  ASSUME NEW v \in Seq(Order), NEW r \in Order, NEW m \in 1 .. Len(v) + 1,
         NEW w, w = InsertAt(v, m, r)
  PROVE  Inserts(w, v, m, r)
BY InsertAtFacts, SMTT(60) DEF Inserts

LEMMA RestRemainderTyped == ASSUME TypeOK, RestRemainder PROVE TypeOK'
<1>1. taker \in Takers /\ taker.side \in Sides
  BY DEF RestRemainder, TypeOK, Takers
<1>2. PICK k \in 0 .. Len(book[taker.side]) :
        book' = [book EXCEPT ![taker.side] = InsertAt(@, k + 1, Resting(taker))]
  BY DEF RestRemainder
<1>3. book[taker.side] \in Seq(Order)
  BY <1>1 DEF TypeOK
<1>4. InsertAt(book[taker.side], k + 1, Resting(taker)) \in Seq(Order)
  BY <1>1, <1>3, RestingTyped, InsertAtFacts
<1> QED BY <1>1, <1>2, <1>4 DEF RestRemainder, TypeOK

LEMMA KillRemainderTyped == ASSUME TypeOK, KillRemainder PROVE TypeOK'
<1>1. taker \in Takers
  BY DEF KillRemainder, TypeOK
<1>2. Cancelled(taker.id, taker.remaining, "Ioc") \in Event
  BY <1>1, EventTypes DEF Takers
<1>3. out' \in Seq(Event)
  BY <1>2, AppendProperties DEF KillRemainder, TypeOK
<1> QED BY <1>3 DEF KillRemainder, TypeOK

LEMMA TypeStep == TypeOK /\ [Next]_vars => TypeOK'
<1> SUFFICES ASSUME TypeOK, [Next]_vars PROVE TypeOK'
  OBVIOUS
<1>1. CASE UNCHANGED vars
  BY <1>1 DEF vars, TypeOK
<1>2. ASSUME NEW id \in OrderIds, NEW tr \in TraderIds, NEW s \in Sides,
             NEW p \in InPrices, NEW q \in InQtys, NEW tif \in InTifs, NEW stp \in InStps,
             ApplyNew(id, tr, s, p, q, tif, stp)
      PROVE  TypeOK'
  BY <1>2, ApplyNewTyped
<1>3. ASSUME NEW id \in OrderIds, NEW tr \in TraderIds, ApplyCancel(id, tr)
      PROVE  TypeOK'
  BY <1>3, ApplyCancelTyped
<1>4. ASSUME NEW id \in OrderIds, NEW tr \in TraderIds, NEW p \in InPrices,
             NEW q \in InQtys, ApplyModify(id, tr, p, q)
      PROVE  TypeOK'
  BY <1>4, ApplyModifyTyped
<1>5. CASE FillFront
  BY <1>5, FillFrontTyped
<1>6. CASE StpCancelResting \/ StpCancelAggressor \/ StpCancelBoth
  BY <1>6, StpTyped
<1>7. CASE FinishFilled
  BY <1>7 DEF FinishFilled, TypeOK
<1>8. CASE RestRemainder
  BY <1>8, RestRemainderTyped
<1>9. CASE KillRemainder
  BY <1>9, KillRemainderTyped
<1>10. CASE Drain
  <2>1. <<>> \in Seq(Event)
    OBVIOUS
  <2> QED BY <1>10, <2>1 DEF Drain, TypeOK
<1> QED BY <1>1, <1>2, <1>3, <1>4, <1>5, <1>6, <1>7, <1>8, <1>9, <1>10 DEF Next, Proceed

(* The book, the order being matched and the events keep their types, for  *)
(* every grid, capacity and input set: in particular no quantity, however  *)
(* it is split up by fills, ever goes below zero.                          *)
THEOREM TypeCorrect == Spec => []TypeOK
<1>1. Init => TypeOK
  BY InitTyped
<1>2. TypeOK /\ [Next]_vars => TypeOK'
  BY TypeStep
<1> QED BY <1>1, <1>2, PTL DEF Spec

-----------------------------------------------------------------------------
(* Every step but the resting of a remainder only thins the book out:      *)
(* e[u][j] is the position that the order now at position j of side u had. *)
(* Spares(e, s, i): nothing comes from position i of side s.               *)

Thins(e) ==
  \A u \in Sides : \A j \in DOMAIN book'[u] :
    /\ e[u][j] \in DOMAIN book[u]
    /\ book'[u][j].id = book[u][e[u][j]].id
    /\ book'[u][j].price = book[u][e[u][j]].price
    /\ book'[u][j].trader = book[u][e[u][j]].trader
    /\ \A k \in DOMAIN book'[u] : j < k => e[u][j] < e[u][k]

Spares(e, s, i) == \A j \in DOMAIN book'[s] : e[s][j] # i

LEMMA UnchangedThins ==
  ASSUME TypeOK, UNCHANGED book
  PROVE  \E e : Thins(e)
<1> DEFINE e == [u \in Sides |-> [j \in DOMAIN book[u] |-> j]]
<1>1. Thins(e)
  BY DEF Thins
<1> QED BY <1>1

LEMMA RemoveThins ==
  ASSUME TypeOK, NEW s \in Sides, NEW i \in DOMAIN book[s],
         book' = [book EXCEPT ![s] = RemoveAt(@, i)]
  PROVE  \E e : Thins(e) /\ Spares(e, s, i)
<1> DEFINE e == [u \in Sides |-> [j \in DOMAIN book'[u] |->
                                    IF u = s /\ j >= i THEN j + 1 ELSE j]]
<1>1. /\ book[s] \in Seq(Order) /\ Len(book[s]) \in Nat /\ i \in 1 .. Len(book[s])
      /\ DOMAIN book[s] = 1 .. Len(book[s])
  BY OrderTyped
<1>2. /\ book'[s] \in Seq(Order)
      /\ Len(book'[s]) = Len(book[s]) - 1
      /\ \A j \in 1 .. Len(book[s]) - 1 :
           book'[s][j] = IF j < i THEN book[s][j] ELSE book[s][j + 1]
  <2>1. book'[s] = RemoveAt(book[s], i)
    BY DEF TypeOK
  <2> QED BY <1>1, <2>1, RemoveAtFacts
<1>3. DOMAIN book'[s] = 1 .. Len(book[s]) - 1
  BY <1>2, LenProperties
<1>4. \A u \in Sides \ {s} : book'[u] = book[u]
  BY DEF TypeOK
<1>5. ASSUME NEW u \in Sides, NEW j \in DOMAIN book'[u]
      PROVE  /\ e[u][j] \in DOMAIN book[u]
             /\ book'[u][j] = book[u][e[u][j]]
             /\ \A k \in DOMAIN book'[u] : j < k => e[u][j] < e[u][k]
             /\ u = s => e[u][j] # i
  <2>1. CASE u = s
    <3>1. j \in 1 .. Len(book[s]) - 1
      BY <1>3, <2>1
    <3>2. \A k \in 1 .. Len(book[s]) - 1 : e[s][k] = IF k >= i THEN k + 1 ELSE k
      BY <1>3
    <3> HIDE DEF e
    <3>3. e[s][j] \in 1 .. Len(book[s]) /\ book'[s][j] = book[s][e[s][j]]
      BY <1>1, <1>2, <3>1, <3>2
    <3>4. /\ \A k \in 1 .. Len(book[s]) - 1 : j < k => e[s][j] < e[s][k]
          /\ e[s][j] # i
      BY <1>1, <3>1, <3>2
    <3> QED BY <1>1, <1>3, <2>1, <3>3, <3>4
  <2>2. CASE u # s
    <3>1. \A k \in DOMAIN book'[u] : e[u][k] = k
      BY <2>2
    <3> QED BY <1>4, <2>2, <3>1
  <2> QED BY <2>1, <2>2
<1> HIDE DEF e
<1>6. Thins(e) /\ Spares(e, s, i)
  BY <1>5 DEF Thins, Spares
<1> QED BY <1>6

LEMMA FillThins == ASSUME TypeOK, FillFront PROVE \E e : Thins(e)
<1> DEFINE q == Smaller(taker.remaining, Maker.remaining)
<1>1. Marketable /\ book' = [book EXCEPT ![Opp] = AfterFill(@, q)]
  BY DEF FillFront
<1>2. /\ Opp \in Sides /\ book[Opp] \in Seq(Order) /\ book[Opp] # <<>>
      /\ 1 \in DOMAIN book[Opp]
  BY <1>1, MakerTyped
<1> HIDE DEF q
<1>3. CASE q = book[Opp][1].remaining
  <2>1. AfterFill(book[Opp], q) = RemoveAt(book[Opp], 1)
    BY <1>2, <1>3, TailIsRemoveAt DEF AfterFill
  <2>2. book' = [book EXCEPT ![Opp] = RemoveAt(@, 1)]
    BY <1>1, <2>1
  <2> QED BY <1>2, <2>2, RemoveThins
<1>4. CASE q # book[Opp][1].remaining
  <2> DEFINE e == [u \in Sides |-> [j \in DOMAIN book[u] |-> j]]
  <2>1. book'[Opp] = [book[Opp] EXCEPT ![1].remaining = @ - q]
    BY <1>1, <1>2, <1>4 DEF AfterFill, TypeOK
  <2>2. \A u \in Sides \ {Opp} : book'[u] = book[u]
    BY <1>1 DEF TypeOK
  <2>3. ASSUME NEW j \in DOMAIN book[Opp]
        PROVE  /\ book'[Opp][j].id = book[Opp][j].id
               /\ book'[Opp][j].price = book[Opp][j].price
               /\ book'[Opp][j].trader = book[Opp][j].trader
    <3>1. book[Opp][j] \in Order
      BY <1>2, OrderTyped
    <3>2. CASE j = 1
      BY <1>2, <2>1, <3>1, <3>2 DEF Order
    <3>3. CASE j # 1
      BY <1>2, <2>1, <3>3
    <3> QED BY <3>2, <3>3
  <2>4. \A u \in Sides : DOMAIN book'[u] = DOMAIN book[u]
    BY <1>2, <2>1, <2>2
  <2>5. Thins(e)
    BY <2>2, <2>3, <2>4 DEF Thins
  <2> QED BY <2>5
<1> QED BY <1>3, <1>4

LEMMA TailThins ==
  ASSUME TypeOK, Marketable, book' = [book EXCEPT ![Opp] = Tail(@)]
  PROVE  \E e : Thins(e)
<1>1. /\ Opp \in Sides /\ book[Opp] \in Seq(Order) /\ book[Opp] # <<>>
      /\ 1 \in DOMAIN book[Opp]
  BY MakerTyped
<1>2. Tail(book[Opp]) = RemoveAt(book[Opp], 1)
  BY <1>1, TailIsRemoveAt
<1>3. book' = [book EXCEPT ![Opp] = RemoveAt(@, 1)]
  BY <1>2
<1> QED BY <1>1, <1>3, RemoveThins

LEMMA StepsThin ==
  ASSUME TypeOK, [Next]_vars
  PROVE  RestRemainder \/ \E e : Thins(e)
<1>1. ASSUME UNCHANGED book PROVE \E e : Thins(e)
  BY <1>1, UnchangedThins
<1>2. ASSUME NEW s \in Sides, NEW i \in DOMAIN book[s], RemoveOrder(s, i)
      PROVE  \E e : Thins(e)
  BY <1>2, RemoveThins DEF RemoveOrder
<1>3. ASSUME NEW id \in OrderIds, NEW tr \in TraderIds, ApplyCancel(id, tr)
      PROVE  \E e : Thins(e)
  BY <1>1, <1>2, <1>3 DEF ApplyCancel, RejectUnknown
<1>4. ASSUME NEW id \in OrderIds, NEW tr \in TraderIds, NEW p \in InPrices,
             NEW q \in InQtys, ApplyModify(id, tr, p, q)
      PROVE  \E e : Thins(e)
  BY <1>1, <1>2, <1>4 DEF ApplyModify, RejectUnknown
<1>5. CASE FillFront
  BY <1>5, FillThins
<1>6. CASE StpCancelResting
  BY <1>6, TailThins DEF StpCancelResting
<1>7. CASE StpCancelBoth
  BY <1>7, TailThins DEF StpCancelBoth
<1>8. CASE StpCancelAggressor \/ FinishFilled \/ KillRemainder \/ Drain
  BY <1>1, <1>8 DEF StpCancelAggressor, FinishFilled, KillRemainder, Drain
<1>9. ASSUME NEW id \in OrderIds, NEW tr \in TraderIds, NEW s \in Sides,
             NEW p \in InPrices, NEW q \in InQtys, NEW tif \in InTifs, NEW stp \in InStps,
             ApplyNew(id, tr, s, p, q, tif, stp)
      PROVE  \E e : Thins(e)
  BY <1>1, <1>9 DEF ApplyNew
<1>10. CASE UNCHANGED vars
  BY <1>1, <1>10 DEF vars
<1> QED BY <1>3, <1>4, <1>5, <1>6, <1>7, <1>8, <1>9, <1>10 DEF Next, Proceed

-----------------------------------------------------------------------------
(* A book never crosses.  The induction needs the order of each side: the  *)
(* match loop looks at the front of the opposite side only.                *)

LEMMA ThinningKeepsOrder ==
  ASSUME PriceSorted, NeverCrossed, NEW e, Thins(e)
  PROVE  PriceSorted' /\ NeverCrossed'
<1>1. PriceSorted'
  <2> SUFFICES ASSUME NEW s \in Sides, NEW i \in DOMAIN book'[s], NEW j \in DOMAIN book'[s],
                      i < j
               PROVE  ~ Before(s, book'[s][j].price, book'[s][i].price)
    BY DEF PriceSorted, Before
  <2>1. /\ e[s][i] \in DOMAIN book[s] /\ e[s][j] \in DOMAIN book[s]
        /\ e[s][i] < e[s][j]
        /\ book'[s][i].price = book[s][e[s][i]].price
        /\ book'[s][j].price = book[s][e[s][j]].price
    BY DEF Thins
  <2> QED BY <2>1, Zenon DEF PriceSorted
<1>2. NeverCrossed'
  <2> SUFFICES ASSUME NEW i \in DOMAIN book'["Bid"], NEW j \in DOMAIN book'["Ask"]
               PROVE  book'["Bid"][i].price < book'["Ask"][j].price
    BY DEF NeverCrossed
  <2>1. "Bid" \in Sides /\ "Ask" \in Sides
    BY DEF Sides
  <2>2. /\ e["Bid"][i] \in DOMAIN book["Bid"] /\ e["Ask"][j] \in DOMAIN book["Ask"]
        /\ book'["Bid"][i].price = book["Bid"][e["Bid"][i]].price
        /\ book'["Ask"][j].price = book["Ask"][e["Ask"][j]].price
    BY <2>1 DEF Thins
  <2> QED BY <2>2, Zenon DEF NeverCrossed
<1> QED BY <1>1, <1>2

(* What rests does not meet the opposite side: the loop stopped at its     *)
(* front, and nothing behind the front is better.                          *)
LEMMA RestDoesNotMeet ==
  ASSUME TypeOK, PriceSorted, taker \in Takers, taker.remaining > 0, ~ Marketable,
         NEW j \in DOMAIN book[Opp]
  PROVE  ~ Crosses(taker.side, taker.price, book[Opp][j].price)
<1>1. Opp \in Sides /\ taker.side \in Sides /\ taker.price \in Int /\ taker # NoOrder
  <2>1. taker # NoOrder
    BY BookAssumption
  <2>2. taker.side \in Sides /\ taker.price \in Int
    BY DEF Takers, I64
  <2> QED BY <2>1, <2>2, OppositeTyped DEF Opp
<1>2. /\ book[Opp] \in Seq(Order) /\ DOMAIN book[Opp] = 1 .. Len(book[Opp])
      /\ Len(book[Opp]) \in Nat /\ j \in 1 .. Len(book[Opp]) /\ book[Opp][j].price \in Int
  BY <1>1, OrderTyped, PricesAreInts
<1>3. 1 \in DOMAIN book[Opp] /\ book[Opp] # <<>> /\ book[Opp][1].price \in Int
  <2>1. 1 \in DOMAIN book[Opp] /\ book[Opp] # <<>>
    BY <1>2
  <2> QED BY <1>1, <2>1, PricesAreInts
<1>4. ~ Crosses(taker.side, taker.price, book[Opp][1].price)
  BY <1>1, <1>3 DEF Marketable, Maker
<1>5. j = 1 \/ ~ Before(Opp, book[Opp][j].price, book[Opp][1].price)
  BY <1>1, <1>2, <1>3 DEF PriceSorted
<1> QED BY <1>1, <1>2, <1>3, <1>4, <1>5 DEF Crosses, Before, Opp, Opposite, Sides

(* A remainder that rests is inserted behind the k orders it sorts behind. *)
LEMMA RestInserts ==
  ASSUME TypeOK, RestRemainder
  PROVE  \E k \in 0 .. Len(book[taker.side]) :
           /\ SortsTo(taker, k)
           /\ DOMAIN book'[taker.side] = 1 .. Len(book[taker.side]) + 1
           /\ Len(book'[taker.side]) = Len(book[taker.side]) + 1
           /\ \A j \in 1 .. Len(book[taker.side]) + 1 :
                book'[taker.side][j] = IF j <= k THEN book[taker.side][j]
                                       ELSE IF j = k + 1 THEN Resting(taker)
                                       ELSE book[taker.side][j - 1]
           /\ \A u \in Sides \ {taker.side} : book'[u] = book[u]
<1> DEFINE s == taker.side
<1>1. taker \in Takers /\ s \in Sides
  BY DEF RestRemainder, TypeOK, Takers
<1>2. PICK k \in 0 .. Len(book[s]) :
        /\ SortsTo(taker, k)
        /\ book' = [book EXCEPT ![s] = InsertAt(@, k + 1, Resting(taker))]
  BY DEF RestRemainder
<1>3. book[s] \in Seq(Order) /\ Len(book[s]) \in Nat
  <2>1. book[s] \in Seq(Order)
    BY <1>1 DEF TypeOK
  <2> QED BY <2>1, LenProperties
<1>4. Resting(taker) \in Order
  BY <1>1, RestingTyped
<1>5. book'[s] = InsertAt(book[s], k + 1, Resting(taker))
  BY <1>1, <1>2 DEF TypeOK
<1>6. \A u \in Sides \ {s} : book'[u] = book[u]
  BY <1>1, <1>2 DEF TypeOK
<1>7. /\ DOMAIN book'[s] = 1 .. Len(book[s]) + 1
      /\ Len(book'[s]) = Len(book[s]) + 1
      /\ \A j \in 1 .. Len(book[s]) + 1 :
           book'[s][j] = IF j <= k THEN book[s][j]
                         ELSE IF j = k + 1 THEN Resting(taker) ELSE book[s][j - 1]
  <2>1. k + 1 \in 1 .. Len(book[s]) + 1
    BY <1>3
  <2> HIDE DEF s
  <2>2. /\ book'[s] \in Seq(Order)
        /\ Len(book'[s]) = Len(book[s]) + 1
        /\ \A j \in 1 .. Len(book[s]) + 1 :
             book'[s][j] = IF j < k + 1 THEN book[s][j]
                           ELSE IF j = k + 1 THEN Resting(taker) ELSE book[s][j - 1]
    <3> DEFINE v == book[s]
               w == book'[s]
               r == Resting(taker)
               m == k + 1
    <3>1. v \in Seq(Order) /\ r \in Order /\ m \in 1 .. Len(v) + 1 /\ w = InsertAt(v, m, r)
      BY <1>3, <1>4, <1>5, <2>1
    <3> HIDE DEF v, w, r, m
    <3>2. Inserts(w, v, m, r)
      BY <3>1, InsertOrder
    <3> QED BY <3>2, Zenon DEF Inserts, v, w, r, m
  <2>3. DOMAIN book'[s] = 1 .. Len(book[s]) + 1
    BY <2>2, LenProperties
  <2>4. ASSUME NEW j \in 1 .. Len(book[s]) + 1 PROVE j < k + 1 <=> j <= k
    BY <1>3
  <2> QED BY <2>2, <2>3, <2>4, Zenon
<1> QED BY <1>2, <1>6, <1>7

LEMMA RestingKeepsOrder ==
  ASSUME TypeOK, PriceSorted, NeverCrossed, RestRemainder
  PROVE  PriceSorted' /\ NeverCrossed'
<1> DEFINE s == taker.side
<1>1. /\ taker \in Takers /\ s \in Sides /\ taker.price \in Int
      /\ taker.remaining > 0 /\ ~ Marketable
  BY DEF RestRemainder, TypeOK, Takers, I64
<1>2. PICK k \in 0 .. Len(book[s]) :
        /\ SortsTo(taker, k)
        /\ DOMAIN book'[s] = 1 .. Len(book[s]) + 1
        /\ \A j \in 1 .. Len(book[s]) + 1 :
             book'[s][j] = IF j <= k THEN book[s][j]
                           ELSE IF j = k + 1 THEN Resting(taker) ELSE book[s][j - 1]
        /\ \A u \in Sides \ {s} : book'[u] = book[u]
  BY RestInserts
<1>3. /\ book[s] \in Seq(Order) /\ DOMAIN book[s] = 1 .. Len(book[s]) /\ Len(book[s]) \in Nat
      /\ \A i \in DOMAIN book[s] : book[s][i].price \in Int
  <2>1. book[s] \in Seq(Order)
    BY <1>1 DEF TypeOK
  <2>2. \A i \in DOMAIN book[s] : book[s][i] \in Order
    BY <1>1, OrderTyped
  <2> QED BY <2>1, <2>2, LenProperties DEF Order, I64
<1> DEFINE p(i) == book[s][i].price
           n(i) == book'[s][i].price
<1>4. /\ DOMAIN book'[s] = 1 .. Len(book[s]) + 1
      /\ \A j \in 1 .. Len(book[s]) + 1 :
           n(j) = IF j <= k THEN p(j) ELSE IF j = k + 1 THEN taker.price ELSE p(j - 1)
  <2>1. Resting(taker).price = taker.price
    BY DEF Resting
  <2> QED BY <1>2, <2>1
<1>5. \A u \in Sides \ {s} : book'[u] = book[u]
  BY <1>2
<1>6. PriceSorted'
  <2> SUFFICES ASSUME NEW u \in Sides, NEW i \in DOMAIN book'[u], NEW j \in DOMAIN book'[u],
                      i < j
               PROVE  ~ Before(u, book'[u][j].price, book'[u][i].price)
    BY DEF PriceSorted, Before
  <2>1. CASE u # s
    BY <1>5, <2>1 DEF PriceSorted
  <2>2. CASE u = s
    <3>1. i \in 1 .. Len(book[s]) + 1 /\ j \in 1 .. Len(book[s]) + 1
      BY <1>4, <2>2
    <3>2. \A a, b \in 1 .. Len(book[s]) : a < b => ~ Before(s, p(b), p(a))
      BY <1>1, <1>3 DEF PriceSorted
    <3>3. \A a \in 1 .. Len(book[s]) : a <= k <=> ~ Before(s, taker.price, p(a))
      BY <1>2, <1>3 DEF SortsTo
    <3>4. \A a \in 1 .. Len(book[s]) :
            Before(s, taker.price, p(a)) => ~ Before(s, p(a), taker.price)
      BY <1>1, <1>3 DEF Before
    <3>5. \A a \in 1 .. Len(book[s]) + 1 :
            n(a) = IF a <= k THEN p(a) ELSE IF a = k + 1 THEN taker.price ELSE p(a - 1)
      BY <1>4
    <3> HIDE DEF p, n, s
    <3>6. CASE j <= k
      <4>1. n(i) = p(i) /\ n(j) = p(j) /\ i \in 1 .. Len(book[s]) /\ j \in 1 .. Len(book[s])
        BY <1>3, <3>1, <3>5, <3>6
      <4>2. ~ Before(s, n(j), n(i))
        BY <3>2, <4>1
      <4> QED BY <2>2, <4>2 DEF n
    <3>7. CASE i <= k /\ j = k + 1
      <4>1. n(i) = p(i) /\ n(j) = taker.price /\ i \in 1 .. Len(book[s])
        BY <1>3, <3>1, <3>5, <3>7
      <4>2. ~ Before(s, taker.price, p(i))
        BY <3>3, <3>7, <4>1
      <4>3. ~ Before(s, n(j), n(i))
        BY <4>1, <4>2
      <4> QED BY <2>2, <4>3 DEF n
    <3>8. CASE i <= k /\ j > k + 1
      <4>1. /\ n(i) = p(i) /\ n(j) = p(j - 1) /\ i \in 1 .. Len(book[s])
            /\ j - 1 \in 1 .. Len(book[s]) /\ i < j - 1
        BY <1>3, <3>1, <3>5, <3>8
      <4>2. ~ Before(s, n(j), n(i))
        BY <3>2, <4>1
      <4> QED BY <2>2, <4>2 DEF n
    <3>9. CASE i = k + 1
      <4>1. /\ n(i) = taker.price /\ n(j) = p(j - 1)
            /\ j - 1 \in 1 .. Len(book[s]) /\ ~ (j - 1 <= k)
        BY <1>3, <3>1, <3>5, <3>9
      <4>2. ~ Before(s, n(j), n(i))
        BY <3>3, <3>4, <4>1
      <4> QED BY <2>2, <4>2 DEF n
    <3>10. CASE i > k + 1
      <4>1. /\ n(i) = p(i - 1) /\ n(j) = p(j - 1) /\ i - 1 < j - 1
            /\ i - 1 \in 1 .. Len(book[s]) /\ j - 1 \in 1 .. Len(book[s])
        BY <1>3, <3>1, <3>5, <3>10
      <4>2. ~ Before(s, n(j), n(i))
        BY <3>2, <4>1
      <4> QED BY <2>2, <4>2 DEF n
    <3>11. j <= k \/ (i <= k /\ j = k + 1) \/ (i <= k /\ j > k + 1) \/ i = k + 1 \/ i > k + 1
      BY <1>3, <3>1
    <3> QED BY <3>6, <3>7, <3>8, <3>9, <3>10, <3>11
  <2> QED BY <2>1, <2>2
<1>7. NeverCrossed'
  <2>1. ASSUME NEW j \in DOMAIN book[Opp]
        PROVE  ~ Crosses(s, taker.price, book[Opp][j].price)
    BY <1>1, RestDoesNotMeet
  <2>2. \A i \in DOMAIN book'[s] : n(i) = taker.price \/ \E a \in DOMAIN book[s] : n(i) = p(a)
    <3> SUFFICES ASSUME NEW i \in 1 .. Len(book[s]) + 1
                 PROVE  n(i) = taker.price \/ \E a \in 1 .. Len(book[s]) : n(i) = p(a)
      BY <1>3, <1>4
    <3>1. n(i) = IF i <= k THEN p(i) ELSE IF i = k + 1 THEN taker.price ELSE p(i - 1)
      BY <1>4
    <3>2. i <= k => i \in 1 .. Len(book[s])
      BY <1>3
    <3>3. ~ (i <= k) /\ i # k + 1 => i - 1 \in 1 .. Len(book[s])
      BY <1>3
    <3> HIDE DEF p, n, s
    <3> QED BY <3>1, <3>2, <3>3
  <2>3. \A u \in Sides : \A a \in DOMAIN book[u] : book[u][a].price \in Int
    BY PricesAreInts
  <2>4. CASE s = "Bid"
    <3>1. Opp = "Ask" /\ "Ask" \in Sides \ {s}
      BY <2>4 DEF Opp, Opposite, Sides
    <3>2. \A j \in DOMAIN book["Ask"] : taker.price < book["Ask"][j].price
      BY <1>1, <2>1, <2>3, <2>4, <3>1 DEF Crosses
    <3> QED BY <1>5, <2>2, <2>4, <3>1, <3>2 DEF NeverCrossed
  <2>5. CASE s = "Ask"
    <3>1. Opp = "Bid" /\ "Bid" \in Sides \ {s}
      BY <2>5 DEF Opp, Opposite, Sides
    <3>2. \A j \in DOMAIN book["Bid"] : book["Bid"][j].price < taker.price
      BY <1>1, <2>1, <2>3, <2>5, <3>1 DEF Crosses
    <3> QED BY <1>5, <2>2, <2>5, <3>1, <3>2 DEF NeverCrossed
  <2> QED BY <1>1, <2>4, <2>5 DEF Sides
<1> QED BY <1>6, <1>7

(* No resting bid ever meets a resting ask and every side stays in price   *)
(* order, whatever is entered, cancelled and modified, on every grid.      *)
THEOREM BookNeverCrosses == Spec => [](PriceSorted /\ NeverCrossed)
<1> DEFINE IInv == TypeOK /\ PriceSorted /\ NeverCrossed
<1>1. Init => IInv
  <2>1. Init => PriceSorted /\ NeverCrossed
    BY DEF Init, PriceSorted, NeverCrossed, Sides
  <2> QED BY <2>1, InitTyped
<1>2. IInv /\ [Next]_vars => IInv'
  <2> SUFFICES ASSUME IInv, [Next]_vars PROVE IInv'
    OBVIOUS
  <2>1. TypeOK'
    BY TypeStep
  <2>2. CASE RestRemainder
    BY <2>1, <2>2, RestingKeepsOrder
  <2>3. CASE \E e : Thins(e)
    BY <2>1, <2>3, ThinningKeepsOrder
  <2> QED BY <2>2, <2>3, StepsThin
<1>3. IInv => PriceSorted /\ NeverCrossed
  OBVIOUS
<1> QED BY <1>1, <1>2, <1>3, PTL DEF Spec

(* Every side is in price order, best first: what the sort after a         *)
(* remainder came to rest establishes (reference/src/lib.rs:293), fills,   *)
(* cancels and modifies keep.                                              *)
THEOREM SidesStaySorted == Spec => []PriceSorted
BY BookNeverCrosses, PTL

-----------------------------------------------------------------------------
(***************************************************************************)
(* Time priority: ids are unique, resting orders never overtake one        *)
(* another and newcomers join at the back of their price.                  *)
(***************************************************************************)

(* What a step does to the book and to the order being matched.            *)

SameTaker == taker' # NoOrder => taker # NoOrder /\ taker'.id = taker.id

Keeps == \E e : Thins(e) /\ SameTaker
Accepts == UNCHANGED book /\ ~ Live(taker'.id)
TakesOut == \E s \in Sides : \E i \in DOMAIN book[s] :
              /\ taker'.id = book[s][i].id
              /\ \E e : Thins(e) /\ Spares(e, s, i)

LEMMA ApplyNewKind ==
  ASSUME TypeOK, NEW id \in OrderIds, NEW tr \in TraderIds, NEW s \in Sides,
         NEW p \in InPrices, NEW q \in InQtys, NEW tif \in InTifs, NEW stp \in InStps,
         ApplyNew(id, tr, s, p, q, tif, stp)
  PROVE  Keeps \/ Accepts
<1> DEFINE t == [id |-> id, trader |-> tr, side |-> s, price |-> p,
                 original |-> q, remaining |-> q, tif |-> tif, stp |-> stp]
<1>1. UNCHANGED book
  BY DEF ApplyNew
<1>2. PICK e : Thins(e)
  BY <1>1, UnchangedThins
<1>3. CASE UNCHANGED taker
  BY <1>2, <1>3 DEF Keeps, SameTaker
<1>4. CASE taker' = t /\ NewVerdict(t) = "Accepted"
  <2>1. ~ Live(t.id)
    BY <1>4 DEF NewVerdict
  <2> QED BY <1>1, <1>4, <2>1 DEF Accepts
<1> QED BY <1>3, <1>4 DEF ApplyNew

LEMMA RemoveKind ==
  ASSUME TypeOK, NEW s \in Sides, NEW i \in DOMAIN book[s], RemoveOrder(s, i)
  PROVE  \E e : Thins(e) /\ Spares(e, s, i)
BY RemoveThins DEF RemoveOrder

LEMMA ApplyCancelKind ==
  ASSUME TypeOK, NEW id \in OrderIds, NEW tr \in TraderIds, ApplyCancel(id, tr)
  PROVE  Keeps
<1>1. UNCHANGED taker
  BY DEF ApplyCancel, RejectUnknown
<1>2. \E e : Thins(e)
  <2>1. CASE UNCHANGED book
    BY <2>1, UnchangedThins
  <2>2. ASSUME NEW s \in Sides, NEW i \in DOMAIN book[s], RemoveOrder(s, i)
        PROVE  \E e : Thins(e)
    BY <2>2, RemoveKind
  <2> QED BY <2>1, <2>2 DEF ApplyCancel, RejectUnknown
<1> QED BY <1>1, <1>2 DEF Keeps, SameTaker

LEMMA ApplyModifyKind ==
  ASSUME TypeOK, NEW id \in OrderIds, NEW tr \in TraderIds,
         NEW p \in InPrices, NEW q \in InQtys, ApplyModify(id, tr, p, q)
  PROVE  Keeps \/ TakesOut
<1>1. CASE UNCHANGED <<book, taker>>
  <2>1. \E e : Thins(e)
    BY <1>1, UnchangedThins
  <2> QED BY <1>1, <2>1 DEF Keeps, SameTaker
<1>2. ASSUME NEW s \in Sides, NEW i \in DOMAIN book[s], book[s][i].id = id,
             RemoveOrder(s, i),
             taker' = [id |-> id, trader |-> tr, side |-> book[s][i].side,
                       price |-> p, original |-> q, remaining |-> q,
                       tif |-> "Gtc", stp |-> book[s][i].stp]
      PROVE  TakesOut
  <2>1. \E e : Thins(e) /\ Spares(e, s, i)
    BY <1>2, RemoveKind
  <2>2. taker'.id = book[s][i].id
    BY <1>2
  <2> QED BY <2>1, <2>2 DEF TakesOut
<1> QED BY <1>1, <1>2 DEF ApplyModify, RejectUnknown

LEMMA ProceedKind ==
  ASSUME TypeOK, Proceed
  PROVE  RestRemainder \/ Keeps
<1>1. CASE FillFront
  <2>1. \E e : Thins(e)
    BY <1>1, FillThins
  <2>2. taker \in Takers /\ taker' = [taker EXCEPT !.remaining = taker'.remaining]
    <3>1. taker \in Takers
      BY <1>1, MakerTyped DEF FillFront
    <3> QED BY <1>1, <3>1 DEF FillFront, Takers
  <2>3. SameTaker
    BY <2>2, BookAssumption DEF SameTaker, Takers
  <2> QED BY <2>1, <2>3 DEF Keeps
<1>2. CASE StpCancelResting \/ StpCancelBoth
  <2>1. \E e : Thins(e)
    BY <1>2, TailThins DEF StpCancelResting, StpCancelBoth
  <2>2. SameTaker
    BY <1>2 DEF StpCancelResting, StpCancelBoth, SameTaker
  <2> QED BY <2>1, <2>2 DEF Keeps
<1>3. CASE StpCancelAggressor \/ FinishFilled \/ KillRemainder
  <2>1. UNCHANGED book /\ taker' = NoOrder
    BY <1>3 DEF StpCancelAggressor, FinishFilled, KillRemainder
  <2>2. \E e : Thins(e)
    BY <2>1, UnchangedThins
  <2> QED BY <2>1, <2>2 DEF Keeps, SameTaker
<1> QED BY <1>1, <1>2, <1>3 DEF Proceed

LEMMA StepKinds ==
  ASSUME TypeOK, [Next]_vars
  PROVE  RestRemainder \/ Keeps \/ Accepts \/ TakesOut
<1>1. CASE Drain \/ UNCHANGED vars
  <2>1. UNCHANGED <<book, taker>>
    BY <1>1 DEF Drain, vars
  <2>2. \E e : Thins(e)
    BY <2>1, UnchangedThins
  <2> QED BY <2>1, <2>2 DEF Keeps, SameTaker
<1>2. CASE Proceed
  BY <1>2, ProceedKind
<1>3. ASSUME NEW id \in OrderIds, NEW tr \in TraderIds, NEW s \in Sides,
             NEW p \in InPrices, NEW q \in InQtys, NEW tif \in InTifs, NEW stp \in InStps,
             ApplyNew(id, tr, s, p, q, tif, stp)
      PROVE  Keeps \/ Accepts
  BY <1>3, ApplyNewKind
<1>4. ASSUME NEW id \in OrderIds, NEW tr \in TraderIds, ApplyCancel(id, tr)
      PROVE  Keeps
  BY <1>4, ApplyCancelKind
<1>5. ASSUME NEW id \in OrderIds, NEW tr \in TraderIds, NEW p \in InPrices,
             NEW q \in InQtys, ApplyModify(id, tr, p, q)
      PROVE  Keeps \/ TakesOut
  BY <1>5, ApplyModifyKind
<1> QED BY <1>1, <1>2, <1>3, <1>4, <1>5 DEF Next

-----------------------------------------------------------------------------
(* Unique ids.                                                             *)

LEMMA PositionsAreInts ==
  ASSUME TypeOK', NEW s \in Sides, NEW i \in DOMAIN book'[s]
  PROVE  i \in Int
<1>1. book'[s] \in Seq(Order)
  BY DEF TypeOK
<1> QED BY <1>1, LenProperties

LEMMA SameOrder ==
  ASSUME UniqueIds, NEW s \in Sides, NEW u \in Sides,
         NEW i \in DOMAIN book[s], NEW j \in DOMAIN book[u],
         book[s][i].id = book[u][j].id
  PROVE  s = u /\ i = j
<1>1. book[s][i].id = book[u][j].id => s = u /\ i = j
  BY DEF UniqueIds
<1> QED BY <1>1

(* Two orders of a thinned book with one id come from one order, and are   *)
(* one.                                                                    *)
LEMMA ThinningKeepsIds ==
  ASSUME TypeOK, TypeOK', UniqueIds, NEW e, Thins(e),
         NEW s \in Sides, NEW u \in Sides, NEW i \in DOMAIN book'[s], NEW j \in DOMAIN book'[u],
         book'[s][i].id = book'[u][j].id
  PROVE  s = u /\ i = j
<1>1. /\ e[s][i] \in DOMAIN book[s] /\ book'[s][i].id = book[s][e[s][i]].id
      /\ e[u][j] \in DOMAIN book[u] /\ book'[u][j].id = book[u][e[u][j]].id
  BY DEF Thins
<1>2. s = u /\ e[s][i] = e[u][j]
  <2>1. book[s][e[s][i]].id = book[u][e[u][j]].id
    BY <1>1
  <2> QED BY <1>1, <2>1, SameOrder
<1>3. i \in Int /\ j \in Int
  BY PositionsAreInts
<1>4. e[s][i] \in Int
  BY <1>1, OrderTyped
<1>5. i < j => e[s][i] < e[s][j]
  BY <1>2 DEF Thins
<1>6. j < i => e[s][j] < e[s][i]
  BY <1>2 DEF Thins
<1> QED BY <1>2, <1>3, <1>4, <1>5, <1>6

(* ... and an id that no order had, none has.                              *)
LEMMA ThinningAddsNoId ==
  ASSUME NEW e, Thins(e), NEW s \in Sides, NEW i \in DOMAIN book'[s]
  PROVE  \E k \in DOMAIN book[s] : book'[s][i].id = book[s][k].id
BY DEF Thins

LEMMA KeepsKeepsIds == ASSUME TypeOK, TypeOK', UniqueIds, Keeps PROVE UniqueIds'
<1>1. PICK e : Thins(e) /\ SameTaker
  BY DEF Keeps
<1> SUFFICES ASSUME NEW s \in Sides, NEW u \in Sides,
                    NEW i \in DOMAIN book'[s], NEW j \in DOMAIN book'[u]
             PROVE  /\ book'[s][i].id = book'[u][j].id => s = u /\ i = j
                    /\ taker' # NoOrder => taker'.id # book'[s][i].id
  BY DEF UniqueIds
<1>2. book'[s][i].id = book'[u][j].id => s = u /\ i = j
  BY <1>1, ThinningKeepsIds
<1>3. taker' # NoOrder => taker'.id # book'[s][i].id
  <2>1. PICK k \in DOMAIN book[s] : book'[s][i].id = book[s][k].id
    BY <1>1, ThinningAddsNoId
  <2> QED BY <1>1, <2>1 DEF SameTaker, UniqueIds
<1> QED BY <1>2, <1>3

LEMMA AcceptsKeepsIds == ASSUME UniqueIds, Accepts PROVE UniqueIds'
<1>1. book' = book /\ ~ Live(taker'.id)
  BY DEF Accepts
<1>2. \A s \in Sides : \A i \in DOMAIN book[s] : taker'.id # book[s][i].id
  BY <1>1 DEF Live
<1> QED BY <1>1, <1>2 DEF UniqueIds

LEMMA TakesOutKeepsIds == ASSUME TypeOK, TypeOK', UniqueIds, TakesOut PROVE UniqueIds'
<1>0. PICK r \in Sides : \E m \in DOMAIN book[r] :
        /\ taker'.id = book[r][m].id
        /\ \E e : Thins(e) /\ Spares(e, r, m)
  BY DEF TakesOut
<1>1. PICK m \in DOMAIN book[r] :
        /\ taker'.id = book[r][m].id
        /\ \E e : Thins(e) /\ Spares(e, r, m)
  BY <1>0
<1>2. PICK e : Thins(e) /\ Spares(e, r, m)
  BY <1>1
<1> SUFFICES ASSUME NEW s \in Sides, NEW u \in Sides,
                    NEW i \in DOMAIN book'[s], NEW j \in DOMAIN book'[u]
             PROVE  /\ book'[s][i].id = book'[u][j].id => s = u /\ i = j
                    /\ taker'.id # book'[s][i].id
  BY DEF UniqueIds
<1>3. book'[s][i].id = book'[u][j].id => s = u /\ i = j
  BY <1>2, ThinningKeepsIds
<1>4. taker'.id # book'[s][i].id
  <2>1. e[s][i] \in DOMAIN book[s] /\ book'[s][i].id = book[s][e[s][i]].id
    BY <1>2 DEF Thins
  <2>2. s = r => e[s][i] # m
    BY <1>2 DEF Spares
  <2> QED BY <1>1, <2>1, <2>2 DEF UniqueIds
<1> QED BY <1>3, <1>4

(* A remainder that rests stands at position k + 1 of its side; the order  *)
(* now at another position j of that side was at From(k, j).               *)
From(k, j) == IF j <= k THEN j ELSE j - 1

RestsAt(k) ==
  LET r == taker.side
  IN  /\ SortsTo(taker, k)
      /\ k \in Int
      /\ \A j \in DOMAIN book'[r] :
           /\ j \in Int
           /\ j = k + 1 => /\ book'[r][j].id = taker.id /\ book'[r][j].price = taker.price
                           /\ book'[r][j].trader = taker.trader
           /\ j # k + 1 => /\ From(k, j) \in DOMAIN book[r]
                           /\ book'[r][j] = book[r][From(k, j)]
      /\ \A u \in Sides \ {r} : book'[u] = book[u]

LEMMA RestPosition == ASSUME TypeOK, RestRemainder PROVE \E k : RestsAt(k)
<1> DEFINE r == taker.side
<1>1. r \in Sides
  BY DEF RestRemainder, TypeOK, Takers
<1>2. PICK k \in 0 .. Len(book[r]) :
        /\ SortsTo(taker, k)
        /\ DOMAIN book'[r] = 1 .. Len(book[r]) + 1
        /\ \A j \in 1 .. Len(book[r]) + 1 :
             book'[r][j] = IF j <= k THEN book[r][j]
                           ELSE IF j = k + 1 THEN Resting(taker) ELSE book[r][j - 1]
        /\ \A u \in Sides \ {r} : book'[u] = book[u]
  BY RestInserts
<1>3. Len(book[r]) \in Nat /\ DOMAIN book[r] = 1 .. Len(book[r])
  <2>1. book[r] \in Seq(Order)
    BY <1>1 DEF TypeOK
  <2> QED BY <2>1, LenProperties
<1>4. /\ Resting(taker).id = taker.id /\ Resting(taker).price = taker.price
      /\ Resting(taker).trader = taker.trader
  BY DEF Resting
<1>5. ASSUME NEW j \in DOMAIN book'[r]
      PROVE  /\ j \in Int
             /\ j = k + 1 => /\ book'[r][j].id = taker.id /\ book'[r][j].price = taker.price
                             /\ book'[r][j].trader = taker.trader
             /\ j # k + 1 => /\ From(k, j) \in DOMAIN book[r]
                             /\ book'[r][j] = book[r][From(k, j)]
  <2> HIDE DEF r
  <2>1. j \in 1 .. Len(book[r]) + 1 /\ k \in Int
    BY <1>2, <1>3
  <2>2. CASE j <= k
    BY <1>2, <1>3, <2>1, <2>2 DEF From
  <2>3. CASE j = k + 1
    BY <1>2, <1>3, <1>4, <2>1, <2>3
  <2>4. CASE ~ (j <= k) /\ j # k + 1
    BY <1>2, <1>3, <2>1, <2>4 DEF From
  <2> QED BY <2>1, <2>2, <2>3, <2>4
<1>6. k \in Int
  BY <1>3
<1> QED BY <1>2, <1>5, <1>6 DEF RestsAt

(* Nobody at rest has the id of the order that comes to rest.              *)
LEMMA RestKeepsIds == ASSUME TypeOK, UniqueIds, RestRemainder PROVE UniqueIds'
<1> DEFINE r == taker.side
<1>1. r \in Sides /\ taker # NoOrder /\ taker' = NoOrder
  BY DEF RestRemainder, TypeOK, Takers
<1>2. PICK k : RestsAt(k)
  BY RestPosition
<1>3. /\ k \in Int
      /\ \A j \in DOMAIN book'[r] :
           /\ j \in Int
           /\ j = k + 1 => book'[r][j].id = taker.id
           /\ j # k + 1 => From(k, j) \in DOMAIN book[r] /\ book'[r][j] = book[r][From(k, j)]
      /\ \A u \in Sides \ {r} : book'[u] = book[u]
  BY <1>2 DEF RestsAt
<1>4. ASSUME NEW v \in Sides, NEW l \in DOMAIN book[v] PROVE taker.id # book[v][l].id
  BY <1>1 DEF UniqueIds
<1>5. \A i, j \in DOMAIN book'[r] : i # k + 1 /\ j # k + 1 /\ From(k, i) = From(k, j) => i = j
  BY <1>3 DEF From
<1> HIDE DEF r
<1> SUFFICES ASSUME NEW s \in Sides, NEW u \in Sides,
                    NEW i \in DOMAIN book'[s], NEW j \in DOMAIN book'[u],
                    book'[s][i].id = book'[u][j].id
             PROVE  s = u /\ i = j
  BY <1>1 DEF UniqueIds
<1>6. CASE s = r /\ u = r
  BY <1>3, <1>4, <1>5, <1>6 DEF UniqueIds
<1>7. CASE s = r /\ u # r
  <2>1. j \in DOMAIN book[u] /\ book'[u][j].id = book[u][j].id
    BY <1>3, <1>7
  <2> QED BY <1>1, <1>3, <1>4, <1>7, <2>1 DEF UniqueIds
<1>8. CASE s # r /\ u = r
  <2>1. i \in DOMAIN book[s] /\ book'[s][i].id = book[s][i].id
    BY <1>3, <1>8
  <2> QED BY <1>1, <1>3, <1>4, <1>8, <2>1 DEF UniqueIds
<1>9. CASE s # r /\ u # r
  <2>1. /\ i \in DOMAIN book[s] /\ book'[s][i].id = book[s][i].id
        /\ j \in DOMAIN book[u] /\ book'[u][j].id = book[u][j].id
    BY <1>3, <1>9
  <2>2. book[s][i].id = book[u][j].id
    BY <2>1
  <2> QED BY <2>1, <2>2, SameOrder
<1> QED BY <1>6, <1>7, <1>8, <1>9

LEMMA UniqueStep ==
  ASSUME TypeOK, TypeOK', UniqueIds, [Next]_vars
  PROVE  UniqueIds'
BY StepKinds, RestKeepsIds, KeepsKeepsIds, AcceptsKeepsIds, TakesOutKeepsIds

LEMMA InitUnique == Init => UniqueIds
BY DEF Init, UniqueIds, Sides

(* At any time an id rests at most once, and not at all while an order of  *)
(* that id is being matched: find() and retain() mean the same order.      *)
THEOREM IdsAreUnique == Spec => []UniqueIds
<1> DEFINE IInv == TypeOK /\ UniqueIds
<1>1. Init => IInv
  BY InitTyped, InitUnique
<1>2. IInv /\ [Next]_vars => IInv'
  BY TypeStep, UniqueStep
<1>3. IInv => UniqueIds
  OBVIOUS
<1> QED BY <1>1, <1>2, <1>3, PTL DEF Spec

-----------------------------------------------------------------------------
(* Time priority.                                                          *)

Overtakes == \E s \in Sides : \E i, j \in DOMAIN book[s] : \E k, l \in DOMAIN book'[s] :
               /\ i < j
               /\ book[s][i].id = book'[s][k].id
               /\ book[s][j].id = book'[s][l].id
               /\ ~ (k < l)

LEMMA ThinningKeepsPriority ==
  ASSUME TypeOK, TypeOK', UniqueIds, NEW e, Thins(e)
  PROVE  ~ Overtakes
<1> SUFFICES ASSUME NEW s \in Sides, NEW i \in DOMAIN book[s], NEW j \in DOMAIN book[s],
                    NEW k \in DOMAIN book'[s], NEW l \in DOMAIN book'[s],
                    i < j, book[s][i].id = book'[s][k].id, book[s][j].id = book'[s][l].id
             PROVE  k < l
  BY DEF Overtakes
<1>1. /\ e[s][k] \in DOMAIN book[s] /\ book[s][e[s][k]].id = book[s][i].id
      /\ e[s][l] \in DOMAIN book[s] /\ book[s][e[s][l]].id = book[s][j].id
  BY DEF Thins
<1>2. e[s][k] = i /\ e[s][l] = j
  BY <1>1, SameOrder
<1>3. i \in Int /\ j \in Int /\ k \in Int /\ l \in Int
  BY OrderTyped, PositionsAreInts
<1>4. l < k => e[s][l] < e[s][k]
  BY DEF Thins
<1> QED BY <1>2, <1>3, <1>4

LEMMA RestKeepsPriority == ASSUME TypeOK, TypeOK', UniqueIds, RestRemainder PROVE ~ Overtakes
<1> DEFINE r == taker.side
<1> SUFFICES ASSUME NEW s \in Sides, NEW i \in DOMAIN book[s], NEW j \in DOMAIN book[s],
                    NEW m \in DOMAIN book'[s], NEW l \in DOMAIN book'[s],
                    i < j, book[s][i].id = book'[s][m].id, book[s][j].id = book'[s][l].id
             PROVE  m < l
  BY DEF Overtakes
<1>1. r \in Sides /\ taker # NoOrder
  BY DEF RestRemainder, TypeOK, Takers
<1>2. PICK k : RestsAt(k)
  BY RestPosition
<1>3. taker.id # book[s][i].id /\ taker.id # book[s][j].id
  BY <1>1 DEF UniqueIds
<1>4. i \in Int /\ j \in Int /\ m \in Int /\ l \in Int
  BY OrderTyped, PositionsAreInts
<1>5. CASE s = r
  <2>1. /\ k \in Int /\ m # k + 1 /\ l # k + 1
        /\ From(k, m) \in DOMAIN book[s] /\ book'[s][m].id = book[s][From(k, m)].id
        /\ From(k, l) \in DOMAIN book[s] /\ book'[s][l].id = book[s][From(k, l)].id
    BY <1>2, <1>3, <1>5 DEF RestsAt
  <2>2. book[s][From(k, m)].id = book[s][i].id /\ book[s][From(k, l)].id = book[s][j].id
    BY <2>1
  <2>3. From(k, m) = i /\ From(k, l) = j
    BY <2>1, <2>2, SameOrder
  <2> QED BY <1>4, <2>1, <2>3 DEF From
<1>6. CASE s # r
  <2>1. book'[s] = book[s]
    BY <1>2, <1>6 DEF RestsAt
  <2>2. m = i /\ l = j
    BY <2>1, SameOrder
  <2> QED BY <2>2
<1> QED BY <1>5, <1>6

LEMMA PriorityStep ==
  ASSUME TypeOK, TypeOK', UniqueIds, [Next]_vars
  PROVE  ~ Overtakes
<1>1. CASE RestRemainder
  BY <1>1, RestKeepsPriority
<1>2. CASE \E e : Thins(e)
  BY <1>2, ThinningKeepsPriority
<1> QED BY <1>1, <1>2, StepsThin

(* Of two orders on one side that both stay, the one ahead stays ahead,    *)
(* whatever is matched, cancelled, modified or entered in between.         *)
THEOREM OrdersNeverOvertake == Spec => NeverOvertakes
<1> DEFINE Ordered == \A s \in Sides : \A i, j \in DOMAIN book[s] : \A k, l \in DOMAIN book'[s] :
                        (i < j /\ book[s][i].id = book'[s][k].id /\ book[s][j].id = book'[s][l].id)
                          => k < l
<1>1. TypeOK /\ TypeOK' /\ UniqueIds /\ [Next]_vars => [Ordered]_vars
  <2> SUFFICES ASSUME TypeOK, TypeOK', UniqueIds, [Next]_vars PROVE Ordered
    OBVIOUS
  <2>1. ~ Overtakes
    BY PriorityStep
  <2> QED BY <2>1 DEF Overtakes
<1>2. [][Ordered]_vars => NeverOvertakes
  BY PTL DEF NeverOvertakes
<1> HIDE DEF Ordered
<1> QED BY <1>1, <1>2, TypeCorrect, IdsAreUnique, PTL DEF Spec

(* An order that was not on the book before the step.                      *)
JumpsIn == \E s \in Sides : \E k, l \in DOMAIN book'[s] :
             /\ ~ Live(book'[s][l].id)
             /\ k > l
             /\ book'[s][k].price = book'[s][l].price

LEMMA RestJoinsAtTheBack == ASSUME TypeOK, TypeOK', RestRemainder PROVE ~ JumpsIn
<1> DEFINE r == taker.side
<1> SUFFICES ASSUME NEW s \in Sides, NEW m \in DOMAIN book'[s], NEW l \in DOMAIN book'[s],
                    ~ Live(book'[s][l].id), m > l
             PROVE  book'[s][m].price # book'[s][l].price
  BY DEF JumpsIn
<1>1. PICK k : RestsAt(k)
  BY RestPosition
<1>2. taker.price \in Int /\ r \in Sides
  BY DEF RestRemainder, TypeOK, Takers, I64
<1>3. s = r
  BY <1>1 DEF RestsAt, Live
<1>4. l = k + 1 /\ book'[s][l].price = taker.price
  BY <1>1, <1>3 DEF RestsAt, Live
<1>5. /\ k \in Int /\ m \in Int /\ m # k + 1
      /\ From(k, m) \in DOMAIN book[r]
      /\ book'[s][m].price = book[r][From(k, m)].price
  BY <1>1, <1>3, <1>4, PositionsAreInts DEF RestsAt
<1>6. ~ (From(k, m) <= k)
  BY <1>4, <1>5 DEF From
<1>7. Before(r, taker.price, book[r][From(k, m)].price)
  BY <1>1, <1>5, <1>6 DEF RestsAt, SortsTo
<1>8. book[r][From(k, m)].price \in Int
  BY <1>2, <1>5, PricesAreInts
<1> QED BY <1>2, <1>4, <1>5, <1>7, <1>8 DEF Before

(* Only the remainder of a taker ever enters the book, and it goes behind  *)
(* every order that is there at its price.                                 *)
THEOREM NewcomersJoinAtTheBack == Spec => JoinsAtTheBack
<1> DEFINE Behind == \A s \in Sides : \A k, l \in DOMAIN book'[s] :
                       (~ Live(book'[s][l].id) /\ k > l) => book'[s][k].price # book'[s][l].price
<1>1. TypeOK /\ TypeOK' /\ [Next]_vars => [Behind]_vars
  <2> SUFFICES ASSUME TypeOK, TypeOK', [Next]_vars PROVE Behind
    OBVIOUS
  <2>1. CASE RestRemainder
    <3>1. ~ JumpsIn
      BY <2>1, RestJoinsAtTheBack
    <3> QED BY <3>1 DEF JumpsIn
  <2>2. CASE \E e : Thins(e)
    BY <2>2 DEF Thins, Live
  <2> QED BY <2>1, <2>2, StepsThin
<1>2. [][Behind]_vars => JoinsAtTheBack
  BY PTL DEF JoinsAtTheBack
<1> HIDE DEF Behind
<1> QED BY <1>1, <1>2, TypeCorrect, PTL DEF Spec

-----------------------------------------------------------------------------
(***************************************************************************)
(* How many orders the book holds and what is left of each.                *)
(***************************************************************************)

(* Room for the remainder.                                                 *)

LEMMA TwoSides ==
  /\ "Bid" \in Sides /\ "Ask" \in Sides
  /\ "Bid" \in Sides \ {"Ask"} /\ "Ask" \in Sides \ {"Bid"}
  /\ \A s \in Sides : s = "Bid" \/ s = "Ask"
BY DEF Sides

LEMMA CountsAreNat ==
  ASSUME NEW bk \in [Sides -> Seq(Order)]
  PROVE  /\ \A s \in Sides : Len(bk[s]) \in Nat
         /\ Len(bk["Bid"]) + Len(bk["Ask"]) \in Nat
<1>1. \A s \in Sides : Len(bk[s]) \in Nat
  <2> SUFFICES ASSUME NEW s \in Sides PROVE Len(bk[s]) \in Nat
    OBVIOUS
  <2>1. bk[s] \in Seq(Order)
    OBVIOUS
  <2> QED BY <2>1, LenProperties
<1> DEFINE bids == Len(bk["Bid"])
           asks == Len(bk["Ask"])
<1>2. bids \in Nat /\ asks \in Nat
  BY <1>1, TwoSides
<1> HIDE DEF bids, asks
<1>3. bids + asks \in Nat
  BY <1>2
<1> QED BY <1>1, <1>3, Zenon DEF bids, asks

(* One side grows by d and the other stays.                                *)
LEMMA CountChange ==
  ASSUME TypeOK, NEW s \in Sides, NEW d \in Int,
         Len(book'[s]) = Len(book[s]) + d,
         \A u \in Sides \ {s} : book'[u] = book[u]
  PROVE  LiveCount' = LiveCount + d
<1> DEFINE bids == Len(book["Bid"])
           asks == Len(book["Ask"])
           bidsN == Len(book'["Bid"])
           asksN == Len(book'["Ask"])
<1>1. bids \in Nat /\ asks \in Nat
  BY CountsAreNat, TwoSides DEF TypeOK
<1>2. CASE s = "Bid"
  <2>1. bidsN = bids + d /\ asksN = asks
    BY <1>2, TwoSides
  <2> HIDE DEF bids, asks, bidsN, asksN
  <2>2. bidsN + asksN = bids + asks + d
    BY <1>1, <2>1
  <2> QED BY <2>2, Zenon DEF LiveCount, bids, asks, bidsN, asksN
<1>3. CASE s = "Ask"
  <2>1. bidsN = bids /\ asksN = asks + d
    BY <1>3, TwoSides
  <2> HIDE DEF bids, asks, bidsN, asksN
  <2>2. bidsN + asksN = bids + asks + d
    BY <1>1, <2>1
  <2> QED BY <2>2, Zenon DEF LiveCount, bids, asks, bidsN, asksN
<1> QED BY <1>2, <1>3, TwoSides

LEMMA RemoveCount ==
  ASSUME TypeOK, NEW s \in Sides, NEW i \in DOMAIN book[s],
         book' = [book EXCEPT ![s] = RemoveAt(@, i)]
  PROVE  LiveCount' = LiveCount + (-1)
<1>1. book'[s] = RemoveAt(book[s], i) /\ \A u \in Sides \ {s} : book'[u] = book[u]
  BY DEF TypeOK
<1>2. Len(RemoveAt(book[s], i)) = Len(book[s]) - 1 /\ Len(book[s]) \in Nat
  BY OrderTyped, RemoveAtFacts
<1>3. Len(book'[s]) = Len(book[s]) + (-1)
  BY <1>1, <1>2
<1> QED BY <1>1, <1>3, CountChange

LEMMA TailCount ==
  ASSUME TypeOK, Marketable, book' = [book EXCEPT ![Opp] = Tail(@)]
  PROVE  LiveCount' = LiveCount + (-1)
<1>1. Opp \in Sides /\ book[Opp] \in Seq(Order) /\ book[Opp] # <<>> /\ 1 \in DOMAIN book[Opp]
  BY MakerTyped
<1>2. book' = [book EXCEPT ![Opp] = RemoveAt(@, 1)]
  BY <1>1, TailIsRemoveAt
<1> QED BY <1>1, <1>2, RemoveCount

LEMMA FillCount == ASSUME TypeOK, FillFront PROVE LiveCount' <= LiveCount
<1> DEFINE q == Smaller(taker.remaining, Maker.remaining)
<1>1. Marketable /\ book' = [book EXCEPT ![Opp] = AfterFill(@, q)]
  BY DEF FillFront
<1>2. Opp \in Sides /\ book[Opp] \in Seq(Order)
  BY <1>1, MakerTyped
<1>3. LiveCount \in Nat
  BY CountsAreNat DEF TypeOK, LiveCount
<1> HIDE DEF q
<1>4. CASE q = book[Opp][1].remaining
  <2>1. book' = [book EXCEPT ![Opp] = Tail(@)]
    BY <1>1, <1>4 DEF AfterFill
  <2>2. LiveCount' = LiveCount + (-1)
    BY <1>1, <2>1, TailCount
  <2> QED BY <1>3, <2>2
<1>5. CASE q # book[Opp][1].remaining
  <2>1. book'[Opp] = [book[Opp] EXCEPT ![1].remaining = @ - q]
    BY <1>1, <1>2, <1>5 DEF AfterFill, TypeOK
  <2>2. Len(book'[Opp]) = Len(book[Opp])
    BY <1>2, <2>1
  <2>3. \A u \in Sides \ {Opp} : book'[u] = book[u]
    BY <1>1 DEF TypeOK
  <2>4. Len(book[Opp]) \in Nat
    BY <1>2, LenProperties
  <2>5. Len(book'[Opp]) = Len(book[Opp]) + 0
    BY <2>2, <2>4
  <2>6. LiveCount' = LiveCount + 0
    BY <1>2, <2>3, <2>5, CountChange
  <2> QED BY <1>3, <2>6
<1> QED BY <1>4, <1>5

LEMMA RestCount == ASSUME TypeOK, RestRemainder PROVE LiveCount' = LiveCount + 1
<1> DEFINE s == taker.side
<1>1. s \in Sides
  BY DEF RestRemainder, TypeOK, Takers
<1>2. Len(book'[s]) = Len(book[s]) + 1 /\ \A u \in Sides \ {s} : book'[u] = book[u]
  BY RestInserts
<1> HIDE DEF s
<1> QED BY <1>1, <1>2, CountChange

LEMMA RoomStep ==
  ASSUME TypeOK, TypeOK', RoomToRest, [Next]_vars
  PROVE  RoomToRest'
<1>0. LiveCount \in Nat /\ LiveCount' \in Nat /\ MaxLiveOrders \in Nat \ {0}
  <2>1. LiveCount \in Nat
    BY CountsAreNat DEF TypeOK, LiveCount
  <2>2. LiveCount' \in Nat
    BY CountsAreNat DEF TypeOK, LiveCount
  <2> QED BY <2>1, <2>2, BookAssumption
<1>1. ASSUME UNCHANGED book PROVE LiveCount' = LiveCount
  BY <1>1 DEF LiveCount
<1>2. CASE FillFront
  <2>1. taker # NoOrder /\ LiveCount' <= LiveCount
    BY <1>2, FillCount DEF FillFront, Marketable
  <2> DEFINE n == LiveCount
             m == LiveCount'
             t == IF taker' = NoOrder THEN 0 ELSE 1
  <2>2. n + 1 <= MaxLiveOrders
    BY <2>1, Zenon DEF RoomToRest
  <2>3. n \in Nat /\ m \in Nat /\ m <= n /\ t \in {0, 1}
    BY <1>0, <2>1
  <2> HIDE DEF n, m, t
  <2>4. m + t <= MaxLiveOrders
    BY <1>0, <2>2, <2>3
  <2> QED BY <2>4, Zenon DEF RoomToRest, m, t
<1>3. CASE StpCancelResting \/ StpCancelBoth
  <2>1. taker # NoOrder /\ LiveCount' = LiveCount + (-1)
    BY <1>3, TailCount DEF StpCancelResting, StpCancelBoth, Marketable
  <2> QED BY <1>0, <2>1 DEF RoomToRest
<1>4. CASE StpCancelAggressor \/ FinishFilled \/ KillRemainder \/ Drain \/ UNCHANGED vars
  <2>1. UNCHANGED book /\ (taker' = NoOrder \/ taker' = taker)
    BY <1>4 DEF StpCancelAggressor, FinishFilled, KillRemainder, Drain, vars
  <2> QED BY <1>0, <1>1, <2>1 DEF RoomToRest
<1>5. CASE RestRemainder
  <2>1. taker # NoOrder /\ taker' = NoOrder /\ LiveCount' = LiveCount + 1
    BY <1>5, RestCount DEF RestRemainder
  <2> QED BY <1>0, <2>1 DEF RoomToRest
<1>6. ASSUME NEW id \in OrderIds, NEW tr \in TraderIds, NEW s \in Sides,
             NEW p \in InPrices, NEW q \in InQtys, NEW tif \in InTifs, NEW stp \in InStps,
             ApplyNew(id, tr, s, p, q, tif, stp)
      PROVE  RoomToRest'
  <2>1. UNCHANGED book
    BY <1>6 DEF ApplyNew
  <2>2. UNCHANGED taker \/ ~ AtCapacity
    BY <1>6 DEF ApplyNew, NewVerdict
  <2> QED BY <1>0, <1>1, <2>1, <2>2 DEF RoomToRest, AtCapacity
<1>7. ASSUME NEW s \in Sides, NEW i \in DOMAIN book[s], RemoveOrder(s, i), Quiescent
      PROVE  RoomToRest'
  <2>1. LiveCount' = LiveCount + (-1)
    BY <1>7, RemoveCount DEF RemoveOrder
  <2> QED BY <1>0, <1>7, <2>1 DEF RoomToRest, Quiescent
<1>8. ASSUME NEW id \in OrderIds, NEW tr \in TraderIds, ApplyCancel(id, tr)
      PROVE  RoomToRest'
  <2>1. CASE UNCHANGED <<book, taker>>
    BY <1>0, <1>1, <2>1 DEF RoomToRest
  <2> QED BY <1>7, <1>8, <2>1 DEF ApplyCancel, RejectUnknown
<1>9. ASSUME NEW id \in OrderIds, NEW tr \in TraderIds, NEW p \in InPrices,
             NEW q \in InQtys, ApplyModify(id, tr, p, q)
      PROVE  RoomToRest'
  <2>1. CASE UNCHANGED <<book, taker>>
    BY <1>0, <1>1, <2>1 DEF RoomToRest
  <2> QED BY <1>7, <1>9, <2>1 DEF ApplyModify, RejectUnknown
<1> QED BY <1>2, <1>3, <1>4, <1>5, <1>6, <1>7, <1>8, <1>9 DEF Next, Proceed

(* The capacity check made before matching still holds when the remainder  *)
(* rests, and a Modify, which is not checked, has room as well.            *)
THEOREM AlwaysRoomToRest == Spec => []RoomToRest
<1> DEFINE IInv == TypeOK /\ RoomToRest
<1>1. Init => IInv
  <2> SUFFICES ASSUME Init PROVE RoomToRest
    BY InitTyped
  <2>1. LiveCount = 0
    BY DEF Init, LiveCount, Sides
  <2> QED BY <2>1, BookAssumption DEF Init, RoomToRest
<1>2. IInv /\ [Next]_vars => IInv'
  BY TypeStep, RoomStep
<1>3. IInv => RoomToRest
  OBVIOUS
<1> QED BY <1>1, <1>2, <1>3, PTL DEF Spec

-----------------------------------------------------------------------------
(* What is left of the orders.  The order being matched is on the grid and *)
(* has no more left than it was entered with: what it leaves is sound.     *)

Sound(s, o) == o.remaining \in 1 .. o.original /\ OnGrid(o.price) /\ o.side = s

TakerSound == taker # NoOrder => taker.remaining <= taker.original /\ OnGrid(taker.price)

(* Every order on the book was there before.                               *)
NoneNew == \A s \in Sides : \A j \in DOMAIN book'[s] :
             \E i \in DOMAIN book[s] : book'[s][j] = book[s][i]

LEMMA NoneNewKeepsSound == ASSUME RestingOrdersSound, NoneNew PROVE RestingOrdersSound'
<1> SUFFICES ASSUME NEW s \in Sides, NEW j \in DOMAIN book'[s] PROVE Sound(s, book'[s][j])
  BY DEF RestingOrdersSound, Sound
<1>1. PICK i \in DOMAIN book[s] : book'[s][j] = book[s][i]
  BY DEF NoneNew
<1>2. Sound(s, book[s][i])
  BY DEF RestingOrdersSound, Sound
<1> QED BY <1>1, <1>2

LEMMA UnchangedNoneNew == ASSUME UNCHANGED book PROVE NoneNew
BY DEF NoneNew

LEMMA RemoveNoneNew ==
  ASSUME TypeOK, NEW s \in Sides, NEW i \in DOMAIN book[s],
         book' = [book EXCEPT ![s] = RemoveAt(@, i)]
  PROVE  NoneNew
<1>1. /\ book[s] \in Seq(Order) /\ Len(book[s]) \in Nat /\ i \in 1 .. Len(book[s])
      /\ DOMAIN book[s] = 1 .. Len(book[s])
  BY OrderTyped
<1>2. /\ book'[s] \in Seq(Order)
      /\ Len(book'[s]) = Len(book[s]) - 1
      /\ \A j \in 1 .. Len(book[s]) - 1 :
           book'[s][j] = IF j < i THEN book[s][j] ELSE book[s][j + 1]
  <2>1. book'[s] = RemoveAt(book[s], i)
    BY DEF TypeOK
  <2> QED BY <1>1, <2>1, RemoveAtFacts
<1>3. DOMAIN book'[s] = 1 .. Len(book[s]) - 1
  BY <1>2, LenProperties
<1>4. ASSUME NEW j \in DOMAIN book'[s]
      PROVE  \E k \in DOMAIN book[s] : book'[s][j] = book[s][k]
  <2>1. j \in DOMAIN book[s] /\ j + 1 \in DOMAIN book[s]
    BY <1>1, <1>3
  <2>2. book'[s][j] = book[s][j] \/ book'[s][j] = book[s][j + 1]
    BY <1>2, <1>3
  <2> QED BY <2>1, <2>2, Zenon
<1>5. \A u \in Sides \ {s} : book'[u] = book[u]
  BY DEF TypeOK
<1> QED BY <1>4, <1>5 DEF NoneNew

LEMMA TailNoneNew ==
  ASSUME TypeOK, Marketable, book' = [book EXCEPT ![Opp] = Tail(@)]
  PROVE  NoneNew
<1>1. Opp \in Sides /\ book[Opp] \in Seq(Order) /\ book[Opp] # <<>> /\ 1 \in DOMAIN book[Opp]
  BY MakerTyped
<1>2. book' = [book EXCEPT ![Opp] = RemoveAt(@, 1)]
  BY <1>1, TailIsRemoveAt
<1> QED BY <1>1, <1>2, RemoveNoneNew

LEMMA FillKeepsSound ==
  ASSUME TypeOK, RestingOrdersSound, TakerSound, FillFront
  PROVE  RestingOrdersSound' /\ TakerSound'
<1> DEFINE q == Smaller(taker.remaining, Maker.remaining)
<1>1. /\ Marketable
      /\ book' = [book EXCEPT ![Opp] = AfterFill(@, q)]
      /\ taker' = [taker EXCEPT !.remaining = @ - q]
  BY DEF FillFront
<1>2. /\ taker \in Takers /\ Opp \in Sides /\ Maker \in Order /\ Maker = book[Opp][1]
      /\ book[Opp] \in Seq(Order) /\ 1 \in DOMAIN book[Opp]
  BY <1>1, MakerTyped DEF Maker
<1>3. q \in Nat /\ q <= taker.remaining /\ q <= Maker.remaining
  BY <1>2 DEF Smaller, Takers, Order
<1> HIDE DEF q
<1>4. TakerSound'
  <2>1. taker # NoOrder
    BY <1>1 DEF Marketable
  <2>2. /\ taker'.remaining = taker.remaining - q
        /\ taker'.original = taker.original /\ taker'.price = taker.price
    BY <1>1, <1>2 DEF Takers
  <2>3. taker.remaining \in Nat /\ taker.original \in Nat
    BY <1>2 DEF Takers
  <2> QED BY <1>3, <2>1, <2>2, <2>3 DEF TakerSound
<1>5. CASE q = Maker.remaining
  <2>1. book' = [book EXCEPT ![Opp] = Tail(@)]
    BY <1>1, <1>2, <1>5 DEF AfterFill
  <2> QED BY <1>1, <1>4, <2>1, TailNoneNew, NoneNewKeepsSound
<1>6. CASE q # Maker.remaining
  <2>1. book'[Opp] = [book[Opp] EXCEPT ![1].remaining = @ - q]
    BY <1>1, <1>2, <1>6 DEF AfterFill, TypeOK
  <2>2. \A u \in Sides \ {Opp} : book'[u] = book[u]
    BY <1>1 DEF TypeOK
  <2>3. Sound(Opp, Maker)
    BY <1>2 DEF RestingOrdersSound, Sound
  <2>4. Sound(Opp, book'[Opp][1])
    <3>1. book'[Opp][1] = [Maker EXCEPT !.remaining = @ - q]
      BY <1>2, <2>1
    <3>2. /\ book'[Opp][1].remaining = Maker.remaining - q
          /\ book'[Opp][1].original = Maker.original
          /\ book'[Opp][1].price = Maker.price /\ book'[Opp][1].side = Maker.side
      BY <1>2, <3>1 DEF Order
    <3>3. Maker.remaining \in Nat /\ Maker.original \in Nat
      BY <1>2 DEF Order
    <3> QED BY <1>3, <1>6, <2>3, <3>2, <3>3 DEF Sound
  <2>5. ASSUME NEW s \in Sides, NEW j \in DOMAIN book'[s] PROVE Sound(s, book'[s][j])
    <3>1. CASE s = Opp /\ j = 1
      BY <2>4, <3>1
    <3>2. CASE s # Opp \/ j # 1
      <4>1. j \in DOMAIN book[s] /\ book'[s][j] = book[s][j]
        BY <2>1, <2>2, <3>2
      <4> QED BY <4>1 DEF RestingOrdersSound, Sound
    <3> QED BY <3>1, <3>2
  <2> QED BY <1>4, <2>5 DEF RestingOrdersSound, Sound
<1> QED BY <1>5, <1>6

LEMMA RestKeepsSound ==
  ASSUME TypeOK, RestingOrdersSound, TakerSound, RestRemainder
  PROVE  RestingOrdersSound' /\ TakerSound'
<1> DEFINE r == taker.side
<1>1. taker \in Takers /\ r \in Sides /\ taker # NoOrder /\ taker.remaining > 0
  BY DEF RestRemainder, TypeOK, Takers
<1>2. PICK k \in 0 .. Len(book[r]) :
        /\ DOMAIN book'[r] = 1 .. Len(book[r]) + 1
        /\ \A j \in 1 .. Len(book[r]) + 1 :
             book'[r][j] = IF j <= k THEN book[r][j]
                           ELSE IF j = k + 1 THEN Resting(taker) ELSE book[r][j - 1]
        /\ \A u \in Sides \ {r} : book'[u] = book[u]
  BY RestInserts
<1>3. Len(book[r]) \in Nat /\ DOMAIN book[r] = 1 .. Len(book[r])
  <2>1. book[r] \in Seq(Order)
    BY <1>1 DEF TypeOK
  <2> QED BY <2>1, LenProperties
<1>4. Sound(r, Resting(taker))
  <2>1. taker.remaining \in 1 .. taker.original
    BY <1>1 DEF TakerSound, Takers
  <2> QED BY <1>1, <2>1 DEF Sound, Resting, TakerSound
<1> HIDE DEF r
<1>5. \A s \in Sides : \A i \in DOMAIN book[s] : Sound(s, book[s][i])
  BY DEF RestingOrdersSound, Sound
<1>6. ASSUME NEW j \in DOMAIN book'[r] PROVE Sound(r, book'[r][j])
  <2>1. CASE j <= k
    <3>1. j \in DOMAIN book[r] /\ book'[r][j] = book[r][j]
      BY <1>2, <1>3, <2>1
    <3> QED BY <1>1, <1>5, <3>1
  <2>2. CASE j = k + 1
    <3>1. book'[r][j] = Resting(taker)
      BY <1>2, <1>3, <2>2
    <3> QED BY <1>4, <3>1
  <2>3. CASE ~ (j <= k) /\ j # k + 1
    <3>1. j - 1 \in DOMAIN book[r] /\ book'[r][j] = book[r][j - 1]
      BY <1>2, <1>3, <2>3
    <3> QED BY <1>1, <1>5, <3>1
  <2> QED BY <2>1, <2>2, <2>3
<1>7. ASSUME NEW s \in Sides, NEW j \in DOMAIN book'[s] PROVE Sound(s, book'[s][j])
  <2>1. CASE s # r
    BY <1>2, <1>5, <2>1
  <2> QED BY <1>6, <2>1
<1>8. TakerSound'
  BY DEF RestRemainder, TakerSound
<1> QED BY <1>7, <1>8 DEF RestingOrdersSound, Sound

LEMMA SoundStep ==
  ASSUME TypeOK, RestingOrdersSound, TakerSound, [Next]_vars
  PROVE  RestingOrdersSound' /\ TakerSound'
<1>1. CASE FillFront
  BY <1>1, FillKeepsSound
<1>2. CASE StpCancelResting \/ StpCancelBoth
  <2>1. Marketable /\ book' = [book EXCEPT ![Opp] = Tail(@)]
        /\ (taker' = taker \/ taker' = NoOrder)
    BY <1>2 DEF StpCancelResting, StpCancelBoth
  <2> QED BY <2>1, TailNoneNew, NoneNewKeepsSound DEF TakerSound
<1>3. CASE StpCancelAggressor \/ FinishFilled \/ KillRemainder \/ Drain \/ UNCHANGED vars
  <2>1. UNCHANGED book /\ (taker' = NoOrder \/ taker' = taker)
    BY <1>3 DEF StpCancelAggressor, FinishFilled, KillRemainder, Drain, vars
  <2> QED BY <2>1, UnchangedNoneNew, NoneNewKeepsSound DEF TakerSound
<1>4. CASE RestRemainder
  BY <1>4, RestKeepsSound
<1>5. ASSUME NEW id \in OrderIds, NEW tr \in TraderIds, NEW s \in Sides,
             NEW p \in InPrices, NEW q \in InQtys, NEW tif \in InTifs, NEW stp \in InStps,
             ApplyNew(id, tr, s, p, q, tif, stp)
      PROVE  RestingOrdersSound' /\ TakerSound'
  <2> DEFINE t == [id |-> id, trader |-> tr, side |-> s, price |-> p,
                   original |-> q, remaining |-> q, tif |-> tif, stp |-> stp]
  <2>1. RestingOrdersSound'
    BY <1>5, UnchangedNoneNew, NoneNewKeepsSound DEF ApplyNew
  <2>2. CASE taker' = t /\ NewVerdict(t) = "Accepted"
    <3>1. OnGrid(t.price)
      BY <2>2 DEF NewVerdict
    <3>2. t.remaining <= t.original
      BY BookAssumption
    <3> QED BY <2>1, <2>2, <3>1, <3>2 DEF TakerSound
  <2>3. CASE UNCHANGED taker
    BY <2>1, <2>3 DEF TakerSound
  <2> QED BY <1>5, <2>2, <2>3 DEF ApplyNew
<1>6. ASSUME NEW s \in Sides, NEW i \in DOMAIN book[s], RemoveOrder(s, i)
      PROVE  RestingOrdersSound'
  BY <1>6, RemoveNoneNew, NoneNewKeepsSound DEF RemoveOrder
<1>7. ASSUME UNCHANGED <<book, taker>>
      PROVE  RestingOrdersSound' /\ TakerSound'
  BY <1>7, UnchangedNoneNew, NoneNewKeepsSound DEF TakerSound
<1>8. ASSUME NEW id \in OrderIds, NEW tr \in TraderIds, ApplyCancel(id, tr)
      PROVE  RestingOrdersSound' /\ TakerSound'
  <2>1. TakerSound'
    BY <1>8 DEF ApplyCancel, RejectUnknown, TakerSound
  <2> QED BY <1>6, <1>7, <1>8, <2>1 DEF ApplyCancel, RejectUnknown
<1>9. ASSUME NEW id \in OrderIds, NEW tr \in TraderIds, NEW p \in InPrices,
             NEW q \in InQtys, ApplyModify(id, tr, p, q)
      PROVE  RestingOrdersSound' /\ TakerSound'
  <2>1. ASSUME NEW s \in Sides, NEW i \in DOMAIN book[s], RemoveOrder(s, i),
               ModifyVerdict(book[s][i], tr, p, q) = "Accepted",
               taker' = [id |-> id, trader |-> tr, side |-> book[s][i].side,
                         price |-> p, original |-> q, remaining |-> q,
                         tif |-> "Gtc", stp |-> book[s][i].stp]
        PROVE  RestingOrdersSound' /\ TakerSound'
    <3>1. OnGrid(p)
      BY <2>1 DEF ModifyVerdict
    <3>2. q <= q
      BY BookAssumption
    <3>3. TakerSound'
      BY <2>1, <3>1, <3>2 DEF TakerSound
    <3> QED BY <1>6, <2>1, <3>3
  <2> QED BY <1>7, <1>9, <2>1 DEF ApplyModify, RejectUnknown
<1> QED BY <1>1, <1>2, <1>3, <1>4, <1>5, <1>8, <1>9 DEF Next, Proceed

(* Every order at rest is on its own side and on the grid, has something   *)
(* left and no more than it was entered with.                              *)
THEOREM OrdersAreSound == Spec => []RestingOrdersSound
<1> DEFINE IInv == TypeOK /\ RestingOrdersSound /\ TakerSound
<1>1. Init => IInv
  <2> SUFFICES ASSUME Init PROVE RestingOrdersSound /\ TakerSound
    BY InitTyped
  <2> QED BY DEF Init, RestingOrdersSound, TakerSound
<1>2. IInv /\ [Next]_vars => IInv'
  BY TypeStep, SoundStep
<1>3. IInv => RestingOrdersSound
  OBVIOUS
<1> QED BY <1>1, <1>2, <1>3, PTL DEF Spec

-----------------------------------------------------------------------------
(* The events of one apply.  Every order at rest can still cost one event, *)
(* and so can the order being matched as long as something is left of it:  *)
(* only the fill that uses it up leaves its maker on the book.             *)

Pending == IF taker # NoOrder /\ taker.remaining > 0 THEN 1 ELSE 0

Budget == /\ OutputBounded
          /\ taker # NoOrder => Len(out) + LiveCount + Pending <= MaxLiveOrders + 2

LEMMA FillPending ==
  ASSUME TypeOK, FillFront
  PROVE  /\ taker # NoOrder /\ Pending = 1
         /\ LiveCount' = LiveCount + (-1) \/ Pending' = 0
<1> DEFINE q == Smaller(taker.remaining, Maker.remaining)
<1>1. /\ Marketable
      /\ book' = [book EXCEPT ![Opp] = AfterFill(@, q)]
      /\ taker' = [taker EXCEPT !.remaining = @ - q]
  BY DEF FillFront
<1>2. taker \in Takers /\ Maker \in Order /\ Maker = book[Opp][1]
  BY <1>1, MakerTyped DEF Maker
<1>3. taker.remaining \in Nat /\ Maker.remaining \in Nat
  BY <1>2 DEF Takers, Order
<1>4. q = Maker.remaining \/ q = taker.remaining
  BY DEF Smaller
<1> HIDE DEF q
<1>5. taker # NoOrder /\ Pending = 1
  BY <1>1 DEF Marketable, Pending
<1>6. CASE q = Maker.remaining
  <2>1. book' = [book EXCEPT ![Opp] = Tail(@)]
    BY <1>1, <1>2, <1>6 DEF AfterFill
  <2> QED BY <1>1, <1>5, <2>1, TailCount
<1>7. CASE q = taker.remaining
  <2>1. taker'.remaining = 0
    BY <1>1, <1>2, <1>3, <1>7 DEF Takers
  <2> QED BY <1>5, <2>1 DEF Pending
<1> QED BY <1>4, <1>6, <1>7

LEMMA TwoMore ==
  ASSUME NEW s \in Seq(Event), NEW e \in Event, NEW f \in Event
  PROVE  Len(s \o <<e, f>>) = Len(s) + 2
<1>1. <<e, f>> \in Seq(Event) /\ Len(<<e, f>>) = 2
  OBVIOUS
<1> QED BY <1>1, ConcatProperties

LEMMA ProceedBudget ==
  ASSUME TypeOK, TypeOK', Budget, Proceed
  PROVE  Budget'
<1> DEFINE o == Len(out)
           l == LiveCount
           pd == Pending
           oN == Len(out')
           lN == LiveCount'
           pN == Pending'
<1>1. /\ o \in Nat /\ l \in Nat /\ pd \in {0, 1} /\ MaxLiveOrders \in Nat
      /\ oN \in Nat /\ lN \in Nat /\ pN \in {0, 1}
      /\ out \in Seq(Event)
  <2>1. l \in Nat /\ lN \in Nat
    BY CountsAreNat DEF TypeOK, LiveCount
  <2>2. o \in Nat /\ oN \in Nat /\ out \in Seq(Event)
    BY LenProperties DEF TypeOK
  <2>3. pd \in {0, 1} /\ pN \in {0, 1} /\ MaxLiveOrders \in Nat
    BY BookAssumption DEF Pending
  <2> QED BY <2>1, <2>2, <2>3
<1>2. taker # NoOrder => o + l + pd <= MaxLiveOrders + 2
  BY DEF Budget
<1>3. oN + lN + pN <= MaxLiveOrders + 2 /\ oN <= MaxLiveOrders + 2 => Budget'
  BY DEF Budget, OutputBounded
<1>4. UNCHANGED book => lN = l
  BY DEF LiveCount
<1>5. taker' = NoOrder => pN = 0
  BY DEF Pending
<1> HIDE DEF o, l, pd, oN, lN, pN
<1>6. ASSUME taker # NoOrder, oN + lN + pN <= o + l + pd
      PROVE  Budget'
  <2>1. oN + lN + pN <= MaxLiveOrders + 2 /\ oN <= MaxLiveOrders + 2
    BY <1>1, <1>2, <1>6
  <2> QED BY <1>3, <2>1
<1>7. CASE FillFront
  <2>1. oN = o + 1
    BY <1>1, <1>7, AppendProperties DEF FillFront, o, oN
  <2>2. taker # NoOrder /\ pd = 1 /\ (lN = l + (-1) \/ pN = 0)
    BY <1>7, FillPending DEF pd, pN, l, lN
  <2>3. lN <= l
    BY <1>7, FillCount DEF l, lN
  <2>4. oN + lN + pN <= o + l + pd
    BY <1>1, <2>1, <2>2, <2>3
  <2> QED BY <1>6, <2>2, <2>4
<1>8. CASE StpCancelResting
  <2>1. taker # NoOrder /\ pd = 1
    BY <1>8 DEF StpCancelResting, Marketable, Pending, pd
  <2>2. oN = o + 1
    BY <1>1, <1>8, AppendProperties DEF StpCancelResting, o, oN
  <2>3. lN = l + (-1)
    BY <1>8, TailCount DEF StpCancelResting, l, lN
  <2>4. oN + lN + pN <= o + l + pd
    BY <1>1, <2>1, <2>2, <2>3
  <2> QED BY <1>6, <2>1, <2>4
<1>9. CASE StpCancelAggressor \/ KillRemainder
  <2>1. taker # NoOrder /\ pd = 1 /\ taker' = NoOrder /\ UNCHANGED book
    BY <1>9 DEF StpCancelAggressor, KillRemainder, Marketable, Pending, pd
  <2>2. oN = o + 1
    BY <1>1, <1>9, AppendProperties DEF StpCancelAggressor, KillRemainder, o, oN
  <2>3. oN + lN + pN <= o + l + pd
    BY <1>1, <1>4, <1>5, <2>1, <2>2
  <2> QED BY <1>6, <2>1, <2>3
<1>10. CASE StpCancelBoth
  <2>1. taker # NoOrder /\ pd = 1 /\ taker' = NoOrder /\ taker \in Takers /\ Marketable
    BY <1>10 DEF StpCancelBoth, Marketable, Pending, pd, TypeOK
  <2>2. oN = o + 2
    <3>1. Maker \in Order
      BY <2>1, MakerTyped DEF Maker
    <3>2. StpCancelled(Maker) \in Event /\ StpCancelled(taker) \in Event
      BY <2>1, <3>1 DEF StpCancelled, Cancelled, Event, Order, Takers
    <3> QED BY <1>1, <1>10, <3>2, TwoMore DEF StpCancelBoth, o, oN
  <2>3. lN = l + (-1)
    BY <1>10, TailCount DEF StpCancelBoth, l, lN
  <2>4. oN + lN + pN <= o + l + pd
    BY <1>1, <1>5, <2>1, <2>2, <2>3
  <2> QED BY <1>6, <2>1, <2>4
<1>11. CASE FinishFilled \/ RestRemainder
  <2>1. OutputBounded' /\ taker' = NoOrder
    BY <1>11 DEF FinishFilled, RestRemainder, Budget, OutputBounded
  <2> QED BY <2>1 DEF Budget
<1> QED BY <1>7, <1>8, <1>9, <1>10, <1>11 DEF Proceed

LEMMA BudgetStep ==
  ASSUME TypeOK, TypeOK', RoomToRest, Budget, [Next]_vars
  PROVE  Budget'
<1> DEFINE l == LiveCount
           lN == LiveCount'
           pN == Pending'
<1>1. l \in Nat /\ lN \in Nat /\ pN \in {0, 1} /\ MaxLiveOrders \in Nat \ {0}
  <2>1. l \in Nat /\ lN \in Nat
    BY CountsAreNat DEF TypeOK, LiveCount
  <2>2. pN \in {0, 1} /\ MaxLiveOrders \in Nat \ {0}
    BY BookAssumption DEF Pending
  <2> QED BY <2>1, <2>2
<1>2. UNCHANGED book => lN = l
  BY DEF LiveCount
<1>3. taker = NoOrder => l <= MaxLiveOrders
  BY <1>1 DEF RoomToRest
<1>4. ~ AtCapacity => l + 1 <= MaxLiveOrders
  BY <1>1 DEF AtCapacity
<1>5. ASSUME NEW n \in {1, 2}, Len(out') = n, taker' = NoOrder \/ n + lN + pN <= MaxLiveOrders + 2
      PROVE  Budget'
  <2>1. OutputBounded'
    BY <1>1, <1>5 DEF OutputBounded
  <2> DEFINE oN == Len(out')
  <2>2. oN = n
    BY <1>5
  <2> HIDE DEF oN, lN, pN
  <2>3. taker' = NoOrder \/ oN + lN + pN <= MaxLiveOrders + 2
    BY <1>5, <2>2
  <2> QED BY <2>1, <2>3, Zenon DEF Budget, oN, lN, pN
<1> HIDE DEF l, lN, pN
<1>6. CASE Drain \/ UNCHANGED vars
  <2>1. CASE Drain
    <3>1. Len(out') = 0 /\ taker' = NoOrder
      BY <2>1 DEF Drain
    <3> QED BY <1>1, <3>1 DEF Budget, OutputBounded
  <2>2. CASE UNCHANGED vars
    <3>1. UNCHANGED <<book, taker, out>>
      BY <2>2 DEF vars
    <3> QED BY <3>1 DEF Budget, OutputBounded, LiveCount, Pending
  <2> QED BY <1>6, <2>1, <2>2
<1>7. ASSUME NEW e, out' = <<e>>, UNCHANGED taker, Quiescent
      PROVE  Budget'
  <2>1. Len(out') = 1 /\ taker' = NoOrder
    BY <1>7 DEF Quiescent
  <2> QED BY <1>5, <2>1
<1>8. ASSUME NEW id \in OrderIds, NEW tr \in TraderIds, NEW s \in Sides,
             NEW p \in InPrices, NEW q \in InQtys, NEW tif \in InTifs, NEW stp \in InStps,
             ApplyNew(id, tr, s, p, q, tif, stp)
      PROVE  Budget'
  <2>1. CASE UNCHANGED taker
    BY <1>7, <1>8, <2>1 DEF ApplyNew
  <2>2. CASE ~ AtCapacity
    <3>1. UNCHANGED book
      BY <1>8 DEF ApplyNew
    <3>2. Len(out') = 1
      BY <1>8 DEF ApplyNew
    <3>3. 1 + lN + pN <= MaxLiveOrders + 2
      BY <1>1, <1>2, <1>4, <2>2, <3>1
    <3> QED BY <1>5, <3>2, <3>3
  <2> QED BY <1>8, <2>1, <2>2 DEF ApplyNew, NewVerdict
<1>9. ASSUME NEW id \in OrderIds, NEW tr \in TraderIds, ApplyCancel(id, tr)
      PROVE  Budget'
  BY <1>7, <1>9 DEF ApplyCancel, RejectUnknown
<1>10. ASSUME NEW id \in OrderIds, NEW tr \in TraderIds, NEW p \in InPrices,
              NEW q \in InQtys, ApplyModify(id, tr, p, q)
       PROVE  Budget'
  <2>1. ASSUME NEW s \in Sides, NEW i \in DOMAIN book[s], RemoveOrder(s, i), Quiescent,
               NEW e, NEW f, out' = <<e, f>>
        PROVE  Budget'
    <3>1. lN = l + (-1)
      BY <2>1, RemoveCount DEF RemoveOrder, l, lN
    <3>2. Len(out') = 2 /\ taker = NoOrder
      BY <2>1 DEF Quiescent
    <3>3. 2 + lN + pN <= MaxLiveOrders + 2
      BY <1>1, <1>3, <3>1, <3>2
    <3> QED BY <1>5, <3>2, <3>3
  <2> QED BY <1>7, <1>10, <2>1 DEF ApplyModify, RejectUnknown
<1> QED BY <1>6, <1>8, <1>9, <1>10, ProceedBudget DEF Next

(* One apply emits at most one event for each order that can be live and   *)
(* two of its own, whatever is matched, prevented or re-entered.           *)
THEOREM OutputStaysBounded == Spec => []OutputBounded
<1> DEFINE IInv == TypeOK /\ RoomToRest /\ Budget
<1>1. Init => IInv
  <2> SUFFICES ASSUME Init PROVE RoomToRest /\ Budget
    BY InitTyped
  <2>1. LiveCount = 0 /\ Len(out) = 0 /\ taker = NoOrder
    BY DEF Init, LiveCount, Sides
  <2> QED BY <2>1, BookAssumption DEF RoomToRest, Budget, OutputBounded
<1>2. IInv /\ [Next]_vars => IInv'
  BY TypeStep, RoomStep, BudgetStep
<1>3. IInv => OutputBounded
  BY DEF Budget
<1> QED BY <1>1, <1>2, <1>3, PTL DEF Spec

-----------------------------------------------------------------------------
(* The pre-check of a fill-or-kill, on the queue v that the order t meets. *)

Own(t, o) == t.stp # "None" /\ o.trader = t.trader

Counted(t, v) == {i \in DOMAIN v : /\ ~ Own(t, v[i])
                                   /\ \A j \in 1 .. i : /\ Crosses(t.side, t.price, v[j].price)
                                                        /\ Own(t, v[j]) => t.stp = "CancelResting"}

Left(v) == [i \in DOMAIN v |-> v[i].remaining]

Fillable(t, v) == SumFunctionOnSet(Left(v), Counted(t, v))

LEMMA CanFillFullyIs ==
  \A t : CanFillFully(t) <=> Fillable(t, book[Opposite(t.side)]) >= t.remaining
BY DEF CanFillFully, Fillable, Counted, Own, Left

LEMMA FokFillableIs ==
  /\ FokStaysFillable
       <=> (taker # NoOrder /\ taker.tif = "Fok"
              => Fillable(taker, book[Opposite(taker.side)]) >= taker.remaining)
  /\ FokStaysFillable'
       <=> (taker' # NoOrder /\ taker'.tif = "Fok"
              => Fillable(taker', book'[Opposite(taker'.side)]) >= taker'.remaining)
BY DEF FokStaysFillable, CanFillFully, Fillable, Counted, Own, Left

LEMMA QueueTyped ==
  ASSUME NEW v \in Seq(Order)
  PROVE  /\ Len(v) \in Nat /\ DOMAIN v = 1 .. Len(v)
         /\ \A i \in DOMAIN v : v[i] \in Order /\ v[i].remaining \in Nat /\ v[i].price \in Int
<1>1. Len(v) \in Nat /\ DOMAIN v = 1 .. Len(v) /\ \A i \in 1 .. Len(v) : v[i] \in Order
  BY LenProperties, ElementOfSeq
<1>2. \A o \in Order : o.remaining \in Nat /\ o.price \in Int
  BY DEF Order, I64
<1> QED BY <1>1, <1>2

LEMMA FillableNat == ASSUME NEW t, NEW v \in Seq(Order) PROVE Fillable(t, v) \in Nat
<1>1. \A i \in DOMAIN v : Left(v)[i] \in Nat
  BY QueueTyped DEF Left
<1>2. IsFiniteSet(DOMAIN v)
  <2>1. DOMAIN v = 1 .. Len(v) /\ Len(v) \in Nat
    BY QueueTyped
  <2> QED BY <2>1, IntervalsFinite
<1>3. Counted(t, v) \in SUBSET DOMAIN v
  BY DEF Counted
<1> QED BY <1>1, <1>2, <1>3, SumNat DEF Fillable

(* Without its front a queue offers less by what the front counted for.    *)
LEMMA FillableWithoutFront ==
  ASSUME NEW t, NEW v \in Seq(Order), v # <<>>,
         Crosses(t.side, t.price, v[1].price),
         Own(t, v[1]) => t.stp = "CancelResting"
  PROVE  Fillable(t, v) = Fillable(t, Tail(v)) + (IF Own(t, v[1]) THEN 0 ELSE v[1].remaining)
<1> DEFINE w == Tail(v)
           n == Len(v)
           C == Counted(t, v) \ {1}
           D == Counted(t, w)
           h == [i \in C |-> i - 1]
<1>1. n \in Nat /\ n > 0 /\ DOMAIN v = 1 .. n /\ 1 \in DOMAIN v
  BY EmptySeq, LenProperties
<1>2. w \in Seq(Order) /\ DOMAIN w = 1 .. n - 1 /\ \A i \in 1 .. n - 1 : w[i] = v[i + 1]
  <2>1. w \in Seq(Order) /\ Len(w) = n - 1 /\ \A i \in 1 .. Len(w) : w[i] = v[i + 1]
    BY HeadTailProperties
  <2> QED BY <2>1, LenProperties
<1> HIDE DEF w, n
<1>3. \A i \in DOMAIN v : Left(v)[i] = v[i].remaining /\ Left(v)[i] \in Int
  BY QueueTyped DEF Left
<1>4. \A i \in DOMAIN w : Left(w)[i] = v[i + 1].remaining
  BY <1>2 DEF Left
<1>5. IsFiniteSet(Counted(t, v)) /\ IsFiniteSet(C) /\ IsFiniteSet(D)
  <2>1. IsFiniteSet(DOMAIN v) /\ IsFiniteSet(DOMAIN w)
    BY <1>1, <1>2, IntervalsFinite
  <2>2. C \subseteq DOMAIN v /\ D \subseteq DOMAIN w /\ Counted(t, v) \subseteq DOMAIN v
    BY DEF Counted
  <2> HIDE DEF C, D
  <2> QED BY <2>1, <2>2, FS_Subset
<1>6. ASSUME NEW i \in 1 .. n - 1 PROVE i + 1 \in Counted(t, v) <=> i \in D
  <2>1. i + 1 \in 1 .. n /\ w[i] = v[i + 1]
    BY <1>1, <1>2
  <2>2. /\ \A j \in 1 .. i : w[j] = v[j + 1] /\ j + 1 \in 1 .. i + 1
        /\ \A k \in 1 .. i + 1 : k = 1 \/ \E j \in 1 .. i : k = j + 1
    <3>1. ASSUME NEW k \in 1 .. i + 1, k # 1 PROVE \E j \in 1 .. i : k = j + 1
      <4>1. k - 1 \in 1 .. i /\ k = (k - 1) + 1
        BY <3>1
      <4> QED BY <4>1
    <3> QED BY <1>1, <1>2, <3>1
  <2> DEFINE ok(o) == /\ Crosses(t.side, t.price, o.price)
                      /\ Own(t, o) => t.stp = "CancelResting"
  <2>3. (\A k \in 1 .. i + 1 : ok(v[k])) <=> (\A j \in 1 .. i : ok(w[j]))
    <3>1. ok(v[1])
      OBVIOUS
    <3> HIDE DEF ok
    <3> QED BY <2>2, <3>1
  <2> QED BY <1>1, <1>2, <2>1, <2>3 DEF Counted
<1>7. /\ h \in [C -> D]
      /\ \A i \in C : Left(v)[i] \in Int /\ Left(w)[h[i]] = Left(v)[i]
      /\ \A i, j \in C : h[i] = h[j] => i = j
      /\ \A z \in D : \E i \in C : h[i] = z
  <2>1. ASSUME NEW i \in C
        PROVE  i \in DOMAIN v /\ i - 1 \in D /\ h[i] = i - 1 /\ i \in Int /\ v[(i - 1) + 1] = v[i]
               /\ i - 1 \in DOMAIN w
    <3>1. i \in DOMAIN v /\ i # 1
      BY DEF Counted
    <3>2. i - 1 \in 1 .. n - 1 /\ (i - 1) + 1 = i
      BY <1>1, <3>1
    <3> QED BY <1>2, <1>6, <3>1, <3>2
  <2>2. ASSUME NEW z \in D PROVE z + 1 \in C /\ h[z + 1] = z
    <3>1. z \in 1 .. n - 1
      BY <1>2 DEF Counted
    <3>2. z + 1 \in C
      BY <1>1, <1>6, <3>1
    <3> QED BY <3>1, <3>2
  <2>3. ASSUME NEW i \in C PROVE Left(v)[i] \in Int /\ Left(w)[h[i]] = Left(v)[i]
    BY <1>3, <1>4, <2>1
  <2>4. ASSUME NEW i \in C, NEW j \in C, h[i] = h[j] PROVE i = j
    BY <2>1, <2>4
  <2>5. h \in [C -> D]
    BY <2>1
  <2> HIDE DEF h, C, D
  <2> QED BY <2>2, <2>3, <2>4, <2>5
<1>8. SumFunctionOnSet(Left(v), C) = Fillable(t, w)
  <2>1. SumFunctionOnSet(Left(v), C) = SumFunctionOnSet(Left(w), D)
    <3> HIDE DEF C, D, h
    <3> QED BY <1>5, <1>7, SumRenamed
  <2> QED BY <2>1 DEF Fillable
<1>9. CASE Own(t, v[1])
  <2>1. Counted(t, v) = C
    BY <1>9 DEF Counted
  <2>2. Fillable(t, w) \in Nat
    BY <1>2, FillableNat
  <2> HIDE DEF C
  <2> QED BY <1>8, <1>9, <2>1, <2>2 DEF Fillable, w
<1>10. CASE ~ Own(t, v[1])
  <2>1. 1 \in Counted(t, v)
    BY <1>1, <1>10 DEF Counted
  <2>2. \A i \in Counted(t, v) : Left(v)[i] \in Int
    BY <1>3 DEF Counted
  <2>3. SumFunctionOnSet(Left(v), Counted(t, v)) = Left(v)[1] + SumFunctionOnSet(Left(v), C)
    BY <1>5, <2>1, <2>2, SumStep
  <2>4. Left(v)[1] = v[1].remaining /\ Left(v)[1] \in Int /\ Fillable(t, w) \in Nat
    BY <1>1, <1>2, <1>3, FillableNat
  <2> HIDE DEF C
  <2> QED BY <1>8, <1>10, <2>3, <2>4 DEF Fillable, w
<1> QED BY <1>9, <1>10

(* The pre-check looks at neither the quantity of t nor the rest of it.    *)
LEMMA FillableSame ==
  ASSUME NEW t, NEW u, NEW v, u.side = t.side, u.price = t.price, u.stp = t.stp,
         u.trader = t.trader
  PROVE  Fillable(u, v) = Fillable(t, v)
<1>1. \A o : Own(u, o) <=> Own(t, o)
  BY DEF Own
<1>2. Counted(u, v) = Counted(t, v)
  BY <1>1 DEF Counted
<1> QED BY <1>2 DEF Fillable

LEMMA FillKeepsFillable == ASSUME TypeOK, FokStaysFillable, FillFront PROVE FokStaysFillable'
<1> DEFINE q == Smaller(taker.remaining, Maker.remaining)
           v == book[Opp]
           v1 == book'[Opp]
           t1 == taker'
<1>1. /\ Marketable /\ ~ SelfTrade
      /\ t1 = [taker EXCEPT !.remaining = @ - q]
      /\ book' = [book EXCEPT ![Opp] = AfterFill(@, q)]
  BY DEF FillFront
<1>2. /\ taker \in Takers /\ Opp \in Sides /\ Maker \in Order /\ Maker = v[1] /\ taker # NoOrder
      /\ v \in Seq(Order) /\ v # <<>>
      /\ Crosses(taker.side, taker.price, v[1].price)
      /\ ~ Own(taker, v[1])
  BY <1>1, MakerTyped DEF Marketable, SelfTrade, Maker, Own
<1>3. /\ q \in Nat /\ q <= taker.remaining /\ q <= Maker.remaining
      /\ q = taker.remaining \/ q = Maker.remaining
      /\ taker.remaining \in Nat /\ Maker.remaining \in Nat
  BY <1>2 DEF Smaller, Takers, Order
<1>4. v1 = AfterFill(v, q)
  BY <1>1, <1>2 DEF TypeOK
<1> HIDE DEF q
<1>5. /\ t1.side = taker.side /\ t1.price = taker.price /\ t1.stp = taker.stp
      /\ t1.trader = taker.trader /\ t1.tif = taker.tif /\ t1.remaining = taker.remaining - q
  BY <1>1, <1>2 DEF Takers
<1>6. Fillable(t1, v1) = Fillable(taker, v1)
  BY <1>5, FillableSame
<1>7. v1 \in Seq(Order)
  BY <1>2, <1>3, <1>4, AfterFillTyped
<1>8. Fillable(taker, v1) \in Nat /\ Fillable(taker, v) \in Nat
  BY <1>2, <1>7, FillableNat
<1>9. Opposite(t1.side) = Opp
  BY <1>5 DEF Opp
<1>10. SUFFICES ASSUME taker.tif = "Fok" PROVE Fillable(taker, v1) >= t1.remaining
  <2>1. t1.tif = "Fok" => Fillable(t1, v1) >= t1.remaining
    BY <1>5, <1>6, <1>10
  <2> QED BY <1>9, <2>1, FokFillableIs
<1>11. Fillable(taker, v) >= taker.remaining
  BY <1>2, <1>10, FokFillableIs DEF Opp
<1>12. CASE q = taker.remaining
  BY <1>3, <1>5, <1>8, <1>12
<1>13. CASE q = Maker.remaining
  <2>1. v1 = Tail(v)
    BY <1>2, <1>4, <1>13 DEF AfterFill
  <2>2. Fillable(taker, v) = Fillable(taker, v1) + q
    BY <1>2, <1>13, <2>1, FillableWithoutFront
  <2> HIDE DEF v, v1, t1
  <2> QED BY <1>3, <1>5, <1>8, <1>11, <2>2
<1> QED BY <1>3, <1>12, <1>13

LEMMA StpKeepsFillable ==
  ASSUME TypeOK, FokStaysFillable, StpCancelResting
  PROVE  FokStaysFillable'
<1> DEFINE v == book[Opp]
<1>1. /\ Marketable /\ SelfTrade /\ taker.stp = "CancelResting" /\ taker' = taker
      /\ book' = [book EXCEPT ![Opp] = Tail(@)]
  BY DEF StpCancelResting
<1>2. /\ taker \in Takers /\ Opp \in Sides
      /\ v \in Seq(Order) /\ v # <<>>
      /\ Crosses(taker.side, taker.price, v[1].price)
      /\ Own(taker, v[1])
  BY <1>1, MakerTyped DEF Marketable, SelfTrade, Maker, Own
<1>3. book'[Opp] = Tail(v)
  BY <1>1, <1>2 DEF TypeOK
<1>4. Fillable(taker, v) = Fillable(taker, Tail(v)) + 0
  BY <1>1, <1>2, FillableWithoutFront
<1>5. Fillable(taker, Tail(v)) \in Nat
  BY <1>2, FillableNat, HeadTailProperties
<1>6. Opposite(taker.side) = Opp
  BY DEF Opp
<1> HIDE DEF v
<1> QED BY <1>1, <1>3, <1>4, <1>5, <1>6, FokFillableIs DEF v

LEMMA FokStep == ASSUME TypeOK, FokStaysFillable, [Next]_vars PROVE FokStaysFillable'
<1>1. ASSUME UNCHANGED <<book, taker>> PROVE FokStaysFillable'
  BY <1>1, FokFillableIs
<1>2. ASSUME taker' = NoOrder PROVE FokStaysFillable'
  BY <1>2, FokFillableIs
<1>3. ASSUME NEW id \in OrderIds, NEW tr \in TraderIds, NEW s \in Sides,
             NEW p \in InPrices, NEW q \in InQtys, NEW tif \in InTifs, NEW stp \in InStps,
             ApplyNew(id, tr, s, p, q, tif, stp)
      PROVE  FokStaysFillable'
  <2> DEFINE t == [id |-> id, trader |-> tr, side |-> s, price |-> p,
                   original |-> q, remaining |-> q, tif |-> tif, stp |-> stp]
  <2>1. UNCHANGED book
    BY <1>3 DEF ApplyNew
  <2>2. CASE taker' = t /\ NewVerdict(t) = "Accepted"
    <3>1. t.tif = "Fok" => CanFillFully(t)
      BY <2>2 DEF NewVerdict
    <3>2. t.tif = "Fok" => Fillable(t, book[Opposite(t.side)]) >= t.remaining
      <4> HIDE DEF t
      <4> QED BY <3>1, CanFillFullyIs
    <3> HIDE DEF t
    <3> QED BY <2>1, <2>2, <3>2, FokFillableIs
  <2>3. CASE UNCHANGED taker
    BY <1>1, <2>1, <2>3
  <2> QED BY <1>3, <2>2, <2>3 DEF ApplyNew
<1>4. ASSUME NEW id \in OrderIds, NEW tr \in TraderIds, ApplyCancel(id, tr)
      PROVE  FokStaysFillable'
  BY <1>2, <1>4 DEF ApplyCancel, RejectUnknown, Quiescent
<1>5. ASSUME NEW id \in OrderIds, NEW tr \in TraderIds, NEW p \in InPrices,
             NEW q \in InQtys, ApplyModify(id, tr, p, q)
      PROVE  FokStaysFillable'
  <2>1. taker' = NoOrder \/ taker'.tif = "Gtc"
    BY <1>5 DEF ApplyModify, RejectUnknown, Quiescent
  <2> QED BY <2>1, FokFillableIs
<1>6. CASE StpCancelAggressor \/ StpCancelBoth \/ FinishFilled \/ RestRemainder \/ KillRemainder
           \/ Drain
  BY <1>2, <1>6 DEF StpCancelAggressor, StpCancelBoth, FinishFilled, RestRemainder,
                    KillRemainder, Drain
<1>7. CASE UNCHANGED vars
  BY <1>1, <1>7 DEF vars
<1> QED BY <1>3, <1>4, <1>5, <1>6, <1>7, FillKeepsFillable, StpKeepsFillable DEF Next, Proceed

(* An accepted fill-or-kill finds in the book all it has to fill, at every *)
(* step of its matching and whatever self-trade prevention takes out.      *)
THEOREM FokAlwaysFillable == Spec => []FokStaysFillable
<1> DEFINE IInv == TypeOK /\ FokStaysFillable
<1>1. Init => IInv
  <2> SUFFICES ASSUME Init PROVE FokStaysFillable
    BY InitTyped
  <2> QED BY DEF Init, FokStaysFillable
<1>2. IInv /\ [Next]_vars => IInv'
  BY TypeStep, FokStep
<1>3. IInv => FokStaysFillable
  OBVIOUS
<1> QED BY <1>1, <1>2, <1>3, PTL DEF Spec

(* An empty front, or one that is not met, leaves nothing to count on.     *)
LEMMA NothingFillable ==
  ASSUME NEW t, NEW v \in Seq(Order),
         \/ v = <<>>
         \/ ~ Crosses(t.side, t.price, v[1].price)
         \/ Own(t, v[1]) /\ t.stp # "CancelResting"
  PROVE  Fillable(t, v) = 0
<1>1. ASSUME NEW i \in Counted(t, v) PROVE FALSE
  <2>1. i \in DOMAIN v /\ DOMAIN v = 1 .. Len(v) /\ Len(v) \in Nat
    BY QueueTyped DEF Counted
  <2>2. 1 \in 1 .. i /\ v # <<>>
    BY <2>1
  <2>3. Crosses(t.side, t.price, v[1].price) /\ (Own(t, v[1]) => t.stp = "CancelResting")
    BY <2>2 DEF Counted
  <2> QED BY <2>2, <2>3
<1>2. Counted(t, v) = {}
  BY <1>1
<1> QED BY <1>2, SumEmpty DEF Fillable

(* All or none: a fill-or-kill that is accepted leaves the match loop only *)
(* when it is filled.  Its remainder is never cancelled, neither by the arm*)
(* the source calls unreachable nor by self-trade prevention, and it never *)
(* rests.                                                                  *)
FilledWhole ==
  [][taker # NoOrder /\ taker.tif = "Fok" /\ taker' # taker
       => \/ /\ taker' # NoOrder /\ taker'.id = taker.id /\ taker'.tif = "Fok"
             /\ taker'.remaining < taker.remaining
          \/ taker.remaining = 0 /\ taker' = NoOrder]_vars

LEMMA FilledWholeStep ==
  ASSUME TypeOK, RestingOrdersSound, FokStaysFillable, [Next]_vars,
         taker # NoOrder, taker.tif = "Fok", taker' # taker
  PROVE  \/ /\ taker' # NoOrder /\ taker'.id = taker.id /\ taker'.tif = "Fok"
            /\ taker'.remaining < taker.remaining
         \/ taker.remaining = 0 /\ taker' = NoOrder
<1>1. taker \in Takers /\ taker.remaining \in Nat
  BY DEF TypeOK, Takers
<1>2. Opp \in Sides /\ book[Opp] \in Seq(Order)
  BY <1>1, OppositeTyped DEF Opp, Takers, TypeOK
<1>3. Fillable(taker, book[Opp]) >= taker.remaining
  BY FokFillableIs DEF Opp
<1>4. CASE FillFront
  <2> DEFINE q == Smaller(taker.remaining, Maker.remaining)
  <2>1. /\ Marketable
        /\ taker' = [taker EXCEPT !.remaining = @ - q]
    BY <1>4 DEF FillFront
  <2>2. Maker \in Order /\ Maker.remaining \in Nat /\ Maker.remaining # 0 /\ taker.remaining > 0
    BY <2>1, MakerTyped DEF RestingOrdersSound, Maker, Order, Marketable
  <2>3. q \in Nat /\ q > 0 /\ q <= taker.remaining
    BY <1>1, <2>2 DEF Smaller
  <2> HIDE DEF q
  <2>4. /\ taker' \in Takers
        /\ taker'.id = taker.id /\ taker'.tif = "Fok"
        /\ taker'.remaining = taker.remaining - q
    BY <1>1, <2>1, <2>3 DEF Takers
  <2>5. taker' # NoOrder
    BY <2>4, BookAssumption
  <2> QED BY <1>1, <2>3, <2>4, <2>5
<1>5. CASE StpCancelAggressor \/ StpCancelBoth
  <2>1. taker.remaining > 0 /\ Own(taker, book[Opp][1]) /\ taker.stp # "CancelResting"
    BY <1>5 DEF StpCancelAggressor, StpCancelBoth, Marketable, SelfTrade, Maker, Own
  <2>2. Fillable(taker, book[Opp]) = 0
    BY <1>2, <2>1, NothingFillable
  <2> QED BY <1>1, <1>3, <2>1, <2>2
<1>6. CASE KillRemainder
  <2>1. taker.remaining > 0 /\ ~ Marketable
    BY <1>6 DEF KillRemainder
  <2>2. book[Opp] = <<>> \/ ~ Crosses(taker.side, taker.price, book[Opp][1].price)
    BY <2>1 DEF Marketable, Maker
  <2>3. Fillable(taker, book[Opp]) = 0
    <3>1. CASE book[Opp] = <<>>
      BY <1>2, <3>1, NothingFillable
    <3>2. CASE ~ Crosses(taker.side, taker.price, book[Opp][1].price)
      BY <1>2, <3>2, NothingFillable
    <3> QED BY <2>2, <3>1, <3>2
  <2> QED BY <1>1, <1>3, <2>1, <2>3
<1>7. CASE FinishFilled
  BY <1>7 DEF FinishFilled
<1>8. ASSUME taker = NoOrder \/ taker' = taker \/ taker.tif = "Gtc" PROVE FALSE
  BY <1>8
<1>9. CASE StpCancelResting \/ RestRemainder \/ Drain \/ UNCHANGED vars
  BY <1>8, <1>9 DEF StpCancelResting, RestRemainder, Drain, vars
<1>10. ASSUME NEW id \in OrderIds, NEW tr \in TraderIds, NEW s \in Sides,
              NEW p \in InPrices, NEW q \in InQtys, NEW tif \in InTifs, NEW stp \in InStps,
              ApplyNew(id, tr, s, p, q, tif, stp)
       PROVE  FALSE
  BY <1>8, <1>10 DEF ApplyNew, Quiescent
<1>11. ASSUME NEW id \in OrderIds, NEW tr \in TraderIds, ApplyCancel(id, tr) PROVE FALSE
  BY <1>8, <1>11 DEF ApplyCancel, RejectUnknown, Quiescent
<1>12. ASSUME NEW id \in OrderIds, NEW tr \in TraderIds, NEW p \in InPrices,
              NEW q \in InQtys, ApplyModify(id, tr, p, q)
       PROVE  FALSE
  BY <1>8, <1>12 DEF ApplyModify, RejectUnknown, Quiescent
<1> QED BY <1>4, <1>5, <1>6, <1>7, <1>9, <1>10, <1>11, <1>12 DEF Next, Proceed

(* The theorem the definition above announces, for every grid, capacity    *)
(* and input set.                                                          *)
THEOREM FokFillsWhole == Spec => FilledWhole
<1> DEFINE IInv == TypeOK /\ RestingOrdersSound /\ TakerSound /\ FokStaysFillable
           Whole == taker # NoOrder /\ taker.tif = "Fok" /\ taker' # taker
                      => \/ /\ taker' # NoOrder /\ taker'.id = taker.id /\ taker'.tif = "Fok"
                            /\ taker'.remaining < taker.remaining
                         \/ taker.remaining = 0 /\ taker' = NoOrder
<1>1. Init => IInv
  <2> SUFFICES ASSUME Init PROVE RestingOrdersSound /\ TakerSound /\ FokStaysFillable
    BY InitTyped
  <2> QED BY DEF Init, RestingOrdersSound, TakerSound, FokStaysFillable
<1>2. IInv /\ [Next]_vars => IInv'
  BY TypeStep, SoundStep, FokStep
<1>3. IInv /\ [Next]_vars => [Whole]_vars
  <2> SUFFICES ASSUME IInv, [Next]_vars PROVE Whole
    OBVIOUS
  <2> QED BY FilledWholeStep
<1>4. [][Whole]_vars => FilledWhole
  BY PTL DEF FilledWhole
<1> HIDE DEF IInv, Whole
<1> QED BY <1>1, <1>2, <1>3, <1>4, PTL DEF Spec

-----------------------------------------------------------------------------
(* Quantity: what is open of an id, on the book and in the match loop, and *)
(* what the events of a step say of it.                                    *)

Part(o, id) == IF o.id = id THEN o.remaining ELSE 0

Parts(v, id) == [i \in DOMAIN v |-> Part(v[i], id)]

LEMMA OpenInIs ==
  ASSUME NEW v \in Seq(Order), NEW id
  PROVE  /\ OpenIn(v, id) = SumFunctionOnSet(Parts(v, id), 1 .. Len(v))
         /\ OpenIn(v, id) \in Int
         /\ \A i \in 1 .. Len(v) : /\ Parts(v, id)[i] = Part(v[i], id)
                                   /\ Parts(v, id)[i] \in Int
<1>1. DOMAIN v = 1 .. Len(v) /\ Len(v) \in Nat /\ \A i \in 1 .. Len(v) : v[i].remaining \in Nat
  BY QueueTyped
<1>2. \A i \in 1 .. Len(v) : Parts(v, id)[i] = Part(v[i], id) /\ Parts(v, id)[i] \in Int
  BY <1>1 DEF Parts, Part
<1>3. DOMAIN Parts(v, id) = 1 .. Len(v)
  BY <1>1 DEF Parts
<1>4. OpenIn(v, id) = SumFunctionOnSet(Parts(v, id), 1 .. Len(v))
  <2>1. OpenIn(v, id) = SumFunction(Parts(v, id))
    BY DEF OpenIn, Parts, Part
  <2> QED BY <1>3, <2>1 DEF SumFunction
<1>5. IsFiniteSet(1 .. Len(v))
  BY <1>1, IntervalsFinite
<1>6. SumFunctionOnSet(Parts(v, id), 1 .. Len(v)) \in Int
  BY <1>2, <1>5, SumStep
<1> QED BY <1>2, <1>4, <1>6

LEMMA OpenRemoved ==
  ASSUME NEW v \in Seq(Order), NEW i \in DOMAIN v, NEW w, w = RemoveAt(v, i), NEW id
  PROVE  OpenIn(w, id) = OpenIn(v, id) - Part(v[i], id)
<1> DEFINE n == Len(v)
<1>1. n \in Nat /\ DOMAIN v = 1 .. n /\ i \in 1 .. n
  BY QueueTyped
<1>2. /\ w \in Seq(Order) /\ Len(w) = n - 1
      /\ \A j \in 1 .. n - 1 : w[j] = IF j < i THEN v[j] ELSE v[j + 1]
  BY <1>1, RemoveAtFacts
<1>3. /\ OpenIn(w, id) = SumFunctionOnSet(Parts(w, id), 1 .. n - 1)
      /\ \A j \in 1 .. n - 1 : Parts(w, id)[j] = Part(w[j], id)
  BY <1>2, OpenInIs
<1>4. /\ OpenIn(v, id) = SumFunctionOnSet(Parts(v, id), 1 .. n)
      /\ \A j \in 1 .. n : Parts(v, id)[j] = Part(v[j], id) /\ Parts(v, id)[j] \in Int
  BY OpenInIs
<1> HIDE DEF n
<1>5. \A j \in 1 .. n - 1 :
        Parts(w, id)[j] = IF j < i THEN Parts(v, id)[j] ELSE Parts(v, id)[j + 1]
  <2>1. ASSUME NEW j \in 1 .. n - 1
        PROVE  Parts(w, id)[j] = IF j < i THEN Parts(v, id)[j] ELSE Parts(v, id)[j + 1]
    <3>1. j \in 1 .. n /\ j + 1 \in 1 .. n
      BY <1>1
    <3> QED BY <1>2, <1>3, <1>4, <3>1
  <2> QED BY <2>1
<1>6. SumFunctionOnSet(Parts(w, id), 1 .. n - 1)
        = SumFunctionOnSet(Parts(v, id), 1 .. n) - Parts(v, id)[i]
  BY <1>1, <1>4, <1>5, SumRemoved
<1> QED BY <1>1, <1>3, <1>4, <1>6

LEMMA OpenInserted ==
  ASSUME NEW v \in Seq(Order), NEW r \in Order, NEW m \in 1 .. Len(v) + 1,
         NEW w, w = InsertAt(v, m, r), NEW id
  PROVE  OpenIn(w, id) = OpenIn(v, id) + Part(r, id)
<1> DEFINE n == Len(v)
<1>1. n \in Nat /\ m \in 1 .. n + 1 /\ r.remaining \in Nat
  BY QueueTyped DEF Order
<1>2. /\ w \in Seq(Order) /\ Len(w) = n + 1
      /\ \A j \in 1 .. n + 1 : w[j] = IF j < m THEN v[j] ELSE IF j = m THEN r ELSE v[j - 1]
  <2>1. /\ w \in Seq(Order) /\ Len(w) = Len(v) + 1
        /\ \A j \in 1 .. Len(v) + 1 :
             w[j] = IF j < m THEN v[j] ELSE IF j = m THEN r ELSE v[j - 1]
    BY InsertOrder DEF Inserts
  <2> QED BY <2>1
<1>3. /\ OpenIn(w, id) = SumFunctionOnSet(Parts(w, id), 1 .. n + 1)
      /\ \A j \in 1 .. n + 1 : Parts(w, id)[j] = Part(w[j], id) /\ Parts(w, id)[j] \in Int
  BY <1>2, OpenInIs
<1>4. /\ OpenIn(v, id) = SumFunctionOnSet(Parts(v, id), 1 .. n)
      /\ \A j \in 1 .. n : Parts(v, id)[j] = Part(v[j], id) /\ Parts(v, id)[j] \in Int
  BY OpenInIs
<1> HIDE DEF n
<1>5. \A j \in 1 .. n + 1 : j # m =>
        Parts(w, id)[j] = IF j < m THEN Parts(v, id)[j] ELSE Parts(v, id)[j - 1]
  <2>1. ASSUME NEW j \in 1 .. n + 1, j < m
        PROVE  Parts(w, id)[j] = Parts(v, id)[j]
    <3>1. j \in 1 .. n
      BY <1>1, <2>1
    <3> QED BY <1>2, <1>3, <1>4, <2>1, <3>1
  <2>2. ASSUME NEW j \in 1 .. n + 1, j # m, ~ (j < m)
        PROVE  Parts(w, id)[j] = Parts(v, id)[j - 1]
    <3>1. j - 1 \in 1 .. n
      BY <1>1, <2>2
    <3> QED BY <1>2, <1>3, <1>4, <2>2, <3>1
  <2> QED BY <2>1, <2>2
<1>6. SumFunctionOnSet(Parts(w, id), 1 .. n + 1)
        = SumFunctionOnSet(Parts(v, id), 1 .. n) + Parts(w, id)[m]
  <2> DEFINE f == Parts(v, id)
             g == Parts(w, id)
  <2>1. /\ \A j \in 1 .. n : f[j] \in Int
        /\ g[m] \in Int
        /\ \A j \in 1 .. n + 1 : j # m => g[j] = IF j < m THEN f[j] ELSE f[j - 1]
    BY <1>1, <1>3, <1>4, <1>5
  <2> HIDE DEF f, g
  <2>2. SumFunctionOnSet(g, 1 .. n + 1) = SumFunctionOnSet(f, 1 .. n) + g[m]
    BY <1>1, <2>1, SumInserted
  <2> QED BY <2>2 DEF f, g
<1>7. w[m] = r
  BY <1>1, <1>2
<1> QED BY <1>1, <1>3, <1>4, <1>6, <1>7

LEMMA OpenFilled ==
  ASSUME NEW v \in Seq(Order), v # <<>>, NEW q \in Nat, q <= v[1].remaining, NEW id
  PROVE  OpenIn(AfterFill(v, q), id) = OpenIn(v, id) - (IF v[1].id = id THEN q ELSE 0)
<1> DEFINE n == Len(v)
           w == AfterFill(v, q)
<1>1. n \in Nat /\ n > 0 /\ DOMAIN v = 1 .. n /\ 1 \in 1 .. n /\ v[1] \in Order
  <2>1. n \in Nat /\ n > 0 /\ DOMAIN v = 1 .. n
    BY EmptySeq, LenProperties
  <2> QED BY <2>1, QueueTyped
<1>2. CASE q = v[1].remaining
  <2>1. w = RemoveAt(v, 1)
    BY <1>2, TailIsRemoveAt DEF AfterFill
  <2>2. OpenIn(w, id) = OpenIn(v, id) - Part(v[1], id)
    BY <1>1, <2>1, OpenRemoved
  <2> QED BY <1>2, <2>2 DEF Part
<1>3. CASE q # v[1].remaining
  <2> DEFINE o == [v[1] EXCEPT !.remaining = @ - q]
  <2>1. w = [v EXCEPT ![1] = o] /\ o.id = v[1].id /\ o.remaining = v[1].remaining - q
    BY <1>1, <1>3 DEF AfterFill, Order
  <2>2. v[1].remaining \in Nat
    BY <1>1 DEF Order
  <2>3. w \in Seq(Order)
    BY AfterFillTyped
  <2> HIDE DEF o
  <2>4. Len(w) = n /\ w[1] = o /\ \A j \in (1 .. n) \ {1} : w[j] = v[j]
    BY <1>1, <2>1, <2>3, LenProperties
  <2>5. /\ OpenIn(w, id) = SumFunctionOnSet(Parts(w, id), 1 .. n)
        /\ \A j \in 1 .. n : Parts(w, id)[j] = Part(w[j], id) /\ Parts(w, id)[j] \in Int
    BY <2>3, <2>4, OpenInIs
  <2>6. /\ OpenIn(v, id) = SumFunctionOnSet(Parts(v, id), 1 .. n)
        /\ OpenIn(v, id) \in Int
        /\ \A j \in 1 .. n : Parts(v, id)[j] = Part(v[j], id) /\ Parts(v, id)[j] \in Int
    BY OpenInIs
  <2> HIDE DEF w, n
  <2>7. IsFiniteSet(1 .. n)
    BY <1>1, IntervalsFinite
  <2>8. \A j \in (1 .. n) \ {1} : Parts(w, id)[j] = Parts(v, id)[j]
    BY <2>4, <2>5, <2>6
  <2>9. OpenIn(w, id) = OpenIn(v, id) - Parts(v, id)[1] + Parts(w, id)[1]
    <3> DEFINE f == Parts(v, id)
               g == Parts(w, id)
               D == 1 .. n
    <3>1. /\ \A j \in D : f[j] \in Int /\ g[j] \in Int
          /\ \A j \in D \ {1} : g[j] = f[j]
          /\ 1 \in D /\ IsFiniteSet(D)
      BY <1>1, <2>5, <2>6, <2>7, <2>8
    <3> HIDE DEF f, g, D
    <3>2. SumFunctionOnSet(g, D) = SumFunctionOnSet(f, D) - f[1] + g[1]
      BY <3>1, SumChanged
    <3> QED BY <2>5, <2>6, <3>2 DEF f, g, D
  <2>10. Parts(v, id)[1] = Part(v[1], id) /\ Parts(w, id)[1] = Part(o, id)
    BY <1>1, <2>4, <2>5, <2>6
  <2> QED BY <2>1, <2>2, <2>6, <2>9, <2>10 DEF Part, w
<1> QED BY <1>2, <1>3

(* One side changes.                                                       *)
OnBook(bk, id) == OpenIn(bk["Bid"], id) + OpenIn(bk["Ask"], id)

InHand(t, id) == IF t # NoOrder /\ t.id = id THEN t.remaining ELSE 0

LEMMA OpenIs ==
  ASSUME NEW bk, NEW t, NEW id
  PROVE  Open(bk, t, id) = OnBook(bk, id) + InHand(t, id)
BY DEF Open, OnBook, InHand

LEMMA OnBookInt == ASSUME TypeOK, NEW id PROVE OnBook(book, id) \in Int
<1>1. book["Bid"] \in Seq(Order) /\ book["Ask"] \in Seq(Order)
  BY DEF TypeOK, Sides
<1> QED BY <1>1, OpenInIs DEF OnBook

LEMMA OnBookChange ==
  ASSUME TypeOK, NEW s \in Sides, NEW w, book' = [book EXCEPT ![s] = w],
         NEW id, NEW d \in Int, OpenIn(w, id) = OpenIn(book[s], id) + d
  PROVE  OnBook(book', id) = OnBook(book, id) + d
<1>1. book["Bid"] \in Seq(Order) /\ book["Ask"] \in Seq(Order)
  BY DEF TypeOK, Sides
<1>2. OpenIn(book["Bid"], id) \in Int /\ OpenIn(book["Ask"], id) \in Int
  BY <1>1, OpenInIs
<1>3. CASE s = "Bid"
  <2>1. book'["Bid"] = w /\ book'["Ask"] = book["Ask"]
    BY <1>3 DEF TypeOK, Sides
  <2> QED BY <1>2, <1>3, <2>1 DEF OnBook
<1>4. CASE s = "Ask"
  <2>1. book'["Ask"] = w /\ book'["Bid"] = book["Bid"]
    BY <1>4 DEF TypeOK, Sides
  <2> QED BY <1>2, <1>4, <2>1 DEF OnBook
<1> QED BY <1>3, <1>4 DEF Sides

(* The events a step adds.                                                 *)
Says(o, n, t, id) == SumFunction([k \in 1 .. Len(n) - Len(o) |-> Reported(n[Len(o) + k], t, id)])

LEMMA SaysNothing == ASSUME NEW o \in Seq(Event), NEW t, NEW id PROVE Says(o, o, t, id) = 0
<1> DEFINE f == [k \in 1 .. Len(o) - Len(o) |-> Reported(o[Len(o) + k], t, id)]
<1>1. Len(o) \in Nat
  BY LenProperties
<1>2. DOMAIN f = {}
  BY <1>1
<1> HIDE DEF f
<1>3. SumFunction(f) = 0
  BY <1>2, SumEmpty DEF SumFunction
<1> QED BY <1>3 DEF Says, f

LEMMA SaysOne ==
  ASSUME NEW o \in Seq(Event), NEW e \in Event, NEW t, NEW id, Reported(e, t, id) \in Int
  PROVE  Says(o, Append(o, e), t, id) = Reported(e, t, id)
<1> DEFINE n == Append(o, e)
           f == [k \in 1 .. Len(n) - Len(o) |-> Reported(n[Len(o) + k], t, id)]
<1>1. Len(o) \in Nat /\ Len(n) = Len(o) + 1 /\ n[Len(o) + 1] = e
  BY LenProperties, AppendProperties
<1> HIDE DEF n
<1>2. DOMAIN f = {1} /\ f[1] = Reported(e, t, id)
  BY <1>1
<1> HIDE DEF f
<1>3. IsFiniteSet({1}) /\ {1} \ {1} = {}
  BY FS_Singleton
<1>4. SumFunctionOnSet(f, {1}) = f[1] + SumFunctionOnSet(f, {1} \ {1})
  BY <1>2, <1>3, SumStep
<1>5. SumFunction(f) = f[1] + 0
  BY <1>2, <1>3, <1>4, SumEmpty DEF SumFunction
<1>6. SumFunction(f) = Reported(e, t, id)
  BY <1>2, <1>5
<1> QED BY <1>6 DEF Says, f, n

LEMMA SaysTwo ==
  ASSUME NEW o \in Seq(Event), NEW e \in Event, NEW g \in Event, NEW t, NEW id,
         Reported(e, t, id) \in Int, Reported(g, t, id) \in Int
  PROVE  Says(o, o \o <<e, g>>, t, id) = Reported(e, t, id) + Reported(g, t, id)
<1> DEFINE two == <<e, g>>
           n == o \o two
           f == [k \in 1 .. Len(n) - Len(o) |-> Reported(n[Len(o) + k], t, id)]
<1>1. two \in Seq(Event) /\ Len(two) = 2 /\ two[1] = e /\ two[2] = g
  OBVIOUS
<1> HIDE DEF two
<1>2. Len(o) \in Nat /\ Len(n) = Len(o) + 2 /\ n[Len(o) + 1] = e /\ n[Len(o) + 2] = g
  <2>1. Len(o) \in Nat
    BY LenProperties
  <2>2. /\ Len(n) = Len(o) + Len(two)
        /\ \A i \in 1 .. Len(o) + Len(two) :
             n[i] = IF i <= Len(o) THEN o[i] ELSE two[i - Len(o)]
    BY <1>1, ConcatProperties
  <2> HIDE DEF n
  <2> QED BY <1>1, <2>1, <2>2
<1> HIDE DEF n
<1>3. DOMAIN f = {1, 2} /\ f[1] = Reported(e, t, id) /\ f[2] = Reported(g, t, id)
  BY <1>2
<1> HIDE DEF f
<1>4. IsFiniteSet({1, 2}) /\ IsFiniteSet({2}) /\ {1, 2} \ {1} = {2} /\ {2} \ {2} = {}
  <2>1. {1, 2} = 1 .. 2 /\ {2} = 2 .. 2 /\ {1, 2} \ {1} = {2} /\ {2} \ {2} = {}
    OBVIOUS
  <2>2. IsFiniteSet(1 .. 2) /\ IsFiniteSet(2 .. 2)
    <3>1. 1 \in Int /\ 2 \in Int
      OBVIOUS
    <3> QED BY <3>1, IntervalsFinite, Zenon
  <2> QED BY <2>1, <2>2
<1>5. SumFunctionOnSet(f, {2}) = f[2] + SumFunctionOnSet(f, {2} \ {2})
  BY <1>3, <1>4, SumStep
<1>6. SumFunctionOnSet(f, {1, 2}) = f[1] + SumFunctionOnSet(f, {1, 2} \ {1})
  BY <1>3, <1>4, SumStep
<1>7. SumFunction(f) = f[1] + (f[2] + 0)
  BY <1>3, <1>4, <1>5, <1>6, SumEmpty DEF SumFunction
<1>8. SumFunction(f) = Reported(e, t, id) + Reported(g, t, id)
  BY <1>3, <1>7
<1> QED BY <1>8 DEF Says, f, n, two

LEMMA Alone ==
  ASSUME NEW e \in Event, NEW g \in Event
  PROVE  /\ <<>> \in Seq(Event)
         /\ <<e>> = Append(<<>>, e)
         /\ <<e, g>> = <<>> \o <<e, g>>
<1>1. <<e, g>> \in Seq(Event) /\ <<>> \in Seq(Event) /\ <<e>> = Append(<<>>, e)
  OBVIOUS
<1> QED BY <1>1, ConcatEmptySeq

LEMMA RemovedOnBook ==
  ASSUME TypeOK, NEW s \in Sides, NEW i \in DOMAIN book[s], RemoveOrder(s, i), NEW id
  PROVE  OnBook(book', id) = OnBook(book, id) - Part(book[s][i], id)
<1> DEFINE w == RemoveAt(book[s], i)
           d == 0 - Part(book[s][i], id)
<1>1. book[s] \in Seq(Order) /\ book' = [book EXCEPT ![s] = w]
  BY OrderTyped DEF RemoveOrder
<1>2. Part(book[s][i], id) \in Nat
  BY OrderTyped DEF Part, Order
<1>3. OpenIn(w, id) = OpenIn(book[s], id) - Part(book[s][i], id)
  BY <1>1, OpenRemoved
<1>4. OpenIn(book[s], id) \in Int /\ OnBook(book, id) \in Int
  BY <1>1, OpenInIs, OnBookInt
<1> HIDE DEF w
<1>5. d \in Int /\ OpenIn(w, id) = OpenIn(book[s], id) + d
  BY <1>2, <1>3, <1>4
<1>6. OnBook(book', id) = OnBook(book, id) + d
  <2> HIDE DEF d
  <2> QED BY <1>1, <1>5, OnBookChange
<1> QED BY <1>2, <1>4, <1>6

LEMMA FrontRemovedOnBook ==
  ASSUME TypeOK, Marketable, book' = [book EXCEPT ![Opp] = Tail(@)], NEW id
  PROVE  OnBook(book', id) = OnBook(book, id) - Part(Maker, id)
<1>1. Opp \in Sides /\ book[Opp] \in Seq(Order) /\ book[Opp] # <<>> /\ 1 \in DOMAIN book[Opp]
  BY MakerTyped
<1>2. RemoveOrder(Opp, 1)
  BY <1>1, TailIsRemoveAt DEF RemoveOrder
<1> QED BY <1>1, <1>2, RemovedOnBook DEF Maker

(* What is open of id changes as the events say.                           *)
Balanced(id) == Open(book', taker', id) - Open(book, taker, id) = Says(out, out', taker', id)

LEMMA BalancedIs ==
  ASSUME NEW id,
         NEW a \in Int, a = OnBook(book, id), NEW b \in Int, b = OnBook(book', id),
         NEW c \in Int, c = InHand(taker, id), NEW d \in Int, d = InHand(taker', id),
         (b + d) - (a + c) = Says(out, out', taker', id)
  PROVE  Balanced(id)
<1>1. Open(book', taker', id) = b + d /\ Open(book, taker, id) = a + c
  BY OpenIs
<1> QED BY <1>1 DEF Balanced

LEMMA InHandInt ==
  ASSUME TypeOK, NEW id
  PROVE  InHand(taker, id) \in Int /\ InHand(NoOrder, id) = 0
BY DEF InHand, TypeOK, Takers

LEMMA FillBalanced == ASSUME TypeOK, FillFront, NEW id PROVE Balanced(id)
<1> DEFINE q == Smaller(taker.remaining, Maker.remaining)
           w == AfterFill(book[Opp], q)
           e == Fill(taker, Maker.id, Maker.price, q)
           x == IF Maker.id = id THEN 0 - q ELSE 0
           y == IF taker.id = id THEN 0 - q ELSE 0
<1>1. /\ Marketable /\ taker # NoOrder
      /\ out' = Append(out, e)
      /\ taker' = [taker EXCEPT !.remaining = @ - q]
      /\ book' = [book EXCEPT ![Opp] = w]
  BY DEF FillFront, Marketable
<1>2. /\ taker \in Takers /\ Opp \in Sides /\ Maker \in Order /\ Maker = book[Opp][1]
      /\ book[Opp] \in Seq(Order) /\ book[Opp] # <<>>
  BY <1>1, MakerTyped DEF Maker
<1>3. q \in Nat /\ q <= taker.remaining /\ q <= Maker.remaining /\ taker.remaining \in Nat
  BY <1>2 DEF Smaller, Takers, Order
<1>4. e \in Event /\ out \in Seq(Event)
  BY <1>2, <1>3, EventTypes DEF Order, TypeOK
<1>5. e.ev = "Fill" /\ e.id = taker.id /\ e.maker = Maker.id /\ e.qty = q
  BY DEF Fill
<1> HIDE DEF q, e
<1>6. OpenIn(w, id) = OpenIn(book[Opp], id) - (IF Maker.id = id THEN q ELSE 0)
  BY <1>2, <1>3, OpenFilled
<1>7. OpenIn(book[Opp], id) \in Int /\ OnBook(book, id) \in Int
  BY <1>2, OpenInIs, OnBookInt
<1> HIDE DEF w
<1>8. x \in Int /\ y \in Int /\ OpenIn(w, id) = OpenIn(book[Opp], id) + x
  BY <1>3, <1>6, <1>7
<1>9. Reported(e, taker', id) = y + x
  BY <1>3, <1>5 DEF Reported
<1>10. InHand(taker', id) = InHand(taker, id) + y /\ InHand(taker, id) \in Int
  <2>1. taker' \in Takers /\ taker'.id = taker.id /\ taker'.remaining = taker.remaining - q
    BY <1>1, <1>2, <1>3 DEF Takers
  <2>2. taker' # NoOrder
    BY <2>1, BookAssumption
  <2> QED BY <1>1, <1>3, <2>1, <2>2 DEF InHand
<1> HIDE DEF x, y
<1>11. OnBook(book', id) = OnBook(book, id) + x
  BY <1>1, <1>2, <1>8, OnBookChange
<1>12. Says(out, out', taker', id) = y + x
  <2>1. Reported(e, taker', id) \in Int
    BY <1>8, <1>9
  <2>2. Says(out, Append(out, e), taker', id) = Reported(e, taker', id)
    BY <1>4, <2>1, SaysOne
  <2> QED BY <1>1, <1>9, <2>2
<1> DEFINE a == OnBook(book, id)
           b == OnBook(book', id)
           c == InHand(taker, id)
           d == InHand(taker', id)
<1>13. a \in Int /\ b \in Int /\ c \in Int /\ d \in Int /\ (b + d) - (a + c) = y + x
  <2> HIDE DEF a, c
  <2> QED BY <1>7, <1>8, <1>10, <1>11 DEF a, c
<1> QED BY <1>12, <1>13, BalancedIs

(* The order at the front, or any other, is cancelled with what is left.   *)
LEMMA ReportedCancel ==
  ASSUME NEW o, o.remaining \in Nat, NEW why, NEW t, NEW id
  PROVE  /\ Reported(Cancelled(o.id, o.remaining, why), t, id) = 0 - Part(o, id)
         /\ Part(o, id) \in Nat
BY DEF Reported, Cancelled, Part

LEMMA StpBalanced ==
  ASSUME TypeOK, NEW id, StpCancelResting \/ StpCancelAggressor \/ StpCancelBoth
  PROVE  Balanced(id)
<1> DEFINE x == Part(Maker, id)
           y == Part(taker, id)
           em == StpCancelled(Maker)
           et == StpCancelled(taker)
<1>1. Marketable /\ taker # NoOrder
  BY DEF StpCancelResting, StpCancelAggressor, StpCancelBoth, Marketable
<1>2. taker \in Takers /\ Maker \in Order
  BY <1>1, MakerTyped
<1>3. em \in Event /\ et \in Event /\ out \in Seq(Event)
  BY <1>2, EventTypes DEF StpCancelled, Order, Takers, TypeOK
<1>4. /\ Reported(em, taker', id) = 0 - x /\ x \in Nat
      /\ Reported(et, taker', id) = 0 - y /\ y \in Nat
  BY <1>2, ReportedCancel DEF StpCancelled, Order, Takers
<1>5. InHand(taker, id) = y /\ InHand(NoOrder, id) = 0
  BY <1>1 DEF InHand, Part
<1>6. OnBook(book, id) \in Int
  BY OnBookInt
<1>7. Reported(em, taker', id) \in Int /\ Reported(et, taker', id) \in Int
  BY <1>4
<1> DEFINE a == OnBook(book, id)
           b == OnBook(book', id)
           c == InHand(taker, id)
           d == InHand(taker', id)
<1> HIDE DEF x, y, em, et
<1>8. CASE StpCancelResting
  <2>1. out' = Append(out, em) /\ book' = [book EXCEPT ![Opp] = Tail(@)] /\ taker' = taker
    BY <1>8 DEF StpCancelResting, em
  <2>2. Says(out, out', taker', id) = 0 - x
    BY <1>3, <1>4, <1>7, <2>1, SaysOne
  <2>3. b = a - x
    BY <1>1, <2>1, FrontRemovedOnBook DEF x
  <2>4. a \in Int /\ b \in Int /\ c \in Int /\ d \in Int /\ (b + d) - (a + c) = 0 - x
    <3>1. d = c /\ c = y
      BY <1>5, <2>1
    <3> HIDE DEF a, b, c, d
    <3> QED BY <1>4, <1>6, <2>3, <3>1 DEF a
  <2> QED BY <2>2, <2>4, BalancedIs
<1>9. CASE StpCancelAggressor
  <2>1. out' = Append(out, et) /\ book' = book /\ taker' = NoOrder
    BY <1>9 DEF StpCancelAggressor, et
  <2>2. Says(out, out', taker', id) = 0 - y
    BY <1>3, <1>4, <1>7, <2>1, SaysOne
  <2>3. a \in Int /\ b \in Int /\ c \in Int /\ d \in Int /\ (b + d) - (a + c) = 0 - y
    <3>1. d = 0 /\ c = y /\ b = a
      BY <1>5, <2>1
    <3> HIDE DEF a, b, c, d
    <3> QED BY <1>4, <1>6, <3>1 DEF a
  <2> QED BY <2>2, <2>3, BalancedIs
<1>10. CASE StpCancelBoth
  <2>1. out' = out \o <<em, et>> /\ book' = [book EXCEPT ![Opp] = Tail(@)] /\ taker' = NoOrder
    BY <1>10 DEF StpCancelBoth, em, et
  <2>2. Says(out, out', taker', id) = (0 - x) + (0 - y)
    <3>1. Says(out, out \o <<em, et>>, taker', id)
            = Reported(em, taker', id) + Reported(et, taker', id)
      BY <1>3, <1>7, SaysTwo
    <3> QED BY <1>4, <2>1, <3>1
  <2>3. b = a - x
    BY <1>1, <2>1, FrontRemovedOnBook DEF x
  <2>4. /\ a \in Int /\ b \in Int /\ c \in Int /\ d \in Int
        /\ (b + d) - (a + c) = (0 - x) + (0 - y)
    <3>1. d = 0 /\ c = y
      BY <1>5, <2>1
    <3> HIDE DEF a, b, c, d
    <3> QED BY <1>4, <1>6, <2>3, <3>1 DEF a
  <2> QED BY <2>2, <2>4, BalancedIs
<1> QED BY <1>8, <1>9, <1>10

LEMMA QuietBalanced ==
  ASSUME TypeOK, NEW id, UNCHANGED <<book, taker, out>>
  PROVE  Balanced(id)
<1>1. OnBook(book, id) \in Int /\ InHand(taker, id) \in Int
  BY OnBookInt, InHandInt
<1>2. Says(out, out', taker', id) = 0
  BY SaysNothing DEF TypeOK
<1>3. OnBook(book', id) = OnBook(book, id) /\ InHand(taker', id) = InHand(taker, id)
  OBVIOUS
<1> DEFINE a == OnBook(book, id)
           b == OnBook(book', id)
           c == InHand(taker, id)
           d == InHand(taker', id)
<1>4. a \in Int /\ b \in Int /\ c \in Int /\ d \in Int /\ (b + d) - (a + c) = 0
  <2>1. a \in Int /\ c \in Int /\ b = a /\ d = c
    BY <1>1, <1>3
  <2> HIDE DEF a, b, c, d
  <2> QED BY <2>1
<1> QED BY <1>2, <1>4, BalancedIs

(* The remainder: nothing is left, it rests, or it is cancelled.           *)
LEMMA EndBalanced ==
  ASSUME TypeOK, NEW id, FinishFilled \/ RestRemainder \/ KillRemainder
  PROVE  Balanced(id)
<1> DEFINE a == OnBook(book, id)
           b == OnBook(book', id)
           c == InHand(taker, id)
           d == InHand(taker', id)
           y == Part(taker, id)
<1>1. taker # NoOrder /\ taker \in Takers /\ taker' = NoOrder /\ taker.remaining \in Nat
  BY DEF FinishFilled, RestRemainder, KillRemainder, TypeOK, Takers
<1>2. c = y /\ d = 0 /\ y \in Nat /\ a \in Int /\ out \in Seq(Event)
  BY <1>1, OnBookInt DEF InHand, Part, TypeOK
<1>3. ASSUME NEW n \in Int, Says(out, out', taker', id) = n, b - a - y = n, b \in Int
      PROVE  Balanced(id)
  <2>1. (b + d) - (a + c) = n
    <3> HIDE DEF a, b, c, d, y
    <3> QED BY <1>2, <1>3
  <2>2. a \in Int /\ b \in Int /\ c \in Int /\ d \in Int
    <3> HIDE DEF a, b, c, d, y
    <3> QED BY <1>2, <1>3
  <2> QED BY <1>3, <2>1, <2>2, BalancedIs
<1>4. CASE FinishFilled
  <2>1. UNCHANGED <<book, out>> /\ y = 0
    BY <1>4 DEF FinishFilled, Part
  <2>2. Says(out, out', taker', id) = 0
    BY <1>2, <2>1, SaysNothing
  <2>3. b = a
    BY <2>1
  <2> HIDE DEF a, b, y
  <2> QED BY <1>2, <1>3, <2>1, <2>2, <2>3
<1>5. CASE RestRemainder
  <2> DEFINE s == taker.side
  <2>1. s \in Sides /\ book[s] \in Seq(Order) /\ Resting(taker) \in Order /\ UNCHANGED out
    BY <1>1, <1>5, RestingTyped DEF Takers, TypeOK, RestRemainder
  <2>2. PICK k \in 0 .. Len(book[s]) :
          book' = [book EXCEPT ![s] = InsertAt(book[s], k + 1, Resting(taker))]
    BY <1>5 DEF RestRemainder
  <2> DEFINE w == InsertAt(book[s], k + 1, Resting(taker))
  <2>3. k + 1 \in 1 .. Len(book[s]) + 1
    BY <2>1, QueueTyped
  <2>4. OpenIn(w, id) = OpenIn(book[s], id) + Part(Resting(taker), id)
    BY <2>1, <2>3, OpenInserted
  <2>5. Part(Resting(taker), id) = y
    BY DEF Part, Resting
  <2> HIDE DEF w, y, s
  <2>6. y \in Int /\ OpenIn(w, id) = OpenIn(book[s], id) + y /\ book' = [book EXCEPT ![s] = w]
    BY <1>2, <2>2, <2>4, <2>5 DEF w
  <2>7. b = a + y
    BY <2>1, <2>6, OnBookChange
  <2>8. Says(out, out', taker', id) = 0
    BY <1>2, <2>1, SaysNothing
  <2> HIDE DEF a, b
  <2> QED BY <1>2, <1>3, <2>7, <2>8
<1>6. CASE KillRemainder
  <2> DEFINE e == Cancelled(taker.id, taker.remaining, "Ioc")
  <2>1. out' = Append(out, e) /\ UNCHANGED book
    BY <1>6 DEF KillRemainder
  <2>2. e \in Event
    BY <1>1, EventTypes DEF Takers
  <2>3. Reported(e, taker', id) = 0 - y
    BY <1>1, ReportedCancel
  <2> HIDE DEF e, y
  <2>4. Says(out, out', taker', id) = 0 - y
    BY <1>2, <2>1, <2>2, <2>3, SaysOne
  <2>5. b = a
    BY <2>1
  <2> HIDE DEF a, b
  <2> QED BY <1>2, <1>3, <2>4, <2>5
<1> QED BY <1>4, <1>5, <1>6

(* An apply that says one thing, or two, on an empty buffer.               *)
LEMMA SaysAlone ==
  ASSUME out = <<>>, NEW t, NEW id
  PROVE  /\ \A e \in Event : Reported(e, t, id) \in Int /\ out' = <<e>>
              => Says(out, out', t, id) = Reported(e, t, id)
         /\ \A e, g \in Event : /\ Reported(e, t, id) \in Int /\ Reported(g, t, id) \in Int
                                /\ out' = <<e, g>>
              => Says(out, out', t, id) = Reported(e, t, id) + Reported(g, t, id)
<1>1. ASSUME NEW e \in Event, Reported(e, t, id) \in Int, out' = <<e>>
      PROVE  Says(out, out', t, id) = Reported(e, t, id)
  <2>1. out' = Append(<<>>, e)
    BY <1>1, Alone
  <2>2. PICK o \in Seq(Event) : o = <<>>
    BY <1>1, Alone
  <2>3. Says(o, Append(o, e), t, id) = Reported(e, t, id)
    BY <1>1, SaysOne
  <2> QED BY <2>1, <2>2, <2>3
<1>2. ASSUME NEW e \in Event, NEW g \in Event, Reported(e, t, id) \in Int,
             Reported(g, t, id) \in Int, out' = <<e, g>>
      PROVE  Says(out, out', t, id) = Reported(e, t, id) + Reported(g, t, id)
  <2>1. out' = <<>> \o <<e, g>> /\ <<>> \in Seq(Event)
    BY <1>2, Alone
  <2>2. PICK o \in Seq(Event) : o = <<>>
    BY <2>1
  <2>3. Says(o, o \o <<e, g>>, t, id) = Reported(e, t, id) + Reported(g, t, id)
    BY <1>2, SaysTwo
  <2> QED BY <2>1, <2>2, <2>3
<1> QED BY <1>1, <1>2

LEMMA RejectBalanced ==
  ASSUME TypeOK, NEW id, NEW i \in OrderIds,
         NEW why \in {"DuplicateOrderId", "UnknownOrderId", "PriceOutOfBounds", "ZeroQty",
                      "FokUnfillable", "ArenaFull", "WrongTrader"},
         Quiescent, out' = <<Rejected(i, why)>>, UNCHANGED <<book, taker>>
  PROVE  Balanced(id)
<1> DEFINE e == Rejected(i, why)
           a == OnBook(book, id)
           b == OnBook(book', id)
           c == InHand(taker, id)
           d == InHand(taker', id)
<1>1. e \in Event /\ Reported(e, taker', id) = 0
  BY EventTypes DEF Reported, Rejected
<1> HIDE DEF e
<1>2. out = <<>> /\ out' = <<e>> /\ 0 \in Int
  BY DEF Quiescent, e
<1>3. Says(out, out', taker', id) = 0
  BY <1>1, <1>2, SaysAlone
<1>4. a \in Int /\ c \in Int /\ b = a /\ d = c
  BY OnBookInt, InHandInt
<1>5. a \in Int /\ b \in Int /\ c \in Int /\ d \in Int /\ (b + d) - (a + c) = 0
  <2> HIDE DEF a, b, c, d
  <2> QED BY <1>4
<1> QED BY <1>3, <1>5, BalancedIs

LEMMA ApplyNewBalanced ==
  ASSUME TypeOK, NEW k, NEW id \in OrderIds, NEW tr \in TraderIds, NEW s \in Sides,
         NEW p \in InPrices, NEW q \in InQtys, NEW tif \in InTifs, NEW stp \in InStps,
         ApplyNew(id, tr, s, p, q, tif, stp)
  PROVE  Balanced(k)
<1> DEFINE t == [id |-> id, trader |-> tr, side |-> s, price |-> p,
                 original |-> q, remaining |-> q, tif |-> tif, stp |-> stp]
<1>1. t \in Takers /\ t # NoOrder
  BY BookAssumption DEF Takers
<1>2. CASE /\ UNCHANGED <<book, taker>>
           /\ out' = <<Rejected(id, NewVerdict(t))>>
           /\ NewVerdict(t) # "Accepted"
  <2>1. NewVerdict(t) \in {"DuplicateOrderId", "UnknownOrderId", "PriceOutOfBounds",
                           "ZeroQty", "FokUnfillable", "ArenaFull", "WrongTrader"}
    BY <1>2 DEF NewVerdict
  <2>2. Quiescent
    BY DEF ApplyNew
  <2> HIDE DEF t
  <2> QED BY <1>2, <2>1, <2>2, RejectBalanced
<1>3. CASE taker' = t /\ out' = <<Ack(id)>> /\ UNCHANGED book
  <2> DEFINE e == Ack(id)
             a == OnBook(book, k)
             b == OnBook(book', k)
             c == InHand(taker, k)
             d == InHand(taker', k)
             n == IF id = k THEN q ELSE 0
  <2>1. e \in Event /\ Reported(e, taker', k) = n
    BY <1>3, EventTypes DEF Reported, Ack
  <2>2. n \in Int /\ d = n
    BY <1>1, <1>3, BookAssumption DEF InHand
  <2>3. out = <<>> /\ out' = <<e>> /\ taker = NoOrder
    BY <1>3 DEF ApplyNew, Quiescent
  <2>4. a \in Int /\ b = a /\ c = 0
    BY <1>3, <2>3, OnBookInt, InHandInt
  <2> HIDE DEF e, n
  <2>5. Says(out, out', taker', k) = n
    BY <2>1, <2>2, <2>3, SaysAlone
  <2>6. a \in Int /\ b \in Int /\ c \in Int /\ d \in Int /\ (b + d) - (a + c) = n
    <3> HIDE DEF a, b, c, d
    <3> QED BY <2>2, <2>4
  <2> QED BY <2>5, <2>6, BalancedIs
<1> QED BY <1>2, <1>3 DEF ApplyNew

LEMMA RejectUnknownBalanced ==
  ASSUME TypeOK, NEW k, NEW id \in OrderIds, RejectUnknown(id)
  PROVE  Balanced(k)
BY RejectBalanced DEF RejectUnknown

LEMMA ApplyCancelBalanced ==
  ASSUME TypeOK, NEW k, NEW id \in OrderIds, NEW tr \in TraderIds, ApplyCancel(id, tr)
  PROVE  Balanced(k)
<1>1. CASE RejectUnknown(id)
  BY <1>1, RejectUnknownBalanced
<1>2. ASSUME NEW s \in Sides, NEW i \in DOMAIN book[s], UNCHANGED taker, Quiescent,
             out' = <<Rejected(id, "WrongTrader")>>, UNCHANGED book
      PROVE  Balanced(k)
  BY <1>2, RejectBalanced
<1>3. ASSUME NEW s \in Sides, NEW i \in DOMAIN book[s], UNCHANGED taker, Quiescent,
             book[s][i].id = id, RemoveOrder(s, i),
             out' = <<Cancelled(id, book[s][i].remaining, "User")>>
      PROVE  Balanced(k)
  <2> DEFINE o == book[s][i]
             e == Cancelled(o.id, o.remaining, "User")
             a == OnBook(book, k)
             b == OnBook(book', k)
             c == InHand(taker, k)
             d == InHand(taker', k)
             x == Part(o, k)
  <2>1. o \in Order /\ o.remaining \in Nat
    BY OrderTyped DEF Order
  <2>2. e \in Event
    BY <1>3, <2>1, EventTypes
  <2>3. Reported(e, taker', k) = 0 - x /\ x \in Nat
    BY <2>1, ReportedCancel
  <2>4. b = a - x /\ a \in Int
    BY <1>3, RemovedOnBook, OnBookInt
  <2>5. c = 0 /\ d = 0
    BY <1>3, InHandInt DEF Quiescent
  <2>6. out = <<>> /\ out' = <<e>>
    BY <1>3 DEF Quiescent
  <2> HIDE DEF e, x
  <2>7. Says(out, out', taker', k) = 0 - x
    <3>1. Reported(e, taker', k) \in Int
      BY <2>3
    <3> QED BY <2>2, <2>3, <2>6, <3>1, SaysAlone
  <2>8. a \in Int /\ b \in Int /\ c \in Int /\ d \in Int /\ (b + d) - (a + c) = 0 - x
    <3> HIDE DEF a, b, c, d
    <3> QED BY <2>3, <2>4, <2>5
  <2> QED BY <2>7, <2>8, BalancedIs
<1> QED BY <1>1, <1>2, <1>3 DEF ApplyCancel

LEMMA ApplyModifyBalanced ==
  ASSUME TypeOK, NEW k, NEW id \in OrderIds, NEW tr \in TraderIds,
         NEW p \in InPrices, NEW q \in InQtys, ApplyModify(id, tr, p, q)
  PROVE  Balanced(k)
<1>1. CASE RejectUnknown(id)
  BY <1>1, RejectUnknownBalanced
<1>2. ASSUME NEW s \in Sides, NEW i \in DOMAIN book[s], Quiescent,
             ModifyVerdict(book[s][i], tr, p, q) # "Accepted",
             out' = <<Rejected(id, ModifyVerdict(book[s][i], tr, p, q))>>,
             UNCHANGED <<book, taker>>
      PROVE  Balanced(k)
  <2>1. ModifyVerdict(book[s][i], tr, p, q)
          \in {"DuplicateOrderId", "UnknownOrderId", "PriceOutOfBounds", "ZeroQty",
               "FokUnfillable", "ArenaFull", "WrongTrader"}
    BY <1>2 DEF ModifyVerdict
  <2> QED BY <1>2, <2>1, RejectBalanced
<1>3. ASSUME NEW s \in Sides, NEW i \in DOMAIN book[s], Quiescent,
             book[s][i].id = id, RemoveOrder(s, i),
             taker' = [id |-> id, trader |-> tr, side |-> book[s][i].side,
                       price |-> p, original |-> q, remaining |-> q,
                       tif |-> "Gtc", stp |-> book[s][i].stp],
             out' = <<Cancelled(id, book[s][i].remaining, "User"), Ack(id)>>
      PROVE  Balanced(k)
  <2> DEFINE o == book[s][i]
             e == Cancelled(o.id, o.remaining, "User")
             g == Ack(id)
             a == OnBook(book, k)
             b == OnBook(book', k)
             c == InHand(taker, k)
             d == InHand(taker', k)
             x == Part(o, k)
             n == IF id = k THEN q ELSE 0
  <2>1. o \in Order /\ o.remaining \in Nat
    BY OrderTyped DEF Order
  <2>2. e \in Event /\ g \in Event
    BY <1>3, <2>1, EventTypes
  <2>3. Reported(e, taker', k) = 0 - x /\ x \in Nat
    BY <2>1, ReportedCancel
  <2>4. Reported(g, taker', k) = n /\ n \in Int
    BY <1>3, BookAssumption DEF Reported, Ack
  <2>5. b = a - x /\ a \in Int
    BY <1>3, RemovedOnBook, OnBookInt
  <2>6. c = 0
    BY <1>3, InHandInt DEF Quiescent
  <2>7. d = n
    <3>1. taker' \in Takers
      BY <1>3, <2>1, BookAssumption DEF Order, Takers, Tifs
    <3>2. taker' # NoOrder
      BY <3>1, BookAssumption
    <3>3. taker'.id = id /\ taker'.remaining = q
      BY <1>3
    <3> QED BY <3>2, <3>3 DEF InHand
  <2>8. out = <<>> /\ out' = <<e, g>>
    BY <1>3 DEF Quiescent
  <2> HIDE DEF e, g, x, n
  <2>9. Says(out, out', taker', k) = (0 - x) + n
    <3>1. Reported(e, taker', k) \in Int /\ Reported(g, taker', k) \in Int
      BY <2>3, <2>4
    <3>2. Says(out, out', taker', k) = Reported(e, taker', k) + Reported(g, taker', k)
      BY <2>2, <2>8, <3>1, SaysAlone
    <3> QED BY <2>3, <2>4, <3>2
  <2>10. /\ a \in Int /\ b \in Int /\ c \in Int /\ d \in Int
         /\ (b + d) - (a + c) = (0 - x) + n
    <3> HIDE DEF a, b, c, d
    <3> QED BY <2>3, <2>4, <2>5, <2>6, <2>7
  <2> QED BY <2>9, <2>10, BalancedIs
<1> QED BY <1>1, <1>2, <1>3 DEF ApplyModify

LEMMA BalancedStep ==
  ASSUME TypeOK, [Next]_vars, out' # <<>>, NEW k
  PROVE  Balanced(k)
<1>1. CASE UNCHANGED vars
  BY <1>1, QuietBalanced DEF vars
<1>2. ASSUME NEW id \in OrderIds, NEW tr \in TraderIds, NEW s \in Sides,
             NEW p \in InPrices, NEW q \in InQtys, NEW tif \in InTifs, NEW stp \in InStps,
             ApplyNew(id, tr, s, p, q, tif, stp)
      PROVE  Balanced(k)
  BY <1>2, ApplyNewBalanced
<1>3. ASSUME NEW id \in OrderIds, NEW tr \in TraderIds, ApplyCancel(id, tr) PROVE Balanced(k)
  BY <1>3, ApplyCancelBalanced
<1>4. ASSUME NEW id \in OrderIds, NEW tr \in TraderIds, NEW p \in InPrices,
             NEW q \in InQtys, ApplyModify(id, tr, p, q)
      PROVE  Balanced(k)
  BY <1>4, ApplyModifyBalanced
<1>5. CASE Proceed
  BY <1>5, FillBalanced, StpBalanced, EndBalanced DEF Proceed
<1>6. CASE Drain
  BY <1>6 DEF Drain
<1> QED BY <1>1, <1>2, <1>3, <1>4, <1>5, <1>6 DEF Next

(* No quantity appears or gets lost: what a step changes in the open       *)
(* quantity of any id, on the book or in the match loop, is exactly what   *)
(* its events say of that id.                                              *)
THEOREM NothingIsLost == Spec => QuantityConserved
<1> DEFINE Kept == \A id \in OrderIds :
                     out' # <<>> =>
                       Open(book', taker', id) - Open(book, taker, id)
                         = SumFunction([k \in 1 .. Len(out') - Len(out) |->
                                          Reported(out'[Len(out) + k], taker', id)])
<1>1. TypeOK /\ [Next]_vars => [Kept]_vars
  <2> SUFFICES ASSUME TypeOK, [Next]_vars, NEW id \in OrderIds, out' # <<>>
               PROVE  Balanced(id)
    BY DEF Balanced, Says
  <2> QED BY BalancedStep
<1>2. [][Kept]_vars => QuantityConserved
  BY PTL DEF QuantityConserved
<1> HIDE DEF Kept
<1> QED BY <1>1, <1>2, TypeCorrect, PTL DEF Spec

-----------------------------------------------------------------------------
(***************************************************************************)
(* The simulation.  What is below holds for every line-up, every number of *)
(* events and whatever the agents draw.                                    *)
(***************************************************************************)

NewIntents == [type : {"New"}, id : OrderIds, side : Sides, price : InPrices,
               qty : InQtys \ {0}, tif : InTifs, stp : InStps]
CancelIntents == [type : {"Cancel"}, id : OrderIds]
Intents == NewIntents \cup CancelIntents

IsMemory(m) ==
  /\ m = [next |-> m.next, bid |-> m.bid, ask |-> m.ask,
          resting |-> m.resting, pending |-> m.pending, seen |-> m.seen, target |-> m.target]
  /\ m.next \in Nat
  /\ {m.bid, m.ask} \subseteq {None} \cup [id : OrderIds, price : Int]
  /\ m.resting \in SUBSET OrderIds /\ IsFiniteSet(m.resting)
  /\ m.pending \in Seq(OrderIds)
  /\ m.target \in InPrices

SimTyped ==
  /\ config \in Configs
  /\ memory = [a \in Agents |-> memory[a]]
  /\ \A a \in Agents : IsMemory(memory[a])
  /\ view = [bid |-> view.bid, ask |-> view.ask, ref |-> view.ref,
             last |-> view.last, live |-> view.live]
  /\ view.ref \in Int
  /\ turn \in 0 .. Len(Lineup)
  /\ batch \in Seq(Intents)
  /\ batch # <<>> => turn >= 1
  /\ seq \in Nat
  /\ number \in [OrderIds -> Nat]

(* An agent has used no more ids than intents were applied or wait, and    *)
(* one that has yet to act in a tick fewer than the log is to have events. *)
IdsLeft ==
  \A a \in Agents :
    /\ memory[a].next <= seq + (IF a = turn - 1 THEN Len(batch) ELSE 0)
    /\ memory[a].next <= config.events + MaxBurst + 1
    /\ a >= turn => memory[a].next < config.events

(* What bears an agent's name, on the book, in the match loop, in a batch  *)
(* or in its memory, bears an id that it has given out.                    *)
Gave(a, id) == \E n \in 1 .. memory[a].next : id = IdOf(a, n)

Recalls(m, id) ==
  \/ m.bid # None /\ m.bid.id = id
  \/ m.ask # None /\ m.ask.id = id
  \/ id \in m.resting
  \/ \E k \in DOMAIN m.pending : m.pending[k] = id

OwnRecalled == \A a \in Agents : \A id \in OrderIds : Recalls(memory[a], id) => Gave(a, id)
OwnBook == \A s \in Sides : \A i \in DOMAIN book[s] :
             book[s][i].trader \in Agents /\ Gave(book[s][i].trader, book[s][i].id)
OwnTaker == taker # NoOrder => taker.trader \in Agents /\ Gave(taker.trader, taker.id)
OwnBatch == \A k \in DOMAIN batch : Gave(turn - 1, batch[k].id)

(* Orders that wait to be entered are new.                                 *)
Fresh ==
  \A k \in DOMAIN batch : batch[k].type = "New" =>
    /\ ~ Live(batch[k].id)
    /\ taker # NoOrder => taker.id # batch[k].id
    /\ \A j \in DOMAIN batch : batch[j].type = "New" /\ batch[j].id = batch[k].id => j = k

Priced == \A k \in DOMAIN batch : batch[k].type = "New" =>
            OnGrid(batch[k].price) \/ Strays(turn)

ViewTrue == Quiescent => /\ view.bid = BestPrice("Bid")
                         /\ view.ask = BestPrice("Ask")
                         /\ view.live = LiveCount

(* The Ack is there as long as an order is being matched: the view is not  *)
(* taken for up to date.                                                   *)
Talking == taker # NoOrder => out # <<>>

Numbered ==
  /\ \A s \in Sides : \A i \in DOMAIN book[s] : number[book[s][i].id] <= seq
  /\ taker # NoOrder => /\ number[taker.id] = seq
                        /\ \A s \in Sides : \A i \in DOMAIN book[s] : number[book[s][i].id] < seq

(* Memory m of agent a has an order of that id, if it comes to rest.       *)
KeptBy(m, a, id, tif) ==
  /\ Lineup[a + 1] = "MarketMaker" => \/ m.bid # None /\ m.bid.id = id
                                      \/ m.ask # None /\ m.ask.id = id
  /\ Lineup[a + 1] = "Noise" /\ tif = "Gtc" => id \in m.resting

Leaving(o) == o.trader = turn - 1 /\ \E k \in DOMAIN batch : batch[k] = CancelIntent(o.id)

KeptBook == \A s \in Sides : \A i \in DOMAIN book[s] :
              LET o == book[s][i] IN Leaving(o) \/ KeptBy(memory[o.trader], o.trader, o.id, "Gtc")
KeptTaker == taker # NoOrder => KeptBy(memory[taker.trader], taker.trader, taker.id, taker.tif)
KeptBatch == \A k \in DOMAIN batch : batch[k].type = "New" =>
               KeptBy(memory[turn - 1], turn - 1, batch[k].id, batch[k].tif)

BookInv == TypeOK /\ PriceSorted /\ NeverCrossed /\ UniqueIds /\ RestingOrdersSound /\ TakerSound

OwnInv == OwnRecalled /\ OwnBook /\ OwnTaker /\ OwnBatch
KeptInv == KeptBook /\ KeptTaker /\ KeptBatch

SimInv == /\ BookInv /\ SimTyped /\ IdsLeft /\ OwnInv /\ Fresh /\ Priced
          /\ ViewTrue /\ Talking /\ Numbered /\ KeptInv
          /\ OnlyTheMarketRejects /\ ArrivalInSequence

-----------------------------------------------------------------------------
(* The ids of two agents never meet, nor do two ids of one agent.          *)

LEMMA IdsApart ==
  ASSUME NEW a \in Nat, NEW b \in Nat,
         NEW n \in 1 .. IdSpace - 1, NEW m \in 1 .. IdSpace - 1, IdOf(a, n) = IdOf(b, m)
  PROVE  a = b /\ n = m
<1>1. IdSpace \in Nat
  BY IdAssumption
<1>2. ASSUME NEW x \in Nat, NEW y \in Nat, NEW i \in 1 .. IdSpace - 1, NEW j \in 1 .. IdSpace - 1,
             x < y
      PROVE  IdOf(x, i) < IdOf(y, j)
  <2>1. PICK d \in Nat : y = x + 1 + d
    <3>1. y - x - 1 \in Nat /\ y = x + 1 + (y - x - 1)
      BY <1>2
    <3> QED BY <3>1
  <2>2. (y + 1) * IdSpace = (x + 1) * IdSpace + IdSpace + d * IdSpace
    BY <1>1, <2>1
  <2>3. d * IdSpace >= 0 /\ (x + 1) * IdSpace \in Int /\ d * IdSpace \in Int
    BY <1>1, <2>1
  <2> QED BY <1>1, <2>2, <2>3 DEF IdOf
<1>3. a = b
  <2>1. IdOf(a, n) \in Int /\ IdOf(b, m) \in Int
    BY <1>1 DEF IdOf
  <2>2. ~ (a < b) /\ ~ (b < a)
    BY <1>2, <2>1
  <2> QED BY <2>2
<1>4. n = m
  BY <1>1, <1>3 DEF IdOf
<1> QED BY <1>3, <1>4

LEMMA AgentFacts ==
  ASSUME SimTyped
  PROVE  /\ Lineup \in Seq(Kinds) /\ Len(Lineup) \in Nat /\ config.events \in Nat
         /\ Agents \subseteq Nat /\ Agents \subseteq TraderIds
         /\ \A a \in Agents : a + 1 \in 1 .. Len(Lineup) /\ IsMemory(memory[a])
         /\ turn >= 1 => turn - 1 \in Agents
         /\ turn < Len(Lineup) => turn \in Agents
         /\ turn \in Nat
<1>1. config \in Configs
  BY DEF SimTyped
<1>2. config \in [agents : Seq(Kinds), events : Nat]
  BY <1>1, SimAssumption
<1>3. Lineup \in Seq(Kinds) /\ config.events \in Nat
  BY <1>2 DEF Lineup
<1>4. Len(Lineup) \in Nat
  BY <1>3, LenProperties
<1>5. turn \in 0 .. Len(Lineup)
  BY DEF SimTyped
<1>6. Agents \subseteq TraderIds
  BY <1>1, InputAssumption DEF Agents, Lineup
<1>7. /\ turn >= 1 => turn - 1 \in Agents
      /\ turn < Len(Lineup) => turn \in Agents
      /\ turn \in Nat
      /\ Agents \subseteq Nat
      /\ \A a \in Agents : a + 1 \in 1 .. Len(Lineup)
  BY <1>4, <1>5 DEF Agents
<1>8. \A a \in Agents : IsMemory(memory[a])
  BY DEF SimTyped
<1> QED BY <1>3, <1>4, <1>6, <1>7, <1>8

(* Numbers of ids that are given out, or are about to be.                  *)
LEMMA IdsInSpace ==
  ASSUME SimTyped, NEW a \in Agents, NEW n \in 1 .. config.events + MaxBurst + 1
  PROVE  n \in 1 .. IdSpace - 1 /\ IdOf(a, n) \in OrderIds
<1>1. config \in Configs /\ config.events \in Nat
  BY AgentFacts DEF SimTyped
<1>2. IdSpace \in Nat /\ config.events + MaxBurst + 2 <= IdSpace /\ MaxBurst \in Nat
  BY <1>1, IdAssumption, SimAssumption
<1>3. n \in 1 .. IdSpace - 1
  BY <1>1, <1>2
<1>4. a \in 0 .. Len(config.agents) - 1
  BY DEF Agents, Lineup
<1> QED BY <1>1, <1>3, <1>4, InputAssumption

LEMMA NextFacts ==
  ASSUME SimTyped, IdsLeft, NEW a \in Agents
  PROVE  /\ memory[a].next \in Nat
         /\ 1 .. memory[a].next \subseteq 1 .. config.events + MaxBurst + 1
         /\ config.events \in Nat /\ MaxBurst \in Nat
<1>1. memory[a].next \in Nat /\ config.events \in Nat /\ MaxBurst \in Nat
  BY AgentFacts, SimAssumption DEF IsMemory
<1>2. memory[a].next <= config.events + MaxBurst + 1
  BY DEF IdsLeft
<1> QED BY <1>1, <1>2

LEMMA OwnApart ==
  ASSUME SimTyped, IdsLeft, NEW a \in Agents, NEW b \in Agents, NEW id, Gave(a, id), Gave(b, id)
  PROVE  a = b
<1>1. PICK n \in 1 .. memory[a].next : id = IdOf(a, n)
  BY DEF Gave
<1>2. PICK m \in 1 .. memory[b].next : id = IdOf(b, m)
  BY DEF Gave
<1>3. n \in 1 .. IdSpace - 1 /\ m \in 1 .. IdSpace - 1
  BY <1>1, <1>2, NextFacts, IdsInSpace
<1>4. a \in Nat /\ b \in Nat
  BY AgentFacts
<1> QED BY <1>1, <1>2, <1>3, <1>4, IdsApart

(* An agent's next ids are nobody's.                                       *)
LEMMA NewIdsAreNew ==
  ASSUME SimTyped, IdsLeft, turn \in Agents, NEW k \in 1 .. MaxBurst + 2
  PROVE  /\ NewId(k) \in OrderIds
         /\ \A a \in Agents : ~ Gave(a, NewId(k))
         /\ \A j \in 1 .. MaxBurst + 2 : NewId(j) = NewId(k) => j = k
<1>1. Mine.next \in Nat /\ Mine.next < config.events /\ config.events \in Nat /\ MaxBurst \in Nat
  <2>1. turn \in Int
    BY AgentFacts
  <2>2. memory[turn].next < config.events
    BY <2>1 DEF IdsLeft
  <2> QED BY <2>2, NextFacts DEF Mine
<1>2. \A j \in 1 .. MaxBurst + 2 : Mine.next + j \in 1 .. config.events + MaxBurst + 1
  BY <1>1
<1>3. \A j \in 1 .. MaxBurst + 2 : /\ NewId(j) \in OrderIds
                                   /\ Mine.next + j \in 1 .. IdSpace - 1
                                   /\ NewId(j) = IdOf(turn, Mine.next + j)
  BY <1>2, IdsInSpace DEF NewId
<1>4. ASSUME NEW a \in Agents, Gave(a, NewId(k)) PROVE FALSE
  <2>1. PICK n \in 1 .. memory[a].next : NewId(k) = IdOf(a, n)
    BY <1>4 DEF Gave
  <2>2. n \in 1 .. IdSpace - 1 /\ a \in Nat /\ turn \in Nat
    BY <2>1, NextFacts, IdsInSpace, AgentFacts
  <2>3. turn = a /\ Mine.next + k = n
    BY <1>3, <2>1, <2>2, IdsApart
  <2> QED BY <1>1, <2>1, <2>3 DEF Mine
<1>5. ASSUME NEW j \in 1 .. MaxBurst + 2, NewId(j) = NewId(k) PROVE j = k
  <2>1. turn \in Nat
    BY AgentFacts
  <2>2. Mine.next + j = Mine.next + k
    BY <1>3, <1>5, <2>1, IdsApart
  <2> QED BY <1>1, <2>2
<1> QED BY <1>3, <1>4, <1>5

-----------------------------------------------------------------------------
(* Every step of a simulation is a step of the engine's specification.     *)

LEMMA BatchFacts ==
  ASSUME SimTyped, batch # <<>>
  PROVE  /\ Head(batch) = batch[1] /\ Head(batch) \in Intents /\ 1 \in DOMAIN batch
         /\ DOMAIN batch = 1 .. Len(batch) /\ Len(batch) \in Nat
         /\ Tail(batch) \in Seq(Intents) /\ Len(Tail(batch)) = Len(batch) - 1
         /\ DOMAIN Tail(batch) = 1 .. Len(batch) - 1
         /\ \A k \in DOMAIN Tail(batch) : /\ k \in Int /\ k + 1 \in DOMAIN batch
                                          /\ Tail(batch)[k] = batch[k + 1]
         /\ turn - 1 \in Agents
<1>1. batch \in Seq(Intents)
  BY DEF SimTyped
<1>2. /\ Len(batch) \in Nat /\ DOMAIN batch = 1 .. Len(batch)
      /\ Tail(batch) \in Seq(Intents) /\ Len(Tail(batch)) = Len(batch) - 1
      /\ DOMAIN Tail(batch) = 1 .. Len(Tail(batch))
      /\ \A k \in 1 .. Len(Tail(batch)) : Tail(batch)[k] = batch[k + 1]
  BY <1>1, LenProperties, HeadTailProperties
<1>3. Head(batch) = batch[1] /\ Head(batch) \in Intents /\ 1 \in 1 .. Len(batch)
  BY <1>1, <1>2, EmptySeq, HeadTailProperties
<1>4. turn - 1 \in Agents
  BY AgentFacts DEF SimTyped
<1> QED BY <1>2, <1>3, <1>4

(* What the runner does with the intent in front.                          *)
SubmitNew(x) == /\ ApplyNew(x.id, turn - 1, x.side, x.price, x.qty, x.tif, x.stp)
                /\ number' = [number EXCEPT ![x.id] = seq + 1]
SubmitCancel(x) == ApplyCancel(x.id, turn - 1) /\ UNCHANGED number

LEMMA SubmitIs ==
  ASSUME SimTyped, Submit
  PROVE  /\ batch # <<>> /\ seq' = seq + 1 /\ batch' = Tail(batch)
         /\ UNCHANGED <<config, memory, view, turn>>
         /\ \/ batch[1] \in NewIntents /\ SubmitNew(batch[1])
            \/ batch[1] \in CancelIntents /\ SubmitCancel(batch[1])
<1>1. batch # <<>> /\ seq' = seq + 1 /\ batch' = Tail(batch) /\ UNCHANGED <<config, memory, view, turn>>
  BY DEF Submit, NextSeq
<1>2. Head(batch) = batch[1] /\ batch[1] \in Intents
  BY <1>1, BatchFacts
<1>3. /\ batch[1].type = "New" => batch[1] \in NewIntents
      /\ batch[1].type = "Cancel" => batch[1] \in CancelIntents
  BY <1>2 DEF Intents, NewIntents, CancelIntents
<1>4. \/ batch[1].type = "New" /\ SubmitNew(batch[1])
      \/ batch[1].type = "Cancel" /\ SubmitCancel(batch[1])
  BY <1>2 DEF Submit, SubmitNew, SubmitCancel, NextSeq
<1> QED BY <1>1, <1>3, <1>4

LEMMA SubmitIsNext == ASSUME SimTyped, Submit PROVE Next
<1>1. turn - 1 \in TraderIds
  BY SubmitIs, BatchFacts, AgentFacts
<1>2. ASSUME NEW x \in NewIntents, SubmitNew(x) PROVE Next
  <2>1. /\ x.id \in OrderIds /\ x.side \in Sides /\ x.price \in InPrices
        /\ x.qty \in InQtys /\ x.tif \in InTifs /\ x.stp \in InStps
    BY DEF NewIntents
  <2>2. ApplyNew(x.id, turn - 1, x.side, x.price, x.qty, x.tif, x.stp)
    BY <1>2 DEF SubmitNew
  <2> HIDE DEF ApplyNew
  <2> QED BY <1>1, <2>1, <2>2 DEF Next
<1>3. ASSUME NEW x \in CancelIntents, SubmitCancel(x) PROVE Next
  <2>1. x.id \in OrderIds /\ ApplyCancel(x.id, turn - 1)
    BY <1>3 DEF CancelIntents, SubmitCancel
  <2> QED BY <1>1, <2>1 DEF Next
<1> QED BY <1>2, <1>3, SubmitIs

AgentActs == MarketMakerActs \/ MomentumActs \/ NoiseActs \/ AdversarialActs

LEMMA AgentsEmit == ASSUME AgentActs PROVE Ready /\ turn < Len(Lineup) /\ \E i, m : Emit(i, m)
<1>1. CASE MarketMakerActs
  BY <1>1 DEF MarketMakerActs, AtTurn
<1>2. CASE MomentumActs
  BY <1>2 DEF MomentumActs, AtTurn
<1>3. CASE NoiseActs
  BY <1>3 DEF NoiseActs, AtTurn
<1>4. CASE AdversarialActs
  BY <1>4 DEF AdversarialActs, AtTurn, Hammer, ParkAtEdge, Probe
<1> QED BY <1>1, <1>2, <1>3, <1>4 DEF AgentActs

LEMMA SimIsNext ==
  ASSUME SimTyped, [SimNext]_simVars
  PROVE  [Next]_vars /\ UNCHANGED config
<1>1. CASE UNCHANGED simVars
  BY <1>1 DEF simVars, engine, vars
<1>2. CASE AgentActs
  BY <1>2, AgentsEmit DEF Emit, engine, vars
<1>3. CASE Submit
  BY <1>3, SubmitIsNext, SubmitIs
<1>4. CASE EngineSteps
  BY <1>4 DEF EngineSteps, Next
<1>5. CASE Publish
  BY <1>5 DEF Publish, Next
<1>6. CASE StartTick
  BY <1>6 DEF StartTick, engine, vars
<1> QED BY <1>1, <1>2, <1>3, <1>4, <1>5, <1>6 DEF SimNext, TickSteps, AgentActs

LEMMA BookStep ==
  ASSUME BookInv, [Next]_vars
  PROVE  BookInv'
<1>1. TypeOK /\ PriceSorted /\ NeverCrossed /\ UniqueIds /\ RestingOrdersSound /\ TakerSound
  BY DEF BookInv
<1>2. TypeOK'
  BY <1>1, TypeStep
<1>3. PriceSorted' /\ NeverCrossed'
  BY <1>1, StepsThin, RestingKeepsOrder, ThinningKeepsOrder
<1>4. UniqueIds'
  BY <1>1, <1>2, UniqueStep
<1>5. RestingOrdersSound' /\ TakerSound'
  BY <1>1, SoundStep
<1> QED BY <1>2, <1>3, <1>4, <1>5 DEF BookInv

-----------------------------------------------------------------------------
(* The loop keeps to one order, and has nothing rejected.                  *)

TakerStays == taker' # NoOrder => /\ taker # NoOrder
                                  /\ taker'.id = taker.id /\ taker'.trader = taker.trader
                                  /\ taker'.tif = taker.tif

OnlyTells == /\ out # <<>> => out' # <<>>
             /\ \A k \in DOMAIN out' : \/ k \in DOMAIN out /\ out'[k] = out[k]
                                       \/ out'[k].ev # "Rejected"

LEMMA ProceedTaker == ASSUME TypeOK, Proceed PROVE TakerStays
<1>1. CASE FillFront
  <2>1. taker \in Takers /\ taker # NoOrder
    BY <1>1, MakerTyped DEF FillFront, Marketable
  <2> DEFINE q == Smaller(taker.remaining, Maker.remaining)
  <2>2. taker' = [taker EXCEPT !.remaining = @ - q]
    BY <1>1 DEF FillFront
  <2> HIDE DEF q
  <2> QED BY <2>1, <2>2 DEF TakerStays, Takers
<1>2. CASE taker' = NoOrder \/ UNCHANGED taker
  BY <1>2 DEF TakerStays
<1> QED BY <1>1, <1>2 DEF Proceed, StpCancelResting, StpCancelAggressor, StpCancelBoth, FinishFilled,
                          RestRemainder, KillRemainder

LEMMA AppendTells ==
  ASSUME NEW o \in Seq(Event), NEW e \in Event, e.ev # "Rejected"
  PROVE  /\ Append(o, e) # <<>>
         /\ \A k \in DOMAIN Append(o, e) : \/ k \in DOMAIN o /\ Append(o, e)[k] = o[k]
                                           \/ Append(o, e)[k].ev # "Rejected"
<1>1. /\ Append(o, e) # <<>> /\ Len(Append(o, e)) = Len(o) + 1 /\ Append(o, e) \in Seq(Event)
      /\ \A k \in 1 .. Len(o) : Append(o, e)[k] = o[k]
      /\ Append(o, e)[Len(o) + 1] = e
  BY AppendProperties
<1>2. DOMAIN Append(o, e) = 1 .. Len(o) + 1 /\ DOMAIN o = 1 .. Len(o) /\ Len(o) \in Nat
  BY <1>1, LenProperties
<1> QED BY <1>1, <1>2

LEMMA ConcatFacts ==
  ASSUME NEW S, NEW u \in Seq(S), NEW v \in Seq(S), NEW w, w = u \o v
  PROVE  /\ w \in Seq(S) /\ Len(w) = Len(u) + Len(v)
         /\ DOMAIN w = 1 .. Len(u) + Len(v)
         /\ Len(u) \in Nat /\ Len(v) \in Nat
         /\ DOMAIN u = 1 .. Len(u) /\ DOMAIN v = 1 .. Len(v)
         /\ \A k \in 1 .. Len(u) + Len(v) : w[k] = IF k <= Len(u) THEN u[k] ELSE v[k - Len(u)]
<1>1. /\ u \o v \in Seq(S) /\ Len(u \o v) = Len(u) + Len(v)
      /\ \A i \in 1 .. Len(u) + Len(v) : (u \o v)[i] = IF i <= Len(u) THEN u[i] ELSE v[i - Len(u)]
  BY ConcatProperties
<1> QED BY <1>1, LenProperties

LEMMA PairTells ==
  ASSUME NEW o \in Seq(Event), NEW e \in Event, e.ev # "Rejected", NEW f \in Event, f.ev # "Rejected",
         NEW w, w = o \o <<e, f>>
  PROVE  /\ w # <<>>
         /\ \A k \in DOMAIN w : \/ k \in DOMAIN o /\ w[k] = o[k]
                                \/ w[k].ev # "Rejected"
<1> DEFINE d == <<e, f>>
<1>1. d \in Seq(Event) /\ Len(d) = 2 /\ d[1] = e /\ d[2] = f
  BY Pair
<1>2. w = o \o d
  OBVIOUS
<1> HIDE DEF d
<1>3. /\ DOMAIN w = 1 .. Len(o) + 2 /\ DOMAIN o = 1 .. Len(o) /\ Len(o) \in Nat
      /\ \A k \in 1 .. Len(o) + 2 : w[k] = IF k <= Len(o) THEN o[k] ELSE d[k - Len(o)]
  BY <1>1, <1>2, ConcatFacts
<1>4. ASSUME NEW k \in 1 .. Len(o) + 2, ~ (k <= Len(o)) PROVE w[k].ev # "Rejected"
  <2>1. Len(o) \in Nat
    BY <1>3
  <2>2. k - Len(o) = 1 \/ k - Len(o) = 2
    BY <1>4, <2>1
  <2> QED BY <1>1, <1>3, <1>4, <2>2
<1>5. w # <<>>
  BY <1>3
<1> QED BY <1>3, <1>4, <1>5

LEMMA ProceedTells == ASSUME TypeOK, Proceed PROVE OnlyTells
<1>1. out \in Seq(Event)
  BY DEF TypeOK
<1>2. ASSUME NEW e \in Event, e.ev # "Rejected", out' = Append(out, e) PROVE OnlyTells
  BY <1>1, <1>2, AppendTells DEF OnlyTells
<1>3. CASE FillFront
  <2> DEFINE q == Smaller(taker.remaining, Maker.remaining)
  <2>1. taker \in Takers /\ Maker \in Order
    BY <1>3, MakerTyped DEF FillFront
  <2>2. q \in Nat
    BY <2>1 DEF Smaller, Takers, Order
  <2>3. out' = Append(out, Fill(taker, Maker.id, Maker.price, q))
    BY <1>3 DEF FillFront
  <2> HIDE DEF q
  <2>4. Fill(taker, Maker.id, Maker.price, q) \in Event
    BY <2>1, <2>2, EventTypes DEF Order
  <2>5. Fill(taker, Maker.id, Maker.price, q).ev # "Rejected"
    BY DEF Fill
  <2> QED BY <1>2, <2>3, <2>4, <2>5
<1>4. ASSUME Marketable
      PROVE  /\ StpCancelled(Maker) \in Event /\ StpCancelled(Maker).ev # "Rejected"
             /\ StpCancelled(taker) \in Event /\ StpCancelled(taker).ev # "Rejected"
  <2>1. taker \in Takers /\ Maker \in Order
    BY <1>4, MakerTyped
  <2>2. StpCancelled(Maker) \in Event /\ StpCancelled(taker) \in Event
    BY <2>1, EventTypes DEF StpCancelled, Order, Takers
  <2> QED BY <2>2 DEF StpCancelled, Cancelled
<1>5. CASE StpCancelResting
  BY <1>2, <1>4, <1>5 DEF StpCancelResting
<1>6. CASE StpCancelAggressor
  BY <1>2, <1>4, <1>6 DEF StpCancelAggressor
<1>7. CASE StpCancelBoth
  <2>1. out' = out \o <<StpCancelled(Maker), StpCancelled(taker)>>
    BY <1>7 DEF StpCancelBoth
  <2>2. /\ StpCancelled(Maker) \in Event /\ StpCancelled(Maker).ev # "Rejected"
        /\ StpCancelled(taker) \in Event /\ StpCancelled(taker).ev # "Rejected"
    BY <1>4, <1>7 DEF StpCancelBoth
  <2> QED BY <1>1, <2>1, <2>2, PairTells DEF OnlyTells
<1>8. CASE UNCHANGED out
  BY <1>8 DEF OnlyTells
<1>9. CASE KillRemainder
  <2>1. taker \in Takers
    BY <1>9 DEF KillRemainder, TypeOK
  <2>2. Cancelled(taker.id, taker.remaining, "Ioc") \in Event
    BY <2>1, EventTypes DEF Takers
  <2>3. Cancelled(taker.id, taker.remaining, "Ioc").ev # "Rejected"
    BY DEF Cancelled
  <2> QED BY <1>2, <1>9, <2>2, <2>3 DEF KillRemainder
<1> QED BY <1>3, <1>5, <1>6, <1>7, <1>8, <1>9 DEF Proceed, FinishFilled, RestRemainder

-----------------------------------------------------------------------------
(* A step of the loop.  An order on the book was there before, or is the   *)
(* one that was being matched.                                             *)

Still == UNCHANGED <<config, memory, view, turn, batch, seq, number>>

WasThere(s, j) == \E i \in DOMAIN book[s] : /\ book'[s][j].id = book[s][i].id
                                            /\ book'[s][j].trader = book[s][i].trader
CameToRest(s, j) == /\ taker # NoOrder /\ taker.tif = "Gtc" /\ taker' = NoOrder
                    /\ book'[s][j].id = taker.id /\ book'[s][j].trader = taker.trader

LEMMA Origin ==
  ASSUME TypeOK, [Next]_vars, NEW s \in Sides, NEW j \in DOMAIN book'[s]
  PROVE  WasThere(s, j) \/ CameToRest(s, j)
<1>1. ASSUME NEW e, Thins(e) PROVE WasThere(s, j)
  BY <1>1 DEF Thins, WasThere
<1>2. CASE RestRemainder
  <2>1. PICK k : RestsAt(k)
    BY <1>2, RestPosition
  <2>2. taker # NoOrder /\ taker.tif = "Gtc" /\ taker' = NoOrder
    BY <1>2 DEF RestRemainder
  <2>3. CASE s # taker.side
    BY <2>1, <2>3 DEF RestsAt, WasThere
  <2>4. CASE s = taker.side
    <3>1. /\ j = k + 1 => book'[s][j].id = taker.id /\ book'[s][j].trader = taker.trader
          /\ j # k + 1 => From(k, j) \in DOMAIN book[s] /\ book'[s][j] = book[s][From(k, j)]
      BY <2>1, <2>4 DEF RestsAt
    <3> QED BY <2>2, <3>1 DEF WasThere, CameToRest
  <2> QED BY <2>3, <2>4
<1> QED BY <1>1, <1>2, StepsThin

LEMMA ProceedMatches == Proceed => taker # NoOrder
BY DEF Proceed, FillFront, StpCancelResting, StpCancelAggressor, StpCancelBoth, Marketable,
       FinishFilled, RestRemainder, KillRemainder

LEMMA StillTyped ==
  ASSUME SimTyped, IdsLeft, OwnRecalled, OwnBatch, Priced, KeptBatch, Still
  PROVE  (SimTyped /\ IdsLeft /\ OwnRecalled /\ OwnBatch /\ Priced /\ KeptBatch)'
<1>1. Still
  OBVIOUS
<1> QED BY <1>1 DEF Still, SimTyped, IdsLeft, OwnRecalled, OwnBatch, Priced, KeptBatch, Gave, KeptBy,
                    Agents, Lineup, Strays

LEMMA LoopKeepsOwn ==
  ASSUME TypeOK, OwnBook, OwnTaker, Proceed, Still
  PROVE  OwnBook' /\ OwnTaker'
<1>1. [Next]_vars
  BY DEF Next
<1>2. Agents' = Agents /\ \A a, id : Gave(a, id)' <=> Gave(a, id)
  BY DEF Still, Agents, Lineup, Gave
<1>3. ASSUME NEW s \in Sides, NEW j \in DOMAIN book'[s]
      PROVE  book'[s][j].trader \in Agents /\ Gave(book'[s][j].trader, book'[s][j].id)
  BY <1>1, Origin DEF WasThere, CameToRest, OwnBook, OwnTaker
<1>4. taker' # NoOrder => taker'.trader \in Agents /\ Gave(taker'.trader, taker'.id)
  BY ProceedTaker DEF TakerStays, OwnTaker
<1> QED BY <1>2, <1>3, <1>4 DEF OwnBook, OwnTaker

LEMMA LoopKeepsFresh ==
  ASSUME TypeOK, Fresh, Proceed, Still
  PROVE  Fresh'
<1>1. [Next]_vars
  BY DEF Next
<1>2. ASSUME NEW id, Live(id)' PROVE Live(id) \/ (taker # NoOrder /\ taker.id = id)
  <2>1. PICK s \in Sides : \E j \in DOMAIN book'[s] : book'[s][j].id = id
    BY <1>2 DEF Live
  <2>2. PICK j \in DOMAIN book'[s] : book'[s][j].id = id
    BY <2>1
  <2> QED BY <1>1, <2>2, Origin DEF WasThere, CameToRest, Live
<1>3. taker' # NoOrder => taker # NoOrder /\ taker'.id = taker.id
  BY ProceedTaker DEF TakerStays
<1>4. batch' = batch
  BY DEF Still
<1> QED BY <1>2, <1>3, <1>4 DEF Fresh

LEMMA LoopKeepsNumbers ==
  ASSUME TypeOK, Numbered, SimTyped, Proceed, Still
  PROVE  Numbered'
<1>1. [Next]_vars
  BY DEF Next
<1>2. number' = number /\ seq' = seq /\ seq \in Nat
  BY DEF Still, SimTyped
<1>3. taker # NoOrder
  BY ProceedMatches
<1>4. ASSUME NEW s \in Sides, NEW j \in DOMAIN book'[s]
      PROVE  /\ number[book'[s][j].id] <= seq
             /\ taker' # NoOrder => number[book'[s][j].id] < seq
  <2>1. CASE WasThere(s, j)
    BY <1>3, <2>1 DEF WasThere, Numbered
  <2>2. CASE CameToRest(s, j)
    BY <1>2, <1>3, <2>2 DEF CameToRest, Numbered
  <2> QED BY <1>1, <2>1, <2>2, Origin
<1>5. taker' # NoOrder => number[taker'.id] = seq
  BY ProceedTaker DEF TakerStays, Numbered
<1> QED BY <1>2, <1>4, <1>5 DEF Numbered

LEMMA LoopKeepsKept ==
  ASSUME TypeOK, KeptBook, KeptTaker, Proceed, Still
  PROVE  KeptBook' /\ KeptTaker'
<1>1. [Next]_vars
  BY DEF Next
<1>2. /\ memory' = memory
      /\ \A m, a, id, tif : KeptBy(m, a, id, tif)' <=> KeptBy(m, a, id, tif)
      /\ \A o : Leaving(o)' <=> Leaving(o)
  BY DEF Still, KeptBy, Lineup, Leaving
<1>3. ASSUME NEW s \in Sides, NEW j \in DOMAIN book'[s]
      PROVE  LET o == book'[s][j] IN Leaving(o) \/ KeptBy(memory[o.trader], o.trader, o.id, "Gtc")
  BY <1>1, Origin DEF WasThere, CameToRest, KeptBook, KeptTaker, Leaving
<1>4. taker' # NoOrder => KeptBy(memory[taker'.trader], taker'.trader, taker'.id, taker'.tif)
  BY ProceedTaker DEF TakerStays, KeptTaker
<1>5. KeptBook'
  BY <1>2, <1>3 DEF KeptBook
<1>6. KeptTaker'
  BY <1>2, <1>4 DEF KeptTaker
<1> QED BY <1>5, <1>6

LEMMA ThinningKeepsArrival ==
  ASSUME ArrivalInSequence, NEW e, Thins(e), number' = number
  PROVE  ArrivalInSequence'
<1> SUFFICES ASSUME NEW s \in Sides, NEW i \in DOMAIN book'[s], NEW j \in DOMAIN book'[s],
                    i < j, book'[s][i].price = book'[s][j].price
             PROVE  number[book'[s][i].id] < number[book'[s][j].id]
  BY DEF ArrivalInSequence
<1>1. /\ e[s][i] \in DOMAIN book[s] /\ e[s][j] \in DOMAIN book[s] /\ e[s][i] < e[s][j]
      /\ book'[s][i].price = book[s][e[s][i]].price /\ book'[s][i].id = book[s][e[s][i]].id
      /\ book'[s][j].price = book[s][e[s][j]].price /\ book'[s][j].id = book[s][e[s][j]].id
  BY DEF Thins
<1>2. book[s][e[s][i]].price = book[s][e[s][j]].price
  BY <1>1
<1>3. number[book[s][e[s][i]].id] < number[book[s][e[s][j]].id]
  BY <1>1, <1>2 DEF ArrivalInSequence
<1> QED BY <1>1, <1>3

(* The order that comes to rest has the last number and the last place of  *)
(* its price.                                                              *)
LEMMA RestKeepsArrival ==
  ASSUME TypeOK, ArrivalInSequence, Numbered, RestRemainder, number' = number
  PROVE  ArrivalInSequence'
<1> DEFINE r == taker.side
           w == book'[r]
           v == book[r]
<1>1. PICK k : RestsAt(k)
  BY RestPosition
<1>2. /\ SortsTo(taker, k) /\ k \in Int
      /\ \A u \in Sides \ {r} : book'[u] = book[u]
  BY <1>1 DEF RestsAt
<1>3. ASSUME NEW j \in DOMAIN w
      PROVE  /\ j \in Int
             /\ j = k + 1 => w[j].id = taker.id /\ w[j].price = taker.price
             /\ j # k + 1 => From(k, j) \in DOMAIN v /\ w[j] = v[From(k, j)]
  BY <1>1 DEF RestsAt
<1>4. /\ taker # NoOrder /\ r \in Sides /\ taker.price \in Int
  <2>1. taker \in Takers /\ taker # NoOrder
    BY DEF RestRemainder, TypeOK
  <2> QED BY <2>1 DEF Takers, I64
<1>5. number[taker.id] = seq /\ \A i \in DOMAIN v : number[v[i].id] < seq
  BY <1>4 DEF Numbered
<1>6. ASSUME NEW i \in DOMAIN w, NEW j \in DOMAIN w, i < j, w[i].price = w[j].price
      PROVE  number[w[i].id] < number[w[j].id]
  <2>1. i \in Int /\ j \in Int
    BY <1>3
  <2>2. CASE i # k + 1 /\ j # k + 1
    <3>1. /\ From(k, i) \in DOMAIN v /\ w[i] = v[From(k, i)]
          /\ From(k, j) \in DOMAIN v /\ w[j] = v[From(k, j)]
      BY <1>3, <2>2
    <3>2. From(k, i) < From(k, j)
      BY <1>2, <1>6, <2>1, <2>2 DEF From
    <3>3. v[From(k, i)].price = v[From(k, j)].price
      BY <1>6, <3>1
    <3>4. number[v[From(k, i)].id] < number[v[From(k, j)].id]
      BY <1>4, <3>1, <3>2, <3>3 DEF ArrivalInSequence
    <3> QED BY <3>1, <3>4
  <2>3. CASE j = k + 1
    <3>1. i # k + 1
      BY <1>6, <2>1, <2>3
    <3>2. From(k, i) \in DOMAIN v /\ w[i] = v[From(k, i)] /\ w[j].id = taker.id
      BY <1>3, <2>3, <3>1
    <3> QED BY <1>5, <3>2
  <2>4. CASE i = k + 1
    <3>1. j # k + 1 /\ ~ (j <= k) /\ ~ (j - 1 <= k)
      BY <1>2, <1>6, <2>1, <2>4
    <3>2. From(k, j) \in DOMAIN v /\ w[j] = v[From(k, j)] /\ From(k, j) = j - 1
      BY <1>3, <3>1 DEF From
    <3>3. Before(r, taker.price, v[j - 1].price)
      BY <1>2, <3>1, <3>2 DEF SortsTo
    <3>4. v[j - 1].price = taker.price
      BY <1>3, <1>6, <2>4, <3>2
    <3> QED BY <1>4, <3>3, <3>4 DEF Before
  <2> QED BY <2>2, <2>3, <2>4
<1> HIDE DEF r
<1> SUFFICES ASSUME NEW s \in Sides, NEW i \in DOMAIN book'[s], NEW j \in DOMAIN book'[s],
                    i < j, book'[s][i].price = book'[s][j].price
             PROVE  number[book'[s][i].id] < number[book'[s][j].id]
  BY DEF ArrivalInSequence
<1>7. CASE s = r
  BY <1>6, <1>7
<1>8. CASE s # r
  BY <1>2, <1>8 DEF ArrivalInSequence
<1> QED BY <1>7, <1>8

LEMMA EngineKeeps == ASSUME SimInv, BookInv', EngineSteps PROVE SimInv'
<1>1. /\ TypeOK /\ SimTyped /\ IdsLeft /\ OwnRecalled /\ OwnBook /\ OwnTaker /\ OwnBatch
      /\ Fresh /\ Priced /\ Talking /\ Numbered /\ KeptBook /\ KeptTaker /\ KeptBatch
      /\ OnlyTheMarketRejects /\ ArrivalInSequence
  BY DEF SimInv, BookInv, OwnInv, KeptInv
<1>2. Proceed /\ Still
  BY DEF EngineSteps, Still
<1>3. [Next]_vars
  BY <1>2 DEF Next
<1>4. (SimTyped /\ IdsLeft /\ OwnRecalled /\ OwnBatch /\ Priced /\ KeptBatch)'
  BY <1>1, <1>2, StillTyped
<1>5. OwnBook' /\ OwnTaker' /\ Fresh' /\ Numbered' /\ KeptBook' /\ KeptTaker'
  BY <1>1, <1>2, LoopKeepsOwn, LoopKeepsFresh, LoopKeepsNumbers, LoopKeepsKept
<1>6. out # <<>> /\ OnlyTells
  BY <1>1, <1>2, ProceedMatches, ProceedTells DEF Talking
<1>7. ViewTrue' /\ Talking'
  BY <1>6 DEF OnlyTells, ViewTrue, Talking, Quiescent
<1>8. OnlyTheMarketRejects'
  <2>1. Lineup' = Lineup /\ turn' = turn /\ memory' = memory
    BY <1>2 DEF Still, Lineup
  <2> QED BY <1>1, <1>6, <2>1 DEF OnlyTells, OnlyTheMarketRejects, Strays
<1>9. ArrivalInSequence'
  <2>1. number' = number
    BY <1>2 DEF Still
  <2> QED BY <1>1, <1>3, <2>1, StepsThin, ThinningKeepsArrival, RestKeepsArrival
<1> QED BY <1>4, <1>5, <1>7, <1>8, <1>9 DEF SimInv, OwnInv, KeptInv

-----------------------------------------------------------------------------
(* The runner applies the intent in front.                                 *)

LEMMA TailFacts ==
  ASSUME SimTyped, Submit
  PROVE  /\ \A k \in DOMAIN batch' : k \in Int /\ k + 1 \in DOMAIN batch /\ batch'[k] = batch[k + 1]
         /\ \A k \in DOMAIN batch : k # 1 => k - 1 \in DOMAIN batch' /\ batch'[k - 1] = batch[k]
         /\ 1 \in DOMAIN batch
<1>1. batch # <<>> /\ batch' = Tail(batch)
  BY SubmitIs
<1>2. /\ DOMAIN batch = 1 .. Len(batch) /\ Len(batch) \in Nat /\ 1 \in DOMAIN batch
      /\ DOMAIN batch' = 1 .. Len(batch) - 1
      /\ \A k \in DOMAIN batch' : k \in Int /\ k + 1 \in DOMAIN batch /\ batch'[k] = batch[k + 1]
  BY <1>1, BatchFacts
<1>3. ASSUME NEW k \in DOMAIN batch, k # 1 PROVE k - 1 \in DOMAIN batch' /\ batch'[k - 1] = batch[k]
  <2>1. k - 1 \in DOMAIN batch' /\ k - 1 + 1 = k
    BY <1>2, <1>3
  <2> QED BY <1>2, <2>1
<1> QED BY <1>2, <1>3

LEMMA SubmitTyped ==
  ASSUME SimTyped, IdsLeft, OwnRecalled, OwnBatch, Priced, KeptBatch, Submit,
         number' \in [OrderIds -> Nat]
  PROVE  (SimTyped /\ IdsLeft /\ OwnRecalled /\ OwnBatch /\ Priced /\ KeptBatch)'
<1>1. /\ batch # <<>> /\ seq' = seq + 1 /\ batch' = Tail(batch)
      /\ config' = config /\ memory' = memory /\ view' = view /\ turn' = turn
  BY SubmitIs
<1>2. /\ batch' \in Seq(Intents) /\ Len(batch') = Len(batch) - 1 /\ Len(batch) \in Nat
      /\ turn - 1 \in Agents
  BY <1>1, BatchFacts
<1>3. Agents' = Agents /\ Lineup' = Lineup /\ \A a, id : Gave(a, id)' <=> Gave(a, id)
  BY <1>1 DEF Agents, Lineup, Gave
<1>4. SimTyped'
  <2>1. seq' \in Nat /\ turn >= 1
    BY <1>1 DEF SimTyped
  <2> QED BY <1>1, <1>2, <1>3, <2>1 DEF SimTyped, IsMemory
<1>5. IdsLeft'
  <2> SUFFICES ASSUME NEW a \in Agents
               PROVE  /\ memory[a].next <= seq + 1 + (IF a = turn - 1 THEN Len(batch) - 1 ELSE 0)
                      /\ memory[a].next <= config.events + MaxBurst + 1
                      /\ a >= turn => memory[a].next < config.events
    BY <1>1, <1>2, <1>3 DEF IdsLeft
  <2>1. memory[a].next \in Nat /\ seq \in Nat /\ Len(batch) \in Nat
    BY <1>2, NextFacts DEF SimTyped
  <2>2. /\ a = turn - 1 => memory[a].next <= seq + Len(batch)
        /\ a # turn - 1 => memory[a].next <= seq + 0
        /\ memory[a].next <= config.events + MaxBurst + 1
        /\ a >= turn => memory[a].next < config.events
    BY DEF IdsLeft
  <2>3. CASE a = turn - 1
    BY <2>1, <2>2, <2>3
  <2>4. CASE a # turn - 1
    BY <2>1, <2>2, <2>4
  <2> QED BY <2>3, <2>4
<1>6. OwnRecalled' /\ OwnBatch'
  BY <1>1, <1>3, TailFacts DEF OwnRecalled, OwnBatch, Recalls
<1>7. Priced'
  BY <1>1, <1>3, TailFacts DEF Priced, Strays
<1>8. KeptBatch'
  BY <1>1, <1>3, TailFacts DEF KeptBatch, KeptBy
<1> QED BY <1>4, <1>5, <1>6, <1>7, <1>8

LEMMA SubmitNewKeeps ==
  ASSUME SimInv, BookInv', Submit, batch[1] \in NewIntents, SubmitNew(batch[1])
  PROVE  SimInv'
<1> DEFINE x == batch[1]
           a == turn - 1
           t == [id |-> x.id, trader |-> a, side |-> x.side, price |-> x.price,
                 original |-> x.qty, remaining |-> x.qty, tif |-> x.tif, stp |-> x.stp]
<1>1. /\ TypeOK /\ SimTyped /\ IdsLeft /\ OwnRecalled /\ OwnBook /\ OwnTaker /\ OwnBatch
      /\ Fresh /\ Priced /\ Talking /\ Numbered /\ KeptBook /\ KeptTaker /\ KeptBatch
      /\ OnlyTheMarketRejects /\ ArrivalInSequence
  BY DEF SimInv, BookInv, OwnInv, KeptInv
<1>2. /\ batch # <<>> /\ seq' = seq + 1 /\ batch' = Tail(batch)
      /\ config' = config /\ memory' = memory /\ view' = view /\ turn' = turn
  BY <1>1, SubmitIs
<1>3. /\ Quiescent /\ book' = book /\ number' = [number EXCEPT ![x.id] = seq + 1]
      /\ \/ taker' = t /\ out' = <<Ack(x.id)>>
         \/ taker' = NoOrder /\ out' = <<Rejected(x.id, NewVerdict(t))>> /\ NewVerdict(t) # "Accepted"
  BY DEF SubmitNew, ApplyNew, Quiescent
<1>4. 1 \in DOMAIN batch /\ a \in Agents
  BY <1>1, <1>2, BatchFacts
<1>5. x.type = "New" /\ x.id \in OrderIds /\ x.qty # 0
  BY DEF NewIntents
<1>6. ~ Live(x.id) /\ \A s \in Sides : \A i \in DOMAIN book[s] : book[s][i].id # x.id
  BY <1>1, <1>4, <1>5 DEF Fresh, Live
<1>7. number' \in [OrderIds -> Nat] /\ seq \in Nat
  BY <1>1, <1>3, <1>5 DEF SimTyped
<1>8. (SimTyped /\ IdsLeft /\ OwnRecalled /\ OwnBatch /\ Priced /\ KeptBatch)'
  BY <1>1, <1>7, SubmitTyped
<1>9. Agents' = Agents /\ Lineup' = Lineup /\ \A b, id : Gave(b, id)' <=> Gave(b, id)
  BY <1>2 DEF Agents, Lineup, Gave
<1>10. taker' = NoOrder \/ taker' = t
  BY <1>3
<1>11. t.id = x.id /\ t.trader = a /\ t.tif = x.tif
  OBVIOUS
<1>12. OwnBook' /\ OwnTaker'
  <2>1. Gave(a, x.id)
    BY <1>1, <1>4 DEF OwnBatch
  <2> QED BY <1>1, <1>3, <1>4, <1>9, <1>10, <1>11, <2>1 DEF OwnBook, OwnTaker
<1>13. Fresh'
  <2>1. \A id : Live(id)' <=> Live(id)
    BY <1>3 DEF Live
  <2>2. ASSUME NEW k \in DOMAIN batch', batch'[k].type = "New"
        PROVE  /\ ~ Live(batch'[k].id)
               /\ batch'[k].id # x.id
               /\ \A j \in DOMAIN batch' :
                    batch'[j].type = "New" /\ batch'[j].id = batch'[k].id => j = k
    <3>1. /\ k \in Int /\ k >= 1 /\ k + 1 \in DOMAIN batch /\ batch'[k] = batch[k + 1]
          /\ \A j \in DOMAIN batch' : j \in Int /\ j + 1 \in DOMAIN batch /\ batch'[j] = batch[j + 1]
      BY <1>1, <1>2, TailFacts, BatchFacts
    <3>2. k + 1 # 1
      BY <3>1
    <3>3. batch'[k].id # x.id
      BY <1>1, <1>4, <1>5, <2>2, <3>1, <3>2 DEF Fresh
    <3>4. ASSUME NEW j \in DOMAIN batch', batch'[j].type = "New", batch'[j].id = batch'[k].id
          PROVE  j = k
      <4>1. j + 1 = k + 1
        BY <1>1, <2>2, <3>1, <3>4 DEF Fresh
      <4> QED BY <3>1, <4>1
    <3>5. ~ Live(batch'[k].id)
      BY <1>1, <2>2, <3>1 DEF Fresh
    <3> QED BY <3>3, <3>4, <3>5
  <2> QED BY <1>10, <1>11, <2>1, <2>2 DEF Fresh
<1>14. ViewTrue' /\ Talking'
  <2>1. CASE out' = <<Ack(x.id)>>
    BY <2>1 DEF ViewTrue, Talking, Quiescent
  <2>2. CASE out' = <<Rejected(x.id, NewVerdict(t))>>
    <3> HIDE DEF t
    <3> QED BY <2>2 DEF ViewTrue, Talking, Quiescent
  <2> QED BY <1>3, <2>1, <2>2
<1>15. \A s \in Sides : \A i \in DOMAIN book[s] : number'[book[s][i].id] = number[book[s][i].id]
  BY <1>1, <1>3, <1>6 DEF SimTyped
<1>16. Numbered'
  <2>1. number'[x.id] = seq + 1
    BY <1>1, <1>3, <1>5 DEF SimTyped
  <2>2. ASSUME NEW s \in Sides, NEW i \in DOMAIN book[s] PROVE number'[book[s][i].id] < seq + 1
    <3>1. book[s][i].id \in OrderIds
      BY <1>1, OrderTyped DEF Order
    <3>2. number[book[s][i].id] \in Nat /\ number[book[s][i].id] <= seq
      BY <1>1, <3>1 DEF SimTyped, Numbered
    <3> QED BY <1>7, <1>15, <3>2
  <2>3. ASSUME NEW s \in Sides, NEW i \in DOMAIN book[s] PROVE number'[book[s][i].id] <= seq + 1
    <3>1. book[s][i].id \in OrderIds
      BY <1>1, OrderTyped DEF Order
    <3>2. number[book[s][i].id] \in Nat /\ number[book[s][i].id] <= seq
      BY <1>1, <3>1 DEF SimTyped, Numbered
    <3> QED BY <1>7, <1>15, <3>2
  <2> QED BY <1>2, <1>3, <1>10, <1>11, <2>1, <2>2, <2>3 DEF Numbered
<1>17. KeptBook'
  <2>1. \A m, b, id, tif : KeptBy(m, b, id, tif)' <=> KeptBy(m, b, id, tif)
    BY <1>9 DEF KeptBy
  <2>2. ASSUME NEW o, Leaving(o) PROVE Leaving(o)'
    <3>1. o.trader = turn - 1
      BY <2>2 DEF Leaving
    <3>2. PICK k \in DOMAIN batch : batch[k] = CancelIntent(o.id)
      BY <2>2 DEF Leaving
    <3>3. k # 1
      <4>1. CancelIntent(o.id).type = "Cancel"
        BY DEF CancelIntent
      <4> QED BY <1>5, <3>2, <4>1
    <3>4. k - 1 \in DOMAIN batch' /\ batch'[k - 1] = CancelIntent(o.id)
      BY <1>1, <3>2, <3>3, TailFacts
    <3> QED BY <1>2, <3>1, <3>4 DEF Leaving
  <2> QED BY <1>1, <1>2, <1>3, <2>1, <2>2 DEF KeptBook
<1>18. KeptTaker'
  <2>1. KeptBy(memory[a], a, x.id, x.tif)
    BY <1>1, <1>4, <1>5 DEF KeptBatch
  <2>2. \A m, b, id, tif : KeptBy(m, b, id, tif)' <=> KeptBy(m, b, id, tif)
    BY <1>9 DEF KeptBy
  <2>3. CASE taker' = t
    <3>1. taker'.trader = a /\ taker'.id = x.id /\ taker'.tif = x.tif
      BY <1>11, <2>3
    <3> HIDE DEF t
    <3>2. KeptBy(memory'[taker'.trader], taker'.trader, taker'.id, taker'.tif)
      BY <1>2, <2>1, <3>1
    <3> QED BY <2>2, <3>2 DEF KeptTaker
  <2> QED BY <1>10, <2>3 DEF KeptTaker
<1>19. OnlyTheMarketRejects'
  <2>1. NewVerdict(t) \in {"Accepted", "ArenaFull", "FokUnfillable"}
          \/ (NewVerdict(t) = "PriceOutOfBounds" /\ Strays(turn))
    <3>1. ~ Live(t.id) /\ t.remaining # 0
      BY <1>5, <1>6
    <3>2. OnGrid(t.price) \/ Strays(turn)
      BY <1>1, <1>4, <1>5 DEF Priced
    <3> HIDE DEF t
    <3> QED BY <3>1, <3>2 DEF NewVerdict
  <2>2. CASE out' = <<Ack(x.id)>>
    BY <2>2 DEF OnlyTheMarketRejects, Ack
  <2>3. CASE out' = <<Rejected(x.id, NewVerdict(t))>> /\ NewVerdict(t) # "Accepted"
    <3> HIDE DEF t
    <3> QED BY <1>2, <1>9, <2>1, <2>3 DEF OnlyTheMarketRejects, Rejected, Strays
  <2> QED BY <1>3, <2>2, <2>3
<1>20. ArrivalInSequence'
  BY <1>1, <1>3, <1>15 DEF ArrivalInSequence
<1> QED BY <1>8, <1>12, <1>13, <1>14, <1>16, <1>17, <1>18, <1>19, <1>20 DEF SimInv, OwnInv, KeptInv

(* An order whose cancel still waits after the step.                       *)
WillLeave(o) == o.trader = turn' - 1 /\ \E k \in DOMAIN batch' : batch'[k] = CancelIntent(o.id)

(* A cancel finds no order of another agent, and leaves none of its id.    *)
LEMMA CancelOutcome ==
  ASSUME TypeOK, UniqueIds, SimTyped, IdsLeft, OwnBook,
         NEW a \in Agents, NEW id \in OrderIds, Gave(a, id), ApplyCancel(id, a)
  PROVE  /\ Quiescent /\ taker' = NoOrder
         /\ \E e : Thins(e)
         /\ \A s \in Sides : \A j \in DOMAIN book'[s] : book'[s][j].id # id
         /\ \/ out' = <<Rejected(id, "UnknownOrderId")>>
            \/ \E r : out' = <<Cancelled(id, r, "User")>>
<1>1. CASE RejectUnknown(id)
  <2>1. book' = book /\ ~ Live(id) /\ Quiescent /\ taker' = NoOrder
        /\ out' = <<Rejected(id, "UnknownOrderId")>>
    BY <1>1 DEF RejectUnknown, Quiescent
  <2> QED BY <2>1, UnchangedThins DEF Live
<1>2. ASSUME NEW s \in Sides, NEW i \in DOMAIN book[s], book[s][i].id = id, book[s][i].trader # a
      PROVE  FALSE
  <2>1. book[s][i].trader \in Agents /\ Gave(book[s][i].trader, id)
    BY <1>2 DEF OwnBook
  <2> QED BY <1>2, <2>1, OwnApart
<1>3. ASSUME NEW s \in Sides, NEW i \in DOMAIN book[s], book[s][i].id = id, Quiescent, UNCHANGED taker,
             RemoveOrder(s, i), out' = <<Cancelled(id, book[s][i].remaining, "User")>>
      PROVE  /\ Quiescent /\ taker' = NoOrder
             /\ \E e : Thins(e)
             /\ \A u \in Sides : \A j \in DOMAIN book'[u] : book'[u][j].id # id
             /\ \E r : out' = <<Cancelled(id, r, "User")>>
  <2>1. PICK e : Thins(e) /\ Spares(e, s, i)
    BY <1>3, RemoveKind
  <2>2. ASSUME NEW u \in Sides, NEW j \in DOMAIN book'[u], book'[u][j].id = id PROVE FALSE
    <3>1. e[u][j] \in DOMAIN book[u] /\ book[u][e[u][j]].id = id
      BY <2>1, <2>2 DEF Thins
    <3>2. u = s /\ e[u][j] = i
      BY <1>3, <3>1, SameOrder
    <3> QED BY <2>1, <3>2 DEF Spares
  <2> QED BY <1>3, <2>1, <2>2 DEF Quiescent
<1> QED BY <1>1, <1>2, <1>3 DEF ApplyCancel

LEMMA SubmitCancelKeeps ==
  ASSUME SimInv, BookInv', Submit, batch[1] \in CancelIntents, SubmitCancel(batch[1])
  PROVE  SimInv'
<1> DEFINE x == batch[1]
           a == turn - 1
<1>1. /\ TypeOK /\ UniqueIds /\ SimTyped /\ IdsLeft /\ OwnRecalled /\ OwnBook /\ OwnTaker /\ OwnBatch
      /\ Fresh /\ Priced /\ Talking /\ Numbered /\ KeptBook /\ KeptTaker /\ KeptBatch
      /\ OnlyTheMarketRejects /\ ArrivalInSequence
  BY DEF SimInv, BookInv, OwnInv, KeptInv
<1>2. /\ batch # <<>> /\ seq' = seq + 1 /\ batch' = Tail(batch)
      /\ config' = config /\ memory' = memory /\ view' = view /\ turn' = turn
  BY <1>1, SubmitIs
<1>3. 1 \in DOMAIN batch /\ a \in Agents
  BY <1>1, <1>2, BatchFacts
<1>4. x.id \in OrderIds /\ x.type = "Cancel" /\ ApplyCancel(x.id, a) /\ number' = number
  BY DEF CancelIntents, SubmitCancel
<1>5. Gave(a, x.id)
  BY <1>1, <1>3 DEF OwnBatch
<1>6. /\ Quiescent /\ taker' = NoOrder
      /\ \E e : Thins(e)
      /\ \A s \in Sides : \A j \in DOMAIN book'[s] : book'[s][j].id # x.id
      /\ \/ out' = <<Rejected(x.id, "UnknownOrderId")>>
         \/ \E r : out' = <<Cancelled(x.id, r, "User")>>
  BY <1>1, <1>3, <1>4, <1>5, CancelOutcome
<1>7. (SimTyped /\ IdsLeft /\ OwnRecalled /\ OwnBatch /\ Priced /\ KeptBatch)'
  <2>1. number' \in [OrderIds -> Nat]
    BY <1>1, <1>4 DEF SimTyped
  <2> QED BY <1>1, <2>1, SubmitTyped
<1>8. Agents' = Agents /\ Lineup' = Lineup /\ \A b, id : Gave(b, id)' <=> Gave(b, id)
  BY <1>2 DEF Agents, Lineup, Gave
<1>9. \A s \in Sides : \A j \in DOMAIN book'[s] : WasThere(s, j)
  BY <1>6 DEF Thins, WasThere
<1>10. OwnBook' /\ OwnTaker'
  <2>1. OwnBook'
    BY <1>1, <1>8, <1>9 DEF OwnBook, WasThere
  <2> QED BY <1>6, <2>1 DEF OwnTaker
<1>11. Fresh'
  <2>1. ASSUME NEW id, Live(id)' PROVE Live(id)
    BY <1>9, <2>1 DEF Live, WasThere
  <2>2. ASSUME NEW k \in DOMAIN batch', batch'[k].type = "New"
        PROVE  /\ ~ Live(batch'[k].id)
               /\ \A j \in DOMAIN batch' :
                    batch'[j].type = "New" /\ batch'[j].id = batch'[k].id => j = k
    <3>1. /\ k \in Int /\ k + 1 \in DOMAIN batch /\ batch'[k] = batch[k + 1]
          /\ \A j \in DOMAIN batch' : j \in Int /\ j + 1 \in DOMAIN batch /\ batch'[j] = batch[j + 1]
      BY <1>1, TailFacts
    <3>2. ASSUME NEW j \in DOMAIN batch', batch'[j].type = "New", batch'[j].id = batch'[k].id
          PROVE  j = k
      <4>1. j + 1 = k + 1
        BY <1>1, <2>2, <3>1, <3>2 DEF Fresh
      <4> QED BY <3>1, <4>1
    <3>3. ~ Live(batch'[k].id)
      BY <1>1, <2>2, <3>1 DEF Fresh
    <3> QED BY <3>2, <3>3
  <2> QED BY <1>6, <2>1, <2>2 DEF Fresh
<1>12. ViewTrue' /\ Talking'
  BY <1>6 DEF ViewTrue, Talking, Quiescent
<1>13. Numbered'
  <2>1. ASSUME NEW s \in Sides, NEW j \in DOMAIN book'[s] PROVE number[book'[s][j].id] <= seq + 1
    <3>1. PICK i \in DOMAIN book[s] : book'[s][j].id = book[s][i].id
      BY <1>9 DEF WasThere
    <3>2. book[s][i].id \in OrderIds
      BY <1>1, OrderTyped DEF Order
    <3>3. number[book[s][i].id] \in Nat /\ number[book[s][i].id] <= seq /\ seq \in Nat
      BY <1>1, <3>2 DEF SimTyped, Numbered
    <3> QED BY <3>1, <3>3
  <2> QED BY <1>2, <1>4, <1>6, <2>1 DEF Numbered
<1>14. KeptBook' /\ KeptTaker'
  <2>1. \A m, b, id, tif : KeptBy(m, b, id, tif)' <=> KeptBy(m, b, id, tif)
    BY <1>8 DEF KeptBy
  <2>2. ASSUME NEW o, Leaving(o), o.id # x.id PROVE WillLeave(o)
    <3>1. o.trader = turn - 1
      BY <2>2 DEF Leaving
    <3>2. PICK k \in DOMAIN batch : batch[k] = CancelIntent(o.id)
      BY <2>2 DEF Leaving
    <3>3. k # 1
      <4>1. CancelIntent(o.id).id = o.id
        BY DEF CancelIntent
      <4> QED BY <2>2, <3>2, <4>1
    <3>4. k - 1 \in DOMAIN batch' /\ batch'[k - 1] = CancelIntent(o.id)
      BY <1>1, <3>2, <3>3, TailFacts
    <3> QED BY <1>2, <3>1, <3>4 DEF WillLeave
  <2>3. ASSUME NEW s \in Sides, NEW j \in DOMAIN book'[s], NEW o, o = book'[s][j]
        PROVE  WillLeave(o) \/ KeptBy(memory[o.trader], o.trader, o.id, "Gtc")
    <3>1. PICK i \in DOMAIN book[s] : o.id = book[s][i].id /\ o.trader = book[s][i].trader
      BY <1>9, <2>3 DEF WasThere
    <3>2. Leaving(book[s][i]) \/ KeptBy(memory[o.trader], o.trader, o.id, "Gtc")
      BY <1>1, <3>1 DEF KeptBook
    <3>3. Leaving(book[s][i]) => Leaving(o)
      BY <3>1 DEF Leaving
    <3>4. o.id # x.id
      BY <1>6, <2>3
    <3> QED BY <2>2, <3>2, <3>3, <3>4
  <2>4. KeptBook'
    BY <1>2, <1>8, <2>3 DEF KeptBook, Leaving, WillLeave, KeptBy
  <2> QED BY <1>6, <2>4 DEF KeptTaker
<1>15. OnlyTheMarketRejects'
  BY <1>6 DEF OnlyTheMarketRejects, Rejected, Cancelled
<1>16. ArrivalInSequence'
  BY <1>1, <1>4, <1>6, ThinningKeepsArrival
<1> QED BY <1>7, <1>10, <1>11, <1>12, <1>13, <1>14, <1>15, <1>16 DEF SimInv, OwnInv, KeptInv

-----------------------------------------------------------------------------
(* The runner between applies.                                             *)

LEMMA PublishKeeps == ASSUME SimInv, BookInv', Publish PROVE SimInv'
<1>1. /\ TypeOK /\ SimTyped /\ IdsLeft /\ OwnRecalled /\ OwnBook /\ OwnTaker /\ OwnBatch
      /\ Fresh /\ Priced /\ Talking /\ Numbered /\ KeptBook /\ KeptTaker /\ KeptBatch
      /\ OnlyTheMarketRejects /\ ArrivalInSequence
  BY DEF SimInv, BookInv, OwnInv, KeptInv
<1>2. /\ taker = NoOrder /\ taker' = NoOrder /\ out' = <<>> /\ book' = book
      /\ config' = config /\ memory' = memory /\ turn' = turn /\ batch' = batch
      /\ seq' = seq /\ number' = number
  BY DEF Publish, Drain
<1>3. PICK p : view' = [view EXCEPT !.bid = BestPrice("Bid"), !.ask = BestPrice("Ask"),
                                    !.live = LiveCount, !.last = p]
  BY Zenon DEF Publish
<1>4. /\ view' = [bid |-> view'.bid, ask |-> view'.ask, ref |-> view'.ref,
                  last |-> view'.last, live |-> view'.live]
      /\ view'.ref = view.ref
      /\ view'.bid = BestPrice("Bid") /\ view'.ask = BestPrice("Ask") /\ view'.live = LiveCount
  <2>1. view = [bid |-> view.bid, ask |-> view.ask, ref |-> view.ref,
                last |-> view.last, live |-> view.live]
    BY <1>1 DEF SimTyped
  <2> QED BY <1>3, <2>1
<1>5. Agents' = Agents /\ Lineup' = Lineup /\ \A b, id : Gave(b, id)' <=> Gave(b, id)
  BY <1>2 DEF Agents, Lineup, Gave
<1>6. SimTyped'
  BY <1>1, <1>2, <1>4, <1>5 DEF SimTyped, IsMemory
<1>7. (IdsLeft /\ OwnRecalled /\ OwnBook /\ OwnTaker /\ OwnBatch)'
  BY <1>1, <1>2, <1>5 DEF IdsLeft, OwnRecalled, OwnBook, OwnTaker, OwnBatch
<1>8. (Fresh /\ Priced /\ Talking /\ Numbered /\ ArrivalInSequence)'
  BY <1>1, <1>2, <1>5 DEF Fresh, Live, Priced, Strays, Talking, Numbered, ArrivalInSequence
<1>9. (KeptBook /\ KeptTaker /\ KeptBatch)'
  BY <1>1, <1>2, <1>5 DEF KeptBook, KeptTaker, KeptBatch, KeptBy, Leaving
<1>10. ViewTrue'
  BY <1>2, <1>4 DEF ViewTrue, BestPrice, LiveCount
<1>11. OnlyTheMarketRejects'
  BY <1>2 DEF OnlyTheMarketRejects
<1> QED BY <1>6, <1>7, <1>8, <1>9, <1>10, <1>11 DEF SimInv, OwnInv, KeptInv

LEMMA StartKeeps == ASSUME SimInv, BookInv', StartTick PROVE SimInv'
<1>1. /\ TypeOK /\ SimTyped /\ IdsLeft /\ OwnRecalled /\ OwnBook /\ OwnTaker /\ OwnBatch
      /\ Fresh /\ Priced /\ ViewTrue /\ Talking /\ Numbered /\ KeptBook /\ KeptTaker /\ KeptBatch
      /\ OnlyTheMarketRejects /\ ArrivalInSequence
  BY DEF SimInv, BookInv, OwnInv, KeptInv
<1>2. /\ batch = <<>> /\ taker = NoOrder /\ out = <<>> /\ seq < config.events
      /\ taker' = taker /\ out' = out /\ book' = book
      /\ config' = config /\ memory' = memory /\ turn' = 0 /\ batch' = batch
      /\ seq' = seq /\ number' = number
  BY DEF StartTick, Ready, Quiescent, engine
<1>3. PICK p \in RefPrices : view' = [view EXCEPT !.ref = p]
  BY DEF StartTick
<1>4. /\ view' = [bid |-> view'.bid, ask |-> view'.ask, ref |-> view'.ref,
                  last |-> view'.last, live |-> view'.live]
      /\ view'.ref \in Int
      /\ view'.bid = view.bid /\ view'.ask = view.ask /\ view'.live = view.live
  <2>1. view = [bid |-> view.bid, ask |-> view.ask, ref |-> view.ref,
                last |-> view.last, live |-> view.live]
    BY <1>1 DEF SimTyped
  <2>2. p \in Int
    BY GridAssumption DEF RefPrices
  <2> QED BY <1>3, <2>1, <2>2
<1>5. Agents' = Agents /\ Lineup' = Lineup /\ \A b, id : Gave(b, id)' <=> Gave(b, id)
  BY <1>2 DEF Agents, Lineup, Gave
<1>6. SimTyped'
  <2>1. turn' \in 0 .. Len(Lineup)
    BY <1>1, <1>2, AgentFacts
  <2> QED BY <1>1, <1>2, <1>4, <1>5, <2>1 DEF SimTyped, IsMemory
<1>7. IdsLeft'
  <2>1. ASSUME NEW b \in Agents
        PROVE  /\ memory[b].next <= seq + (IF b = 0 - 1 THEN Len(batch) ELSE 0)
               /\ memory[b].next <= config.events + MaxBurst + 1
               /\ memory[b].next < config.events
    <3>1. /\ memory[b].next \in Nat /\ seq \in Nat /\ config.events \in Nat /\ b \in Nat
      BY <1>1, NextFacts, AgentFacts DEF SimTyped
    <3>2. Len(batch) = 0
      BY <1>2
    <3>3. /\ memory[b].next <= seq + (IF b = turn - 1 THEN Len(batch) ELSE 0)
          /\ memory[b].next <= config.events + MaxBurst + 1
      BY <1>1 DEF IdsLeft
    <3> QED BY <1>2, <3>1, <3>2, <3>3
  <2> QED BY <1>2, <1>5, <2>1 DEF IdsLeft
<1>8. (OwnRecalled /\ OwnBook /\ OwnTaker)'
  BY <1>1, <1>2, <1>5 DEF OwnRecalled, OwnBook, OwnTaker
<1>9. (Talking /\ Numbered /\ ArrivalInSequence)'
  BY <1>1, <1>2 DEF Talking, Numbered, ArrivalInSequence
<1>10. (OwnBatch /\ Fresh /\ Priced /\ KeptBatch)'
  BY <1>2 DEF OwnBatch, Fresh, Priced, KeptBatch
<1>11. (KeptBook /\ KeptTaker)'
  <2>1. \A o : ~ Leaving(o)
    BY <1>2 DEF Leaving
  <2>2. \A m, b, id, tif : KeptBy(m, b, id, tif)' <=> KeptBy(m, b, id, tif)
    BY <1>5 DEF KeptBy
  <2> QED BY <1>1, <1>2, <2>1, <2>2 DEF KeptBook, KeptTaker
<1>12. ViewTrue'
  BY <1>1, <1>2, <1>4 DEF ViewTrue, BestPrice, LiveCount, Quiescent
<1>13. OnlyTheMarketRejects'
  BY <1>2 DEF OnlyTheMarketRejects
<1> QED BY <1>6, <1>7, <1>8, <1>9, <1>10, <1>11, <1>12, <1>13 DEF SimInv, OwnInv, KeptInv

-----------------------------------------------------------------------------
(* An agent's turn: cancels c of orders it recalls, then new orders d with *)
(* its next ids, on the grid; and it remembers, in m, what it kept or will *)
(* have on the book.                                                       *)

Emits(c, d, m) ==
  /\ turn \in Agents /\ Ready /\ Emit(c \o d, m)
  /\ c \in Seq(CancelIntents) /\ d \in Seq(NewIntents) /\ Len(d) <= MaxBurst + 2
  /\ IsMemory(m) /\ m.next = Mine.next + Len(d) /\ m.target = Mine.target
  /\ \A k \in DOMAIN c : Recalls(Mine, c[k].id)
  /\ \A k \in DOMAIN d : /\ d[k].id = NewId(k)
                         /\ OnGrid(d[k].price) \/ Strays(turn + 1)
                         /\ KeptBy(m, turn, d[k].id, d[k].tif)
  /\ \A id \in OrderIds : Recalls(m, id) => Recalls(Mine, id) \/ \E k \in DOMAIN d : d[k].id = id
  /\ \A id \in OrderIds : KeptBy(Mine, turn, id, "Gtc") =>
       KeptBy(m, turn, id, "Gtc") \/ \E k \in DOMAIN c : c[k] = CancelIntent(id)

(* The batch that an agent hands over.                                     *)
LEMMA HandedOver ==
  ASSUME NEW c, NEW d, NEW m, Emits(c, d, m)
  PROVE  /\ batch' \in Seq(Intents) /\ Len(batch') = Len(c) + Len(d)
         /\ Len(c) \in Nat /\ Len(d) \in Nat /\ DOMAIN d = 1 .. Len(d)
         /\ \A k \in DOMAIN c : k \in DOMAIN batch' /\ batch'[k] = c[k]
         /\ \A k \in DOMAIN batch' :
              \/ k \in DOMAIN c /\ batch'[k] = c[k] /\ c[k] \in CancelIntents
              \/ \E i \in DOMAIN d : batch'[k] = d[i] /\ d[i] \in NewIntents /\ k = Len(c) + i
<1>1. c \in Seq(CancelIntents) /\ d \in Seq(NewIntents) /\ batch' = c \o d
  BY DEF Emits, Emit
<1>2. c \in Seq(Intents) /\ d \in Seq(Intents)
  BY <1>1, SeqMonotonic DEF Intents
<1>3. /\ batch' \in Seq(Intents) /\ Len(batch') = Len(c) + Len(d)
      /\ DOMAIN batch' = 1 .. Len(c) + Len(d)
      /\ Len(c) \in Nat /\ Len(d) \in Nat
      /\ DOMAIN c = 1 .. Len(c) /\ DOMAIN d = 1 .. Len(d)
      /\ \A k \in 1 .. Len(c) + Len(d) : batch'[k] = IF k <= Len(c) THEN c[k] ELSE d[k - Len(c)]
  BY <1>1, <1>2, ConcatFacts
<1>4. /\ \A k \in DOMAIN c : c[k] \in CancelIntents
      /\ \A k \in DOMAIN d : d[k] \in NewIntents
  BY <1>1, <1>3, ElementOfSeq
<1>5. ASSUME NEW k \in 1 .. Len(c) + Len(d)
      PROVE  \/ k \in DOMAIN c /\ batch'[k] = c[k]
             \/ \E i \in DOMAIN d : batch'[k] = d[i] /\ k = Len(c) + i
  <2>1. CASE k <= Len(c)
    BY <1>3, <2>1
  <2>2. CASE ~ (k <= Len(c))
    <3>1. k - Len(c) \in DOMAIN d /\ k = Len(c) + (k - Len(c))
      BY <1>3, <2>2
    <3>2. batch'[k] = d[k - Len(c)]
      BY <1>3, <2>2
    <3> QED BY <3>1, <3>2
  <2> QED BY <2>1, <2>2
<1>6. ASSUME NEW k \in DOMAIN c PROVE k \in DOMAIN batch' /\ batch'[k] = c[k]
  <2>1. k \in 1 .. Len(c) /\ k \in 1 .. Len(c) + Len(d) /\ k <= Len(c)
    BY <1>3
  <2> QED BY <1>3, <2>1
<1> QED BY <1>3, <1>4, <1>5, <1>6

LEMMA EmitsFacts ==
  ASSUME SimTyped, NEW c, NEW d, NEW m, Emits(c, d, m)
  PROVE  /\ turn \in Agents /\ turn \in Nat /\ turn' = turn + 1 /\ turn' - 1 = turn
         /\ batch = <<>> /\ Len(batch) = 0 /\ Quiescent /\ taker' = NoOrder /\ out' = <<>>
         /\ book' = book /\ config' = config /\ view' = view /\ seq' = seq /\ number' = number
         /\ memory' = [memory EXCEPT ![turn] = m]
         /\ memory'[turn] = m /\ \A a \in Agents \ {turn} : memory'[a] = memory[a]
         /\ Agents' = Agents /\ Lineup' = Lineup
         /\ m.next \in Nat /\ m.next = memory[turn].next + Len(d)
<1>1. /\ turn \in Agents /\ turn' = turn + 1 /\ batch = <<>> /\ taker = NoOrder /\ out = <<>>
      /\ taker' = taker /\ out' = out
      /\ book' = book /\ config' = config /\ view' = view /\ seq' = seq /\ number' = number
      /\ memory' = [memory EXCEPT ![turn] = m]
      /\ m.next \in Nat /\ m.next = memory[turn].next + Len(d)
  BY DEF Emits, Emit, Ready, Quiescent, engine, IsMemory, Mine
<1>2. memory = [a \in Agents |-> memory[a]]
  BY DEF SimTyped
<1>3. memory'[turn] = m /\ \A a \in Agents \ {turn} : memory'[a] = memory[a]
  BY <1>1, <1>2
<1>4. turn \in Nat
  BY AgentFacts
<1>5. turn' - 1 = turn
  BY <1>1, <1>4
<1>6. Agents' = Agents /\ Lineup' = Lineup
  BY <1>1 DEF Agents, Lineup
<1> QED BY <1>1, <1>3, <1>4, <1>5, <1>6 DEF Quiescent

LEMMA EmitsTyped ==
  ASSUME SimTyped, IdsLeft, NEW c, NEW d, NEW m, Emits(c, d, m)
  PROVE  SimTyped' /\ IdsLeft'
<1>1. /\ turn \in Agents /\ turn \in Nat /\ turn' = turn + 1 /\ turn' - 1 = turn
      /\ batch = <<>> /\ Len(batch) = 0
      /\ config' = config /\ view' = view /\ seq' = seq /\ number' = number
      /\ memory' = [memory EXCEPT ![turn] = m]
      /\ memory'[turn] = m /\ \A a \in Agents \ {turn} : memory'[a] = memory[a]
      /\ Agents' = Agents /\ Lineup' = Lineup
      /\ m.next \in Nat /\ m.next = memory[turn].next + Len(d)
  BY EmitsFacts
<1>2. batch' \in Seq(Intents) /\ Len(batch') = Len(c) + Len(d) /\ Len(c) \in Nat /\ Len(d) \in Nat
  BY HandedOver
<1>3. Len(d) <= MaxBurst + 2 /\ IsMemory(m)
  BY DEF Emits
<1>4. SimTyped'
  <2>1. turn' \in 0 .. Len(Lineup) /\ turn' >= 1
    BY <1>1, AgentFacts
  <2>2. \A a \in Agents : IsMemory(memory'[a])
    BY <1>1, <1>3 DEF SimTyped
  <2>3. memory' = [a \in Agents |-> memory'[a]]
    BY <1>1 DEF SimTyped
  <2>4. /\ (\A a \in Agents : IsMemory(memory[a]))'
        /\ (memory = [a \in Agents |-> memory[a]])'
    BY <1>1, <2>2, <2>3 DEF IsMemory
  <2> QED BY <1>1, <1>2, <2>1, <2>4 DEF SimTyped
<1>5. IdsLeft'
  <2>1. ASSUME NEW a \in Agents
        PROVE  /\ memory'[a].next <= seq + (IF a = turn THEN Len(batch') ELSE 0)
               /\ memory'[a].next <= config.events + MaxBurst + 1
               /\ a >= turn + 1 => memory'[a].next < config.events
    <3>1. /\ memory[a].next \in Nat /\ seq \in Nat /\ config.events \in Nat /\ a \in Nat /\ MaxBurst \in Nat
      BY NextFacts, AgentFacts DEF SimTyped
    <3>2. /\ memory[a].next <= seq + (IF a = turn - 1 THEN Len(batch) ELSE 0)
          /\ memory[a].next <= config.events + MaxBurst + 1
          /\ a >= turn => memory[a].next < config.events
      BY DEF IdsLeft
    <3>3. memory[a].next <= seq
      BY <1>1, <3>1, <3>2
    <3>4. CASE a = turn
      <4>1. memory'[a].next = memory[a].next + Len(d)
        BY <1>1, <3>4
      <4>2. memory[a].next < config.events
        BY <1>1, <3>2, <3>4
      <4>3. memory'[a].next <= seq + Len(batch')
        BY <1>2, <3>1, <3>3, <4>1
      <4>4. memory'[a].next <= config.events + MaxBurst + 1
        BY <1>2, <1>3, <3>1, <4>1, <4>2
      <4>5. ~ (a >= turn + 1)
        BY <3>1, <3>4
      <4> QED BY <3>4, <4>3, <4>4, <4>5
    <3>5. CASE a # turn
      <4>1. memory'[a] = memory[a]
        BY <1>1, <3>5
      <4> QED BY <1>1, <3>1, <3>2, <3>3, <3>5, <4>1
    <3> QED BY <3>4, <3>5
  <2> QED BY <1>1, <2>1 DEF IdsLeft
<1> QED BY <1>4, <1>5

(* An id that is given out after the step.                                 *)
NowGave(a, id) == \E n \in 1 .. memory'[a].next : id = IdOf(a, n)

LEMMA EmitsGives ==
  ASSUME SimTyped, IdsLeft, NEW c, NEW d, NEW m, Emits(c, d, m)
  PROVE  /\ \A a \in Agents : \A id : Gave(a, id) => NowGave(a, id)
         /\ \A k \in DOMAIN d : NowGave(turn, d[k].id)
         /\ \A k \in DOMAIN d : /\ \A a \in Agents : ~ Gave(a, d[k].id)
                                /\ \A j \in DOMAIN d : d[j].id = d[k].id => j = k
<1>1. /\ turn \in Agents /\ m.next = memory[turn].next + Len(d)
      /\ memory'[turn] = m /\ \A a \in Agents \ {turn} : memory'[a] = memory[a]
  BY EmitsFacts
<1>2. Len(d) \in Nat /\ DOMAIN d = 1 .. Len(d) /\ Len(d) <= MaxBurst + 2 /\ MaxBurst \in Nat
  BY HandedOver, SimAssumption DEF Emits
<1>3. \A k \in DOMAIN d : d[k].id = NewId(k) /\ k \in 1 .. MaxBurst + 2
  BY <1>2 DEF Emits
<1>4. memory[turn].next \in Nat
  BY <1>1, NextFacts
<1>5. ASSUME NEW a \in Agents, NEW id, Gave(a, id) PROVE \E n \in 1 .. memory'[a].next : id = IdOf(a, n)
  <2>1. PICK n \in 1 .. memory[a].next : id = IdOf(a, n)
    BY <1>5 DEF Gave
  <2>2. CASE a = turn
    <3>1. n \in 1 .. memory'[a].next
      BY <1>1, <1>2, <1>4, <2>1, <2>2
    <3> QED BY <2>1, <3>1
  <2>3. CASE a # turn
    BY <1>1, <2>1, <2>3
  <2> QED BY <2>2, <2>3
<1>6. ASSUME NEW k \in DOMAIN d PROVE \E n \in 1 .. memory'[turn].next : d[k].id = IdOf(turn, n)
  <2>1. d[k].id = IdOf(turn, memory[turn].next + k)
    BY <1>3 DEF NewId, Mine
  <2>2. memory[turn].next + k \in 1 .. memory'[turn].next
    BY <1>1, <1>2, <1>4
  <2> QED BY <2>1, <2>2
<1>7. /\ \A a \in Agents : \A id : Gave(a, id) => NowGave(a, id)
      /\ \A k \in DOMAIN d : NowGave(turn, d[k].id)
  BY <1>5, <1>6 DEF NowGave
<1>8. ASSUME NEW k \in DOMAIN d
      PROVE  /\ \A a \in Agents : ~ Gave(a, d[k].id)
             /\ \A j \in DOMAIN d : d[j].id = d[k].id => j = k
  BY <1>1, <1>3, NewIdsAreNew
<1> QED BY <1>7, <1>8

LEMMA EmitsOwn ==
  ASSUME SimTyped, IdsLeft, OwnInv, NEW c, NEW d, NEW m, Emits(c, d, m)
  PROVE  OwnInv'
<1>1. OwnRecalled /\ OwnBook /\ OwnTaker /\ OwnBatch
  BY DEF OwnInv
<1>2. /\ turn \in Agents /\ turn' - 1 = turn /\ book' = book /\ taker' = NoOrder
      /\ memory'[turn] = m /\ \A a \in Agents \ {turn} : memory'[a] = memory[a]
      /\ Agents' = Agents
  BY EmitsFacts
<1>3. /\ \A a \in Agents : \A id : Gave(a, id) => NowGave(a, id)
      /\ \A k \in DOMAIN d : NowGave(turn, d[k].id)
  BY EmitsGives
<1>4. OwnRecalled'
  <2> SUFFICES ASSUME NEW a \in Agents, NEW id \in OrderIds, Recalls(memory'[a], id)
               PROVE  NowGave(a, id)
    BY <1>2 DEF OwnRecalled, Recalls, Gave, NowGave
  <2>1. CASE a = turn
    <3>1. Recalls(m, id)
      BY <1>2, <2>1
    <3>2. Recalls(Mine, id) \/ \E k \in DOMAIN d : d[k].id = id
      BY <3>1 DEF Emits
    <3>3. Recalls(Mine, id) => Gave(turn, id)
      BY <1>1, <1>2 DEF OwnRecalled, Mine
    <3> QED BY <1>2, <1>3, <2>1, <3>2, <3>3
  <2>2. CASE a # turn
    <3>1. Gave(a, id)
      BY <1>1, <1>2, <2>2 DEF OwnRecalled
    <3> QED BY <1>3, <3>1
  <2> QED BY <2>1, <2>2
<1>5. OwnBook' /\ OwnTaker'
  <2> SUFFICES ASSUME NEW s \in Sides, NEW i \in DOMAIN book[s]
               PROVE  book[s][i].trader \in Agents /\ NowGave(book[s][i].trader, book[s][i].id)
    BY <1>2 DEF OwnBook, OwnTaker, Gave, NowGave
  <2> QED BY <1>1, <1>3 DEF OwnBook
<1>6. OwnBatch'
  <2> SUFFICES ASSUME NEW k \in DOMAIN batch' PROVE NowGave(turn, batch'[k].id)
    BY <1>2 DEF OwnBatch, Gave, NowGave
  <2>1. CASE k \in DOMAIN c /\ batch'[k] = c[k] /\ c[k] \in CancelIntents
    <3>1. c[k].id \in OrderIds /\ Recalls(Mine, c[k].id)
      BY <2>1 DEF Emits, CancelIntents
    <3>2. Gave(turn, c[k].id)
      BY <1>1, <1>2, <3>1 DEF OwnRecalled, Mine
    <3> QED BY <1>2, <1>3, <2>1, <3>2
  <2>2. CASE \E i \in DOMAIN d : batch'[k] = d[i]
    BY <1>3, <2>2
  <2> QED BY <2>1, <2>2, HandedOver
<1> QED BY <1>4, <1>5, <1>6 DEF OwnInv

LEMMA EmitsFresh ==
  ASSUME SimTyped, IdsLeft, OwnBook, NEW c, NEW d, NEW m, Emits(c, d, m)
  PROVE  Fresh' /\ Priced'
<1>1. /\ book' = book /\ taker' = NoOrder /\ Lineup' = Lineup /\ turn' = turn + 1
  BY EmitsFacts
<1>2. ASSUME NEW k \in DOMAIN batch', batch'[k].type = "New"
      PROVE  \E i \in DOMAIN d : batch'[k] = d[i] /\ k = Len(c) + i
  <2>1. ~ (batch'[k] \in CancelIntents)
    BY <1>2 DEF CancelIntents
  <2> QED BY <2>1, HandedOver
<1>3. ASSUME NEW i \in DOMAIN d PROVE ~ Live(d[i].id)
  BY EmitsGives DEF Live, OwnBook
<1>4. \A i, j \in DOMAIN d : d[j].id = d[i].id => j = i
  BY EmitsGives
<1>5. Fresh'
  <2> SUFFICES ASSUME NEW k \in DOMAIN batch', batch'[k].type = "New"
               PROVE  /\ ~ Live(batch'[k].id)
                      /\ \A j \in DOMAIN batch' :
                           batch'[j].type = "New" /\ batch'[j].id = batch'[k].id => j = k
    BY <1>1 DEF Fresh, Live
  <2> QED BY <1>2, <1>3, <1>4
<1>6. /\ turn \in Nat /\ turn + 1 - 1 = turn
      /\ memory'[turn].target = memory[turn].target
  BY EmitsFacts DEF Emits, Mine
<1>7. Priced'
  <2> SUFFICES ASSUME NEW k \in DOMAIN batch', batch'[k].type = "New"
               PROVE  OnGrid(batch'[k].price) \/ Strays(turn + 1)
    BY <1>1, <1>6 DEF Priced, Strays
  <2>1. PICK i \in DOMAIN d : batch'[k] = d[i]
    BY <1>2
  <2> QED BY <2>1 DEF Emits
<1> QED BY <1>5, <1>7

LEMMA EmitsKept ==
  ASSUME TypeOK, SimTyped, IdsLeft, OwnBook, KeptBook, NEW c, NEW d, NEW m, Emits(c, d, m)
  PROVE  KeptInv'
<1>1. /\ turn \in Agents /\ turn' - 1 = turn /\ book' = book /\ taker' = NoOrder /\ Lineup' = Lineup
      /\ memory'[turn] = m /\ \A a \in Agents \ {turn} : memory'[a] = memory[a]
      /\ batch = <<>>
  BY EmitsFacts
<1>2. ASSUME NEW s \in Sides, NEW i \in DOMAIN book[s], NEW o, o = book[s][i], o.trader \in Agents
      PROVE  \/ o.trader = turn /\ \E k \in DOMAIN batch' : batch'[k] = CancelIntent(o.id)
             \/ KeptBy(memory'[o.trader], o.trader, o.id, "Gtc")
  <2>1. ~ Leaving(o)
    BY <1>1 DEF Leaving
  <2>2. KeptBy(memory[o.trader], o.trader, o.id, "Gtc")
    BY <1>2, <2>1 DEF KeptBook
  <2>3. CASE o.trader = turn
    <3>1. o.id \in OrderIds
      BY <1>2, OrderTyped DEF Order
    <3>2. KeptBy(m, turn, o.id, "Gtc") \/ \E k \in DOMAIN c : c[k] = CancelIntent(o.id)
      BY <2>2, <2>3, <3>1 DEF Emits, Mine
    <3>3. \A k \in DOMAIN c : k \in DOMAIN batch' /\ batch'[k] = c[k]
      BY HandedOver
    <3> QED BY <1>1, <2>3, <3>2, <3>3
  <2>4. CASE o.trader # turn
    BY <1>1, <1>2, <2>2, <2>4
  <2> QED BY <2>3, <2>4
<1>3. KeptBook'
  BY <1>1, <1>2 DEF KeptBook, Leaving, KeptBy, OwnBook
<1>4. KeptTaker'
  BY <1>1 DEF KeptTaker
<1>5. KeptBatch'
  <2> SUFFICES ASSUME NEW k \in DOMAIN batch', batch'[k].type = "New"
               PROVE  KeptBy(m, turn, batch'[k].id, batch'[k].tif)
    BY <1>1 DEF KeptBatch, KeptBy
  <2>1. ~ (batch'[k] \in CancelIntents)
    BY DEF CancelIntents
  <2>2. PICK i \in DOMAIN d : batch'[k] = d[i]
    BY <2>1, HandedOver
  <2> QED BY <2>2 DEF Emits
<1> QED BY <1>3, <1>4, <1>5 DEF KeptInv

LEMMA EmitsKeeps ==
  ASSUME SimInv, BookInv', NEW c, NEW d, NEW m, Emits(c, d, m)
  PROVE  SimInv'
<1>1. /\ TypeOK /\ SimTyped /\ IdsLeft /\ OwnBook /\ OwnInv /\ KeptBook
      /\ ViewTrue /\ Numbered /\ ArrivalInSequence
  BY DEF SimInv, BookInv, OwnInv, KeptInv
<1>2. /\ Quiescent /\ taker' = NoOrder /\ out' = <<>> /\ book' = book /\ view' = view
      /\ seq' = seq /\ number' = number
  BY <1>1, EmitsFacts
<1>3. SimTyped' /\ IdsLeft' /\ OwnInv' /\ Fresh' /\ Priced' /\ KeptInv'
  BY <1>1, EmitsTyped, EmitsOwn, EmitsFresh, EmitsKept
<1>4. ViewTrue' /\ Talking' /\ Numbered'
  BY <1>1, <1>2 DEF ViewTrue, Talking, Numbered, BestPrice, LiveCount
<1>5. OnlyTheMarketRejects' /\ ArrivalInSequence'
  BY <1>1, <1>2 DEF OnlyTheMarketRejects, ArrivalInSequence
<1> QED BY <1>3, <1>4, <1>5 DEF SimInv

-----------------------------------------------------------------------------
(* What the agents send.                                                   *)

LEMMA GridPrices ==
  /\ MinPrice \in Int /\ MaxPrice \in Int /\ MinPrice <= MaxPrice
  /\ \A p \in MinPrice .. MaxPrice : OnGrid(p) /\ p \in InPrices
  /\ \A p \in Int : OnGrid(p) => p \in MinPrice .. MaxPrice
  /\ \A p \in Int : Clamp(p) \in MinPrice .. MaxPrice
<1>1. /\ MinPrice \in Int /\ TickSize = 1 /\ NumLevels \in Nat /\ NumLevels <= I64Max
      /\ I64Max \in Nat /\ NumLevels > 2
  BY GridAssumption, SimAssumption
<1>2. MaxPrice = MinPrice + (NumLevels - 1)
  BY <1>1 DEF MaxPrice, IdxToPrice
<1>3. ASSUME NEW p \in Int
      PROVE  OnGrid(p) <=> p - MinPrice \in 0 .. NumLevels - 1
  <2> DEFINE off == p - MinPrice
  <2>1. off \in Int /\ off % TickSize = 0 /\ off \div TickSize = off
    BY <1>1
  <2> HIDE DEF off
  <2>2. off \in 0 .. NumLevels - 1 => off \in I64
    BY <1>1, <2>1 DEF I64
  <2>3. CASE off \in 0 .. NumLevels - 1
    <3>1. /\ off \in I64 /\ ~ (off < 0) /\ ~ (off % TickSize # 0) /\ ~ (off \div TickSize >= NumLevels)
      BY <1>1, <2>1, <2>2, <2>3
    <3>2. PriceToIdx(p) = off
      BY <2>1, <3>1 DEF PriceToIdx, off
    <3>3. off # NIL
      BY <2>1, <2>3 DEF NIL
    <3> QED BY <2>3, <3>2, <3>3 DEF OnGrid, off
  <2>4. CASE off \notin 0 .. NumLevels - 1
    <3>1. off < 0 \/ off \div TickSize >= NumLevels
      BY <1>1, <2>1, <2>4
    <3>2. PriceToIdx(p) = NIL
      BY <3>1 DEF PriceToIdx, off
    <3> QED BY <2>4, <3>2 DEF OnGrid, off
  <2> QED BY <2>3, <2>4
<1>4. \A p \in MinPrice .. MaxPrice : OnGrid(p)
  BY <1>1, <1>2, <1>3
<1>5. \A p \in Int : OnGrid(p) => p \in MinPrice .. MaxPrice
  BY <1>1, <1>2, <1>3
<1>6. \A p \in Int : Clamp(p) \in MinPrice .. MaxPrice
  BY <1>1, <1>2 DEF Clamp
<1> QED BY <1>1, <1>2, <1>4, <1>5, <1>6, InputAssumption

(* The touch of a view that is true is no price or one on the grid.        *)
LEMMA TouchOnGrid ==
  ASSUME TypeOK, RestingOrdersSound, ViewTrue, Ready
  PROVE  /\ view.bid # None => view.bid \in MinPrice .. MaxPrice
         /\ view.ask # None => view.ask \in MinPrice .. MaxPrice
<1>1. ASSUME NEW s \in Sides, BestPrice(s) # None PROVE BestPrice(s) \in MinPrice .. MaxPrice
  <2>1. book[s] # <<>> /\ BestPrice(s) = book[s][1].price
    BY <1>1 DEF BestPrice
  <2>2. book[s] \in Seq(Order)
    BY DEF TypeOK
  <2>3. 1 \in DOMAIN book[s]
    BY <2>1, <2>2, EmptySeq, LenProperties
  <2>4. OnGrid(book[s][1].price) /\ book[s][1].price \in Int
    BY <2>3, PricesAreInts DEF RestingOrdersSound
  <2> QED BY <2>1, <2>4, GridPrices
<1>2. view.bid = BestPrice("Bid") /\ view.ask = BestPrice("Ask")
  BY DEF ViewTrue, Ready
<1> QED BY <1>1, <1>2 DEF Sides

LEMMA IntentTyped ==
  ASSUME NEW id \in OrderIds, NEW s \in Sides, NEW p \in InPrices,
         NEW q \in SimQtys \cup ProbeQtys \cup {1}, NEW tif \in Tifs, NEW stp \in Stps
  PROVE  /\ NewIntent(id, s, p, q, tif, stp) \in NewIntents
         /\ NewIntent(id, s, p, q, tif, stp).id = id
         /\ NewIntent(id, s, p, q, tif, stp).price = p
         /\ NewIntent(id, s, p, q, tif, stp).tif = tif
<1>1. q \in InQtys \ {0} /\ tif \in InTifs /\ stp \in InStps
  BY SimAssumption, InputAssumption
<1> QED BY <1>1 DEF NewIntent, NewIntents

LEMMA CancelTyped ==
  \A id \in OrderIds : CancelIntent(id) \in CancelIntents /\ CancelIntent(id).id = id
BY DEF CancelIntent, CancelIntents

LEMMA NothingSaid ==
  /\ <<>> \in Seq(CancelIntents) /\ <<>> \in Seq(NewIntents) /\ Len(<<>>) = 0
  /\ \A d \in Seq(NewIntents) : <<>> \o d = d
  /\ \A c \in Seq(CancelIntents) : c \o <<>> = c
BY ConcatEmptySeq

LEMMA OneIntent ==
  ASSUME NEW S, NEW x \in S
  PROVE  <<x>> \in Seq(S) /\ Len(<<x>>) = 1 /\ DOMAIN <<x>> = {1} /\ <<x>>[1] = x
OBVIOUS

LEMMA AtTurnFacts ==
  ASSUME SimTyped, IdsLeft, NEW kind, AtTurn(kind)
  PROVE  /\ turn \in Agents /\ Ready /\ Lineup[turn + 1] = kind
         /\ IsMemory(Mine) /\ Mine.next \in Nat
         /\ MaxBurst \in Nat \ {0}
         /\ \A k \in 1 .. MaxBurst + 2 : NewId(k) \in OrderIds
<1>1. turn < Len(Lineup) /\ Ready /\ Lineup[turn + 1] = kind
  BY DEF AtTurn
<1>2. turn \in Agents
  BY <1>1, AgentFacts
<1>3. IsMemory(Mine)
  BY <1>2, AgentFacts DEF Mine
<1> QED BY <1>1, <1>2, <1>3, NewIdsAreNew, SimAssumption DEF IsMemory

Speaks == \E c, d, m : Emits(c, d, m)

(* What an agent recalls and keeps depends on these of its memory.         *)
LEMMA SameMemory ==
  ASSUME NEW m, NEW l, m.bid = l.bid, m.ask = l.ask, m.resting = l.resting, m.pending = l.pending
  PROVE  /\ \A id : Recalls(m, id) <=> Recalls(l, id)
         /\ \A a, id, tif : KeptBy(m, a, id, tif) <=> KeptBy(l, a, id, tif)
BY DEF Recalls, KeptBy

(* A silent turn.                                                          *)
LEMMA SilenceEmits ==
  ASSUME SimTyped, IdsLeft, NEW kind, AtTurn(kind), NEW m, IsMemory(m), m.next = Mine.next,
         m.bid = Mine.bid, m.ask = Mine.ask, m.resting = Mine.resting, m.pending = Mine.pending,
         m.target = Mine.target, Emit(<<>>, m)
  PROVE  Speaks
<1>1. turn \in Agents /\ Ready /\ Mine.next \in Nat /\ MaxBurst \in Nat
  BY AtTurnFacts
<1>2. Emits(<<>>, <<>>, m)
  BY <1>1, NothingSaid, SameMemory DEF Emits
<1> QED BY <1>2 DEF Speaks

LEMMA MomentumSpeaks ==
  ASSUME SimInv, MomentumActs
  PROVE  Speaks
<1> DEFINE side == IF view.last > Mine.seen THEN "Bid" ELSE "Ask"
           touch == IF side = "Bid" THEN view.ask ELSE view.bid
           r == IF view.last = None THEN Mine ELSE [Mine EXCEPT !.seen = view.last]
<1>1. TypeOK /\ RestingOrdersSound /\ ViewTrue /\ SimTyped /\ IdsLeft
  BY DEF SimInv, BookInv
<1>2. AtTurn("Momentum")
  BY DEF MomentumActs
<1>3. /\ turn \in Agents /\ Ready /\ Lineup[turn + 1] = "Momentum"
      /\ IsMemory(Mine) /\ Mine.next \in Nat /\ MaxBurst \in Nat \ {0}
      /\ \A k \in 1 .. MaxBurst + 2 : NewId(k) \in OrderIds
  BY <1>1, <1>2, AtTurnFacts
<1>4. /\ IsMemory(r) /\ r.next = Mine.next /\ r.bid = Mine.bid /\ r.ask = Mine.ask
      /\ r.resting = Mine.resting /\ r.pending = Mine.pending /\ r.target = Mine.target
  BY <1>3 DEF IsMemory
<1>5. CASE Emit(<<>>, r)
  <2> HIDE DEF r
  <2> QED BY <1>1, <1>2, <1>4, <1>5, SilenceEmits
<1>6. ASSUME NEW off \in Offsets, NEW q \in SimQtys, touch # None,
             Emit(<<NewIntent(NewId(1), side, IF side = "Bid" THEN touch + off ELSE touch - off,
                              q, "Ioc", "None")>>, [r EXCEPT !.next = @ + 1])
      PROVE  Speaks
  <2> DEFINE p == IF side = "Bid" THEN touch + off ELSE touch - off
             x == NewIntent(NewId(1), side, p, q, "Ioc", "None")
             m == [r EXCEPT !.next = @ + 1]
  <2>1. side \in Sides
    BY DEF Sides
  <2> HIDE DEF side, r
  <2>2. touch \in MinPrice .. MaxPrice
    BY <1>1, <1>3, <1>6, TouchOnGrid
  <2> HIDE DEF touch
  <2>3. p \in InPrices
    BY <2>2, InputAssumption
  <2>4. NewId(1) \in OrderIds
    BY <1>3
  <2>5. x \in NewIntents /\ x.id = NewId(1)
    BY <2>1, <2>3, <2>4, IntentTyped DEF Tifs, Stps
  <2>6. /\ IsMemory(m) /\ m.next = Mine.next + 1 /\ m.bid = Mine.bid /\ m.ask = Mine.ask
        /\ m.resting = Mine.resting /\ m.pending = Mine.pending /\ m.target = Mine.target
    BY <1>3, <1>4 DEF IsMemory
  <2>7. /\ <<x>> \in Seq(NewIntents) /\ Len(<<x>>) = 1 /\ DOMAIN <<x>> = {1} /\ <<x>>[1] = x
        /\ <<>> \o <<x>> = <<x>>
    BY <2>5, OneIntent, NothingSaid
  <2>8. Emit(<<x>>, m)
    BY <1>6
  <2>9. /\ Strays(turn + 1)
        /\ \A l, id, tif : KeptBy(l, turn, id, tif)
    BY <1>3 DEF KeptBy, Strays
  <2> HIDE DEF x, m
  <2>10. Emits(<<>>, <<x>>, m)
    BY <1>3, <2>5, <2>6, <2>7, <2>8, <2>9, NothingSaid, SameMemory DEF Emits
  <2> QED BY <2>10 DEF Speaks
<1> QED BY <1>5, <1>6 DEF MomentumActs

(* A market maker cancels the quotes it has, and no other order.           *)
LEMMA QuoteCancel ==
  ASSUME NEW q \in {None} \cup [id : OrderIds, price : Int],
         NEW u, u = IF q = None THEN <<>> ELSE <<CancelIntent(q.id)>>
  PROVE  /\ u \in Seq(CancelIntents)
         /\ \A k \in DOMAIN u : q # None /\ u[k] = CancelIntent(q.id)
         /\ q # None => 1 \in DOMAIN u /\ u[1] = CancelIntent(q.id)
<1>1. CASE q = None
  BY <1>1, NothingSaid
<1>2. CASE q # None
  <2>1. CancelIntent(q.id) \in CancelIntents
    BY <1>2, CancelTyped
  <2> QED BY <1>2, <2>1, OneIntent
<1> QED BY <1>1, <1>2

LEMMA QuotesCancelled ==
  ASSUME NEW m, IsMemory(m), NEW c, c = CancelQuotes(m)
  PROVE  /\ c \in Seq(CancelIntents)
         /\ \A k \in DOMAIN c : Recalls(m, c[k].id)
         /\ \A id : (m.bid # None /\ m.bid.id = id) \/ (m.ask # None /\ m.ask.id = id)
                      => \E k \in DOMAIN c : c[k] = CancelIntent(id)
<1> DEFINE u == IF m.bid = None THEN <<>> ELSE <<CancelIntent(m.bid.id)>>
           v == IF m.ask = None THEN <<>> ELSE <<CancelIntent(m.ask.id)>>
<1>1. /\ m.bid \in {None} \cup [id : OrderIds, price : Int]
      /\ m.ask \in {None} \cup [id : OrderIds, price : Int]
  BY DEF IsMemory
<1>2. /\ u \in Seq(CancelIntents)
      /\ \A k \in DOMAIN u : m.bid # None /\ u[k] = CancelIntent(m.bid.id)
      /\ m.bid # None => 1 \in DOMAIN u /\ u[1] = CancelIntent(m.bid.id)
  BY <1>1, QuoteCancel
<1>3. /\ v \in Seq(CancelIntents)
      /\ \A k \in DOMAIN v : m.ask # None /\ v[k] = CancelIntent(m.ask.id)
      /\ m.ask # None => 1 \in DOMAIN v /\ v[1] = CancelIntent(m.ask.id)
  BY <1>1, QuoteCancel
<1>4. c = u \o v
  BY DEF CancelQuotes
<1> HIDE DEF u, v
<1>5. /\ c \in Seq(CancelIntents)
      /\ DOMAIN c = 1 .. Len(u) + Len(v)
      /\ Len(u) \in Nat /\ Len(v) \in Nat
      /\ DOMAIN u = 1 .. Len(u) /\ DOMAIN v = 1 .. Len(v)
      /\ \A k \in 1 .. Len(u) + Len(v) : c[k] = IF k <= Len(u) THEN u[k] ELSE v[k - Len(u)]
  BY <1>2, <1>3, <1>4, ConcatFacts
<1>6. ASSUME NEW k \in DOMAIN c PROVE Recalls(m, c[k].id)
  <2>1. CASE k <= Len(u)
    <3>1. k \in DOMAIN u /\ c[k] = u[k]
      BY <1>5, <2>1
    <3>2. m.bid # None /\ c[k].id = m.bid.id
      BY <1>2, <3>1 DEF CancelIntent
    <3> QED BY <3>2 DEF Recalls
  <2>2. CASE ~ (k <= Len(u))
    <3>1. k - Len(u) \in DOMAIN v /\ c[k] = v[k - Len(u)]
      BY <1>5, <2>2
    <3>2. m.ask # None /\ c[k].id = m.ask.id
      BY <1>3, <3>1 DEF CancelIntent
    <3> QED BY <3>2 DEF Recalls
  <2> QED BY <2>1, <2>2
<1>7. ASSUME m.bid # None PROVE \E k \in DOMAIN c : c[k] = CancelIntent(m.bid.id)
  <2>1. 1 \in DOMAIN u /\ u[1] = CancelIntent(m.bid.id)
    BY <1>2, <1>7
  <2>2. 1 \in DOMAIN c /\ c[1] = u[1]
    BY <1>5, <2>1
  <2> QED BY <2>1, <2>2
<1>8. ASSUME m.ask # None PROVE \E k \in DOMAIN c : c[k] = CancelIntent(m.ask.id)
  <2>1. 1 \in DOMAIN v /\ v[1] = CancelIntent(m.ask.id)
    BY <1>3, <1>8
  <2>2. Len(u) + 1 \in DOMAIN c /\ ~ (Len(u) + 1 <= Len(u)) /\ Len(u) + 1 - Len(u) = 1
    BY <1>5, <2>1
  <2>3. c[Len(u) + 1] = v[1]
    BY <1>5, <2>2
  <2> QED BY <2>1, <2>2, <2>3
<1> QED BY <1>5, <1>6, <1>7, <1>8

LEMMA MarketMakerSpeaks ==
  ASSUME SimInv, MarketMakerActs
  PROVE  Speaks
<1> DEFINE bid == Clamp(view.ref - HalfSpread)
           ask == Clamp(view.ref + HalfSpread)
<1>1. SimTyped /\ IdsLeft
  BY DEF SimInv
<1>2. AtTurn("MarketMaker")
  BY DEF MarketMakerActs
<1>3. /\ turn \in Agents /\ Ready /\ Lineup[turn + 1] = "MarketMaker"
      /\ IsMemory(Mine) /\ Mine.next \in Nat /\ MaxBurst \in Nat \ {0}
      /\ \A k \in 1 .. MaxBurst + 2 : NewId(k) \in OrderIds
  BY <1>1, <1>2, AtTurnFacts
<1>4. CASE Emit(<<>>, Mine)
  BY <1>1, <1>2, <1>3, <1>4, SilenceEmits
<1>5. ASSUME NEW q \in SimQtys,
             Emit(CancelQuotes(Mine) \o
                    <<NewIntent(NewId(1), "Bid", bid, q, "Gtc", "CancelResting"),
                      NewIntent(NewId(2), "Ask", ask, q, "Gtc", "CancelResting")>>,
                  [Mine EXCEPT !.next = @ + 2,
                               !.bid = [id |-> NewId(1), price |-> bid],
                               !.ask = [id |-> NewId(2), price |-> ask]])
      PROVE  Speaks
  <2> DEFINE x == NewIntent(NewId(1), "Bid", bid, q, "Gtc", "CancelResting")
             y == NewIntent(NewId(2), "Ask", ask, q, "Gtc", "CancelResting")
             b == [id |-> NewId(1), price |-> bid]
             k == [id |-> NewId(2), price |-> ask]
             m == [Mine EXCEPT !.next = @ + 2, !.bid = b, !.ask = k]
             c == CancelQuotes(Mine)
             d == <<x, y>>
  <2>1. /\ bid \in MinPrice .. MaxPrice /\ ask \in MinPrice .. MaxPrice
        /\ bid \in Int /\ ask \in Int
    <3>1. view.ref - HalfSpread \in Int /\ view.ref + HalfSpread \in Int
      BY <1>1, SimAssumption DEF SimTyped
    <3> QED BY <3>1, GridPrices
  <2> HIDE DEF bid, ask
  <2>2. OnGrid(bid) /\ OnGrid(ask) /\ bid \in InPrices /\ ask \in InPrices
    BY <2>1, GridPrices
  <2>3. NewId(1) \in OrderIds /\ NewId(2) \in OrderIds
    BY <1>3
  <2>4. /\ x \in NewIntents /\ x.id = NewId(1) /\ x.price = bid
        /\ y \in NewIntents /\ y.id = NewId(2) /\ y.price = ask
    BY <2>2, <2>3, IntentTyped DEF Sides, Tifs, Stps
  <2>5. b # None /\ b.id = NewId(1) /\ k # None /\ k.id = NewId(2)
        /\ {b, k} \subseteq [id : OrderIds, price : Int]
    BY <2>1, <2>3, SimAssumption
  <2> HIDE DEF b, k
  <2>6. /\ IsMemory(m) /\ m.next = Mine.next + 2 /\ m.bid = b /\ m.ask = k
        /\ m.resting = Mine.resting /\ m.pending = Mine.pending /\ m.target = Mine.target
    <3>1. Mine = [next |-> Mine.next, bid |-> Mine.bid, ask |-> Mine.ask,
                  resting |-> Mine.resting, pending |-> Mine.pending, seen |-> Mine.seen,
                  target |-> Mine.target]
      BY <1>3 DEF IsMemory
    <3> DEFINE m1 == [Mine EXCEPT !.next = @ + 2]
               m2 == [m1 EXCEPT !.bid = b]
    <3>3. m1 = [next |-> Mine.next + 2, bid |-> Mine.bid, ask |-> Mine.ask,
                resting |-> Mine.resting, pending |-> Mine.pending, seen |-> Mine.seen,
                target |-> Mine.target]
      BY <3>1
    <3> HIDE DEF m1
    <3>4. m2 = [next |-> Mine.next + 2, bid |-> b, ask |-> Mine.ask,
                resting |-> Mine.resting, pending |-> Mine.pending, seen |-> Mine.seen,
                target |-> Mine.target]
      BY <3>3
    <3> HIDE DEF m2
    <3>5. [m2 EXCEPT !.ask = k] = [next |-> Mine.next + 2, bid |-> b, ask |-> k,
                                  resting |-> Mine.resting, pending |-> Mine.pending, seen |-> Mine.seen,
                                  target |-> Mine.target]
      BY <3>4
    <3>2. m = [next |-> Mine.next + 2, bid |-> b, ask |-> k,
               resting |-> Mine.resting, pending |-> Mine.pending, seen |-> Mine.seen,
               target |-> Mine.target]
      BY <3>5 DEF m1, m2
    <3> HIDE DEF m
    <3> QED BY <1>3, <2>5, <3>2 DEF IsMemory
  <2>7. Emit(c \o d, m)
    BY <1>5 DEF b, k
  <2> HIDE DEF x, y, m, c
  <2>8. d \in Seq(NewIntents) /\ Len(d) = 2 /\ DOMAIN d = {1, 2} /\ d[1] = x /\ d[2] = y
    BY <2>4, Pair
  <2> HIDE DEF d
  <2>9. /\ c \in Seq(CancelIntents)
        /\ \A j \in DOMAIN c : Recalls(Mine, c[j].id)
        /\ \A id : (Mine.bid # None /\ Mine.bid.id = id) \/ (Mine.ask # None /\ Mine.ask.id = id)
                      => \E j \in DOMAIN c : c[j] = CancelIntent(id)
    BY <1>3, QuotesCancelled DEF c
  <2>10. ASSUME NEW j \in DOMAIN d
         PROVE  d[j].id = NewId(j) /\ OnGrid(d[j].price) /\ KeptBy(m, turn, d[j].id, d[j].tif)
    BY <1>3, <2>2, <2>4, <2>5, <2>6, <2>8 DEF KeptBy
  <2>11. ASSUME NEW id \in OrderIds, Recalls(m, id)
         PROVE  Recalls(Mine, id) \/ \E j \in DOMAIN d : d[j].id = id
    BY <2>4, <2>5, <2>6, <2>8, <2>11 DEF Recalls
  <2>12. ASSUME NEW id \in OrderIds, KeptBy(Mine, turn, id, "Gtc")
         PROVE  \E j \in DOMAIN c : c[j] = CancelIntent(id)
    BY <1>3, <2>9, <2>12 DEF KeptBy
  <2>13. Len(d) <= MaxBurst + 2
    BY <1>3, <2>8
  <2>14. Emits(c, d, m)
    BY <1>3, <2>6, <2>7, <2>8, <2>9, <2>10, <2>11, <2>12, <2>13 DEF Emits
  <2> QED BY <2>14 DEF Speaks
<1> QED BY <1>4, <1>5 DEF MarketMakerActs

LEMMA AppendEndsWith ==
  ASSUME NEW c \in Seq(CancelIntents), NEW x \in NewIntents
  PROVE  Append(c, x) = c \o <<x>>
<1>1. c \in Seq(Intents) /\ x \in Intents
  BY SeqMonotonic DEF Intents
<1> QED BY <1>1, AppendIsConcat

(* The cancels of a set of at most one order.                              *)
LEMMA OrdersCancelled ==
  ASSUME NEW gone, IsFiniteSet(gone), gone \subseteq OrderIds, Cardinality(gone) <= 1
  PROVE  /\ CancelsOf(gone) \in Seq(CancelIntents)
         /\ \A k \in DOMAIN CancelsOf(gone) : CancelsOf(gone)[k].id \in gone
         /\ \A id \in gone : \E k \in DOMAIN CancelsOf(gone) : CancelsOf(gone)[k] = CancelIntent(id)
<1>1. CASE gone = {}
  <2>1. CancelsOf(gone) = <<>>
    BY <1>1 DEF CancelsOf
  <2>2. CancelsOf(gone) \in Seq(CancelIntents)
    BY <2>1, NothingSaid
  <2>3. DOMAIN CancelsOf(gone) = {}
    BY <2>1
  <2> QED BY <1>1, <2>2, <2>3
<1>2. CASE gone # {}
  <2>1. Cardinality(gone) = 1
    BY <1>2, FS_CardinalityType, FS_EmptySet
  <2>2. PICK g : gone = {g}
    BY <2>1, FS_Singleton
  <2>3. CancelsOf(gone) = <<CancelIntent(g)>> /\ g \in OrderIds
    BY <2>2 DEF CancelsOf
  <2>4. CancelIntent(g) \in CancelIntents /\ CancelIntent(g).id = g
    BY <2>3, CancelTyped
  <2>5. /\ CancelsOf(gone) \in Seq(CancelIntents)
        /\ DOMAIN CancelsOf(gone) = {1} /\ CancelsOf(gone)[1] = CancelIntent(g)
    BY <2>3, <2>4, OneIntent
  <2> QED BY <2>2, <2>4, <2>5
<1> QED BY <1>1, <1>2

LEMMA NoiseSpeaks ==
  ASSUME SimInv, NoiseActs
  PROVE  Speaks
<1>1. SimTyped /\ IdsLeft /\ TypeOK /\ RestingOrdersSound /\ ViewTrue
  BY DEF SimInv, BookInv
<1>2. AtTurn("Noise")
  BY DEF NoiseActs
<1>3. /\ turn \in Agents /\ Ready /\ Lineup[turn + 1] = "Noise"
      /\ IsMemory(Mine) /\ Mine.next \in Nat /\ MaxBurst \in Nat \ {0}
      /\ \A k \in 1 .. MaxBurst + 2 : NewId(k) \in OrderIds
  BY <1>1, <1>2, AtTurnFacts
<1>4. ASSUME NEW gone \in SUBSET Mine.resting, Cardinality(gone) <= 1,
             NEW c, c = CancelsOf(gone)
      PROVE  /\ c \in Seq(CancelIntents)
             /\ \A k \in DOMAIN c : Recalls(Mine, c[k].id)
             /\ \A id \in gone : \E k \in DOMAIN c : c[k] = CancelIntent(id)
  <2>1. IsFiniteSet(gone) /\ gone \subseteq OrderIds
    BY <1>3, FS_Subset DEF IsMemory
  <2>2. /\ c \in Seq(CancelIntents)
        /\ \A k \in DOMAIN c : c[k].id \in gone
        /\ \A id \in gone : \E k \in DOMAIN c : c[k] = CancelIntent(id)
    BY <1>4, <2>1, OrdersCancelled
  <2> QED BY <2>2 DEF Recalls
<1>5. ASSUME NEW gone \in SUBSET Mine.resting, Cardinality(gone) <= 1,
             NEW c, c = CancelsOf(gone),
             Emit(c, [Mine EXCEPT !.resting = @ \ gone])
      PROVE  Speaks
  <2> DEFINE m == [Mine EXCEPT !.resting = @ \ gone]
  <2>1. /\ c \in Seq(CancelIntents)
        /\ \A k \in DOMAIN c : Recalls(Mine, c[k].id)
        /\ \A id \in gone : \E k \in DOMAIN c : c[k] = CancelIntent(id)
    BY <1>4, <1>5
  <2>2. IsFiniteSet(Mine.resting \ gone)
    BY <1>3, FS_Subset DEF IsMemory
  <2>3. /\ IsMemory(m) /\ m.next = Mine.next /\ m.bid = Mine.bid /\ m.ask = Mine.ask
        /\ m.resting = Mine.resting \ gone /\ m.pending = Mine.pending
        /\ m.target = Mine.target
    <3>1. Mine = [next |-> Mine.next, bid |-> Mine.bid, ask |-> Mine.ask,
                  resting |-> Mine.resting, pending |-> Mine.pending, seen |-> Mine.seen,
                  target |-> Mine.target]
      BY <1>3 DEF IsMemory
    <3>2. m = [next |-> Mine.next, bid |-> Mine.bid, ask |-> Mine.ask,
              resting |-> Mine.resting \ gone, pending |-> Mine.pending, seen |-> Mine.seen,
              target |-> Mine.target]
      BY <3>1
    <3> HIDE DEF m
    <3> QED BY <1>3, <2>2, <3>2 DEF IsMemory
  <2>4. Emit(c \o <<>>, m)
    BY <1>5, <2>1, NothingSaid
  <2> HIDE DEF m
  <2>5. ASSUME NEW id \in OrderIds PROVE Recalls(m, id) => Recalls(Mine, id)
    BY <2>3 DEF Recalls
  <2>6. ASSUME NEW id \in OrderIds, KeptBy(Mine, turn, id, "Gtc")
        PROVE  KeptBy(m, turn, id, "Gtc") \/ \E k \in DOMAIN c : c[k] = CancelIntent(id)
    BY <1>3, <2>1, <2>3, <2>6 DEF KeptBy
  <2>7. Emits(c, <<>>, m)
    BY <1>3, <2>1, <2>3, <2>4, <2>5, <2>6, NothingSaid DEF Emits
  <2> QED BY <2>7 DEF Speaks
<1>6. ASSUME NEW gone \in SUBSET Mine.resting, Cardinality(gone) <= 1,
             NEW c, c = CancelsOf(gone),
             NEW p \in MinPrice .. MaxPrice, NEW side \in Sides, NEW tif \in {"Gtc", "Ioc"},
             NEW q \in SimQtys,
             Emit(Append(c, NewIntent(NewId(1), side, p, q, tif, "None")),
                  [Mine EXCEPT !.next = @ + 1,
                               !.resting = (@ \ gone)
                                 \cup (IF tif = "Gtc" THEN {NewId(1)} ELSE {})])
      PROVE  Speaks
  <2> DEFINE more == IF tif = "Gtc" THEN {NewId(1)} ELSE {}
             m == [Mine EXCEPT !.next = @ + 1, !.resting = (@ \ gone) \cup more]
             x == NewIntent(NewId(1), side, p, q, tif, "None")
  <2>1. /\ c \in Seq(CancelIntents)
        /\ \A k \in DOMAIN c : Recalls(Mine, c[k].id)
        /\ \A id \in gone : \E k \in DOMAIN c : c[k] = CancelIntent(id)
    BY <1>4, <1>6
  <2>2. NewId(1) \in OrderIds
    BY <1>3
  <2>3. more \subseteq {NewId(1)} /\ (tif = "Gtc" => NewId(1) \in more) /\ IsFiniteSet(more)
    BY FS_EmptySet, FS_Singleton
  <2> HIDE DEF more
  <2>4. IsFiniteSet((Mine.resting \ gone) \cup more)
    <3>1. IsFiniteSet(Mine.resting \ gone)
      BY <1>3, FS_Subset DEF IsMemory
    <3> QED BY <2>3, <3>1, FS_Union
  <2>5. /\ IsMemory(m) /\ m.next = Mine.next + 1 /\ m.bid = Mine.bid /\ m.ask = Mine.ask
        /\ m.resting = (Mine.resting \ gone) \cup more /\ m.pending = Mine.pending
        /\ m.target = Mine.target
    <3>1. Mine = [next |-> Mine.next, bid |-> Mine.bid, ask |-> Mine.ask,
                  resting |-> Mine.resting, pending |-> Mine.pending, seen |-> Mine.seen,
                  target |-> Mine.target]
      BY <1>3 DEF IsMemory
    <3> DEFINE m1 == [Mine EXCEPT !.next = @ + 1]
    <3>3. m1 = [next |-> Mine.next + 1, bid |-> Mine.bid, ask |-> Mine.ask,
                resting |-> Mine.resting, pending |-> Mine.pending, seen |-> Mine.seen,
                target |-> Mine.target]
      BY <3>1
    <3> HIDE DEF m1
    <3>4. [m1 EXCEPT !.resting = (Mine.resting \ gone) \cup more] = 
            [next |-> Mine.next + 1, bid |-> Mine.bid, ask |-> Mine.ask,
             resting |-> (Mine.resting \ gone) \cup more, pending |-> Mine.pending, seen |-> Mine.seen,
             target |-> Mine.target]
      BY <3>3
    <3>2. m = [next |-> Mine.next + 1, bid |-> Mine.bid, ask |-> Mine.ask,
               resting |-> (Mine.resting \ gone) \cup more, pending |-> Mine.pending, seen |-> Mine.seen,
               target |-> Mine.target]
      BY <3>4 DEF m1
    <3> HIDE DEF m
    <3> QED BY <1>3, <2>2, <2>3, <2>4, <3>2 DEF IsMemory
  <2>6. /\ x \in NewIntents /\ x.id = NewId(1) /\ x.price = p /\ x.tif = tif
        /\ OnGrid(p)
    BY <2>2, GridPrices, IntentTyped DEF Tifs, Stps
  <2>7. Emit(Append(c, x), m)
    BY <1>6 DEF more
  <2> HIDE DEF m, x
  <2>8. /\ <<x>> \in Seq(NewIntents) /\ Len(<<x>>) = 1 /\ DOMAIN <<x>> = {1} /\ <<x>>[1] = x
    BY <2>6, OneIntent
  <2>9. Append(c, x) = c \o <<x>>
    BY <2>1, <2>6, AppendEndsWith
  <2>10. ASSUME NEW id \in OrderIds, Recalls(m, id) PROVE Recalls(Mine, id) \/ id = NewId(1)
    BY <2>3, <2>5, <2>10 DEF Recalls
  <2>11. ASSUME NEW id \in OrderIds, KeptBy(Mine, turn, id, "Gtc")
         PROVE  KeptBy(m, turn, id, "Gtc") \/ \E k \in DOMAIN c : c[k] = CancelIntent(id)
    BY <1>3, <2>1, <2>5, <2>11 DEF KeptBy
  <2>12. KeptBy(m, turn, x.id, x.tif)
    BY <1>3, <2>3, <2>5, <2>6 DEF KeptBy
  <2>13. Emits(c, <<x>>, m)
    BY <1>3, <2>1, <2>5, <2>6, <2>7, <2>8, <2>9, <2>10, <2>11, <2>12 DEF Emits
  <2> QED BY <2>13 DEF Speaks
<1>7. Mid \in Int
  <2>1. view.bid # None => view.bid \in Int
    BY <1>1, <1>3, TouchOnGrid, GridPrices
  <2>2. view.ask # None => view.ask \in Int
    BY <1>1, <1>3, TouchOnGrid, GridPrices
  <2>3. view.ref \in Int
    BY <1>1 DEF SimTyped
  <2> QED BY <2>1, <2>2, <2>3 DEF Mid
<1>8. ASSUME NEW off \in Offsets, NEW side \in Sides
      PROVE  Clamp(IF side = "Bid" THEN Mid - off ELSE Mid + off) \in MinPrice .. MaxPrice
  <2>1. (IF side = "Bid" THEN Mid - off ELSE Mid + off) \in Int
    BY <1>7, SimAssumption
  <2> QED BY <2>1, GridPrices
<1> QED BY <1>5, <1>6, <1>8 DEF NoiseActs

(* An Adversarial cancels what is left from last time, whatever it attacks *)
(* with; of its own orders it recalls those it will cancel next.           *)
LEMMA FlushFacts ==
  ASSUME IsMemory(Mine)
  PROVE  /\ Flush \in Seq(CancelIntents)
         /\ \A k \in DOMAIN Flush : Recalls(Mine, Flush[k].id)
<1>1. /\ Mine.pending \in Seq(OrderIds) /\ DOMAIN Mine.pending = 1 .. Len(Mine.pending)
      /\ Len(Mine.pending) \in Nat
  BY DEF IsMemory
<1>2. \A k \in DOMAIN Mine.pending : Mine.pending[k] \in OrderIds
  BY <1>1, ElementOfSeq
<1>3. /\ Flush = [k \in 1 .. Len(Mine.pending) |-> CancelIntent(Mine.pending[k])]
      /\ \A k \in 1 .. Len(Mine.pending) : /\ CancelIntent(Mine.pending[k]) \in CancelIntents
                                           /\ CancelIntent(Mine.pending[k]).id = Mine.pending[k]
  BY <1>1, <1>2, CancelTyped DEF Flush
<1>4. Flush \in Seq(CancelIntents)
  BY <1>1, <1>3
<1>5. ASSUME NEW k \in DOMAIN Flush PROVE Recalls(Mine, Flush[k].id)
  <2>1. k \in DOMAIN Mine.pending /\ Flush[k].id = Mine.pending[k]
    BY <1>1, <1>3
  <2> QED BY <2>1 DEF Recalls
<1> QED BY <1>4, <1>5

(* An attack: new orders d, of which those in the list p will be cancelled.*)
LEMMA AttackEmits ==
  ASSUME SimTyped, IdsLeft, AtTurn("Adversarial"),
         NEW d \in Seq(NewIntents), Len(d) <= MaxBurst,
         \A k \in DOMAIN d : d[k].id = NewId(k) /\ (OnGrid(d[k].price) \/ Strays(turn + 1)),
         NEW p \in Seq(OrderIds), \A i \in DOMAIN p : \E k \in DOMAIN d : p[i] = d[k].id,
         NEW m, m = [next |-> Mine.next + Len(d), bid |-> Mine.bid, ask |-> Mine.ask,
                     resting |-> Mine.resting, pending |-> p, seen |-> Mine.seen,
                     target |-> Mine.target],
         Emit(Flush \o d, m)
  PROVE  Speaks
<1>1. /\ turn \in Agents /\ Ready /\ Lineup[turn + 1] = "Adversarial"
      /\ IsMemory(Mine) /\ Mine.next \in Nat /\ MaxBurst \in Nat \ {0}
  BY AtTurnFacts
<1>2. Flush \in Seq(CancelIntents) /\ \A k \in DOMAIN Flush : Recalls(Mine, Flush[k].id)
  BY <1>1, FlushFacts
<1>3. Len(d) \in Nat
  BY LenProperties
<1>4. /\ IsMemory(m) /\ m.next = Mine.next + Len(d) /\ m.bid = Mine.bid /\ m.ask = Mine.ask
      /\ m.resting = Mine.resting /\ m.pending = p /\ m.target = Mine.target
  BY <1>1, <1>3 DEF IsMemory
<1>5. ASSUME NEW l, NEW id, NEW tif PROVE KeptBy(l, turn, id, tif)
  BY <1>1 DEF KeptBy
<1>6. ASSUME NEW id \in OrderIds, Recalls(m, id)
      PROVE  Recalls(Mine, id) \/ \E k \in DOMAIN d : d[k].id = id
  BY <1>4, <1>6 DEF Recalls
<1>7. Len(d) <= MaxBurst + 2
  BY <1>1, <1>3
<1>8. Emits(Flush, d, m)
  BY <1>1, <1>2, <1>4, <1>5, <1>6, <1>7 DEF Emits
<1> QED BY <1>8 DEF Speaks

(* A single order, after which its cancel is to follow or not.             *)
LEMMA OneOrderEmits ==
  ASSUME SimTyped, IdsLeft, AtTurn("Adversarial"), NEW s \in Sides, NEW price \in MinPrice .. MaxPrice,
         NEW q \in SimQtys \cup ProbeQtys \cup {1}, NEW tif \in Tifs, NEW stp \in Stps,
         NEW p \in {<<>>, <<NewId(1)>>},
         NEW m, m = [Mine EXCEPT !.next = @ + 1, !.pending = p],
         Emit(Append(Flush, NewIntent(NewId(1), s, price, q, tif, stp)), m)
  PROVE  Speaks
<1> DEFINE x == NewIntent(NewId(1), s, price, q, tif, stp)
<1>1. IsMemory(Mine) /\ MaxBurst \in Nat \ {0} /\ NewId(1) \in OrderIds
  BY AtTurnFacts
<1>2. OnGrid(price) /\ price \in InPrices
  BY GridPrices
<1>3. x \in NewIntents /\ x.id = NewId(1) /\ x.price = price
  BY <1>1, <1>2, IntentTyped
<1>4. Emit(Append(Flush, x), m)
  OBVIOUS
<1> HIDE DEF x
<1>5. <<x>> \in Seq(NewIntents) /\ Len(<<x>>) = 1 /\ DOMAIN <<x>> = {1} /\ <<x>>[1] = x
  BY <1>3, OneIntent
<1>6. Append(Flush, x) = Flush \o <<x>>
  BY <1>1, <1>3, FlushFacts, AppendEndsWith
<1>7. m = [next |-> Mine.next + 1, bid |-> Mine.bid, ask |-> Mine.ask,
           resting |-> Mine.resting, pending |-> p, seen |-> Mine.seen, target |-> Mine.target]
  <2>1. Mine = [next |-> Mine.next, bid |-> Mine.bid, ask |-> Mine.ask,
                resting |-> Mine.resting, pending |-> Mine.pending, seen |-> Mine.seen,
                target |-> Mine.target]
    BY <1>1 DEF IsMemory
  <2> DEFINE m1 == [Mine EXCEPT !.next = @ + 1]
  <2>2. m1 = [next |-> Mine.next + 1, bid |-> Mine.bid, ask |-> Mine.ask,
              resting |-> Mine.resting, pending |-> Mine.pending, seen |-> Mine.seen,
              target |-> Mine.target]
    BY <2>1
  <2> HIDE DEF m1
  <2>3. [m1 EXCEPT !.pending = p] =
          [next |-> Mine.next + 1, bid |-> Mine.bid, ask |-> Mine.ask,
           resting |-> Mine.resting, pending |-> p, seen |-> Mine.seen, target |-> Mine.target]
    BY <2>2
  <2> QED BY <2>3 DEF m1
<1>8. p \in Seq(OrderIds) /\ \A i \in DOMAIN p : p[i] = NewId(1)
  <2>1. CASE p = <<>>
    BY <2>1
  <2>2. CASE p = <<NewId(1)>>
    BY <1>1, <2>2, OneIntent
  <2> QED BY <2>1, <2>2
<1>9. Len(<<x>>) <= MaxBurst
  BY <1>1, <1>5
<1>10. /\ \A k \in DOMAIN <<x>> : <<x>>[k].id = NewId(k) /\ OnGrid(<<x>>[k].price)
       /\ \A i \in DOMAIN p : \E k \in DOMAIN <<x>> : p[i] = <<x>>[k].id
  BY <1>2, <1>3, <1>5, <1>8
<1>11. Emit(Flush \o <<x>>, m) /\ m = [next |-> Mine.next + Len(<<x>>), bid |-> Mine.bid, ask |-> Mine.ask,
           resting |-> Mine.resting, pending |-> p, seen |-> Mine.seen, target |-> Mine.target]
  BY <1>4, <1>5, <1>6, <1>7
<1> DEFINE d == <<x>>
<1>12. /\ d \in Seq(NewIntents) /\ Len(d) <= MaxBurst
       /\ \A k \in DOMAIN d : d[k].id = NewId(k) /\ OnGrid(d[k].price)
       /\ \A i \in DOMAIN p : \E k \in DOMAIN d : p[i] = d[k].id
       /\ Emit(Flush \o d, m)
       /\ m = [next |-> Mine.next + Len(d), bid |-> Mine.bid, ask |-> Mine.ask,
               resting |-> Mine.resting, pending |-> p, seen |-> Mine.seen, target |-> Mine.target]
  BY <1>5, <1>9, <1>10, <1>11
<1> HIDE DEF d
<1> QED BY <1>8, <1>12, AttackEmits

LEMMA HammerSpeaks ==
  ASSUME SimTyped, IdsLeft, AtTurn("Adversarial"), Hammer
  PROVE  Speaks
<1>1. PICK n \in 1 .. MaxBurst, q \in SimQtys, left \in 0 .. MaxBurst :
        \E side \in [1 .. n -> Sides], kept \in [1 .. left -> 1 .. n] :
          /\ \A i \in 2 .. left : kept[i - 1] < kept[i]
          /\ Emit(Flush \o [k \in 1 .. n |->
                            NewIntent(NewId(k), side[k], Mine.target, q, "Gtc", "CancelBoth")],
                  [Mine EXCEPT !.next = @ + n, !.pending = [i \in 1 .. left |-> NewId(kept[i])]])
  BY Zenon DEF Hammer
<1>2. PICK side \in [1 .. n -> Sides], kept \in [1 .. left -> 1 .. n] :
        Emit(Flush \o [k \in 1 .. n |->
                       NewIntent(NewId(k), side[k], Mine.target, q, "Gtc", "CancelBoth")],
             [Mine EXCEPT !.next = @ + n, !.pending = [i \in 1 .. left |-> NewId(kept[i])]])
  BY <1>1
<1> DEFINE d == [k \in 1 .. n |-> NewIntent(NewId(k), side[k], Mine.target, q, "Gtc", "CancelBoth")]
           p == [i \in 1 .. left |-> NewId(kept[i])]
           m == [Mine EXCEPT !.next = @ + n, !.pending = p]
<1>3. /\ turn \in Agents /\ Lineup[turn + 1] = "Adversarial"
      /\ IsMemory(Mine) /\ MaxBurst \in Nat \ {0}
      /\ \A k \in 1 .. MaxBurst + 2 : NewId(k) \in OrderIds
  BY AtTurnFacts
<1>4. n \in Nat /\ left \in Nat
  BY <1>3
<1>5. Mine.target \in InPrices
  BY <1>3 DEF IsMemory
<1>6. OnGrid(Mine.target) \/ Strays(turn + 1)
  <2>1. turn \in Nat /\ turn + 1 - 1 = turn
    BY <1>3, AgentFacts
  <2> QED BY <1>3, <2>1 DEF Strays, Mine
<1>7. ASSUME NEW k \in 1 .. n
      PROVE  /\ d[k] \in NewIntents /\ d[k].id = NewId(k)
             /\ OnGrid(d[k].price) \/ Strays(turn + 1)
  <2>1. NewId(k) \in OrderIds /\ side[k] \in Sides /\ "Gtc" \in Tifs /\ "CancelBoth" \in Stps
    BY <1>3 DEF Tifs, Stps
  <2>2. d[k] = NewIntent(NewId(k), side[k], Mine.target, q, "Gtc", "CancelBoth")
    OBVIOUS
  <2>3. d[k] \in NewIntents /\ d[k].id = NewId(k) /\ d[k].price = Mine.target
    BY <1>5, <2>1, <2>2, IntentTyped
  <2> HIDE DEF d
  <2> QED BY <1>6, <2>3
<1>8. ASSUME NEW i \in 1 .. left PROVE p[i] \in OrderIds /\ \E k \in 1 .. n : p[i] = NewId(k)
  <2>1. kept[i] \in 1 .. n /\ p[i] = NewId(kept[i])
    OBVIOUS
  <2> HIDE DEF p
  <2> QED BY <1>3, <2>1
<1>9. d = [k \in 1 .. n |-> d[k]] /\ p = [i \in 1 .. left |-> p[i]]
  OBVIOUS
<1>10. Emit(Flush \o d, m)
  BY <1>2
<1> HIDE DEF d, p
<1>11. d \in Seq(NewIntents) /\ Len(d) = n /\ DOMAIN d = 1 .. n
  <2>1. d \in [1 .. n -> NewIntents]
    BY <1>7, <1>9
  <2> QED BY <1>4, <2>1
<1>12. p \in Seq(OrderIds) /\ DOMAIN p = 1 .. left
  <2>1. p \in [1 .. left -> OrderIds]
    BY <1>8, <1>9
  <2> QED BY <1>4, <2>1
<1>13. m = [next |-> Mine.next + n, bid |-> Mine.bid, ask |-> Mine.ask,
            resting |-> Mine.resting, pending |-> p, seen |-> Mine.seen, target |-> Mine.target]
  <2>1. Mine = [next |-> Mine.next, bid |-> Mine.bid, ask |-> Mine.ask,
                resting |-> Mine.resting, pending |-> Mine.pending, seen |-> Mine.seen,
                target |-> Mine.target]
    BY <1>3 DEF IsMemory
  <2> DEFINE m1 == [Mine EXCEPT !.next = @ + n]
  <2>2. m1 = [next |-> Mine.next + n, bid |-> Mine.bid, ask |-> Mine.ask,
              resting |-> Mine.resting, pending |-> Mine.pending, seen |-> Mine.seen,
              target |-> Mine.target]
    BY <2>1
  <2> HIDE DEF m1
  <2>3. [m1 EXCEPT !.pending = p] =
          [next |-> Mine.next + n, bid |-> Mine.bid, ask |-> Mine.ask,
           resting |-> Mine.resting, pending |-> p, seen |-> Mine.seen, target |-> Mine.target]
    BY <2>2
  <2> QED BY <2>3 DEF m1
<1> HIDE DEF m
<1>14. /\ \A k \in DOMAIN d : d[k].id = NewId(k) /\ (OnGrid(d[k].price) \/ Strays(turn + 1))
       /\ \A i \in DOMAIN p : \E k \in DOMAIN d : p[i] = d[k].id
       /\ Len(d) <= MaxBurst
  <2>1. ASSUME NEW k \in DOMAIN d PROVE d[k].id = NewId(k) /\ (OnGrid(d[k].price) \/ Strays(turn + 1))
    <3>1. k \in 1 .. n
      BY <1>11
    <3> QED BY <1>7, <3>1
  <2>2. ASSUME NEW i \in DOMAIN p PROVE \E k \in DOMAIN d : p[i] = d[k].id
    <3>1. PICK k \in 1 .. n : p[i] = NewId(k)
      BY <1>8, <1>12
    <3>2. k \in DOMAIN d /\ d[k].id = NewId(k)
      BY <1>7, <1>11
    <3> QED BY <3>1, <3>2
  <2>3. Len(d) <= MaxBurst
    BY <1>3, <1>11
  <2> QED BY <2>1, <2>2, <2>3
<1> QED BY <1>10, <1>11, <1>12, <1>13, <1>14, AttackEmits

LEMMA AdversarialSpeaks ==
  ASSUME SimInv, AdversarialActs
  PROVE  Speaks
<1>1. SimTyped /\ IdsLeft /\ TypeOK /\ RestingOrdersSound /\ ViewTrue
  BY DEF SimInv, BookInv
<1>2. AtTurn("Adversarial")
  BY DEF AdversarialActs
<1>3. IsMemory(Mine) /\ Ready
  BY <1>1, <1>2, AtTurnFacts
<1>4. CASE Hammer
  BY <1>1, <1>2, <1>4, HammerSpeaks
<1>5. CASE ParkAtEdge
  <2>1. PICK side \in Sides :
          Emit(Append(Flush, NewIntent(NewId(1), side, IF side = "Bid" THEN MinPrice ELSE MaxPrice,
                                       1, "Gtc", "None")),
               [Mine EXCEPT !.next = @ + 1, !.pending = <<NewId(1)>>])
    BY <1>5 DEF ParkAtEdge
  <2>2. (IF side = "Bid" THEN MinPrice ELSE MaxPrice) \in MinPrice .. MaxPrice
    <3>1. MinPrice \in Int /\ MaxPrice \in Int /\ MinPrice <= MaxPrice
      BY GridAssumption, SimAssumption DEF MaxPrice, IdxToPrice
    <3> QED BY <3>1
  <2>3. "Gtc" \in Tifs /\ "None" \in Stps /\ <<NewId(1)>> \in {<<>>, <<NewId(1)>>}
    BY DEF Tifs, Stps
  <2> QED BY <1>1, <1>2, <2>1, <2>2, <2>3, OneOrderEmits
<1>6. ASSUME NEW side \in Sides, NEW touch, touch # None => touch \in MinPrice .. MaxPrice,
             NEW qtys, qtys \subseteq SimQtys \cup ProbeQtys, NEW tif \in Tifs, NEW stp \in Stps,
             Probe(side, touch, qtys, tif, stp)
      PROVE  Speaks
  <2>1. CASE Emit(Flush, [Mine EXCEPT !.pending = <<>>])
    <3> DEFINE m == [Mine EXCEPT !.pending = <<>>]
               d == <<>>
               p == <<>>
    <3>1. d \in Seq(NewIntents) /\ Len(d) = 0 /\ DOMAIN d = {} /\ p \in Seq(OrderIds) /\ DOMAIN p = {}
      OBVIOUS
    <3>2. Flush \o d = Flush
      BY <1>3, FlushFacts, NothingSaid
    <3>3. Mine = [next |-> Mine.next, bid |-> Mine.bid, ask |-> Mine.ask,
                  resting |-> Mine.resting, pending |-> Mine.pending, seen |-> Mine.seen,
                  target |-> Mine.target] /\ Mine.next \in Nat
      BY <1>3 DEF IsMemory
    <3>4. m = [next |-> Mine.next + 0, bid |-> Mine.bid, ask |-> Mine.ask,
               resting |-> Mine.resting, pending |-> p, seen |-> Mine.seen, target |-> Mine.target]
      BY <3>3
    <3>5. MaxBurst \in Nat
      BY SimAssumption
    <3>6. Emit(Flush \o d, m)
      BY <2>1, <3>2
    <3> HIDE DEF m, d, p
    <3>7. /\ \A k \in DOMAIN d : d[k].id = NewId(k) /\ (OnGrid(d[k].price) \/ Strays(turn + 1))
          /\ \A i \in DOMAIN p : \E k \in DOMAIN d : p[i] = d[k].id
          /\ Len(d) <= MaxBurst
      BY <3>1, <3>5
    <3> QED BY <1>1, <1>2, <3>1, <3>4, <3>6, <3>7, AttackEmits
  <2>2. ASSUME touch # None, NEW q \in qtys,
               Emit(Append(Flush, NewIntent(NewId(1), side, touch, q, tif, stp)),
                    [Mine EXCEPT !.next = @ + 1, !.pending = <<>>])
        PROVE  Speaks
    <3>1. q \in SimQtys \cup ProbeQtys \cup {1} /\ touch \in MinPrice .. MaxPrice
      BY <1>6, <2>2
    <3>2. <<>> \in {<<>>, <<NewId(1)>>}
      OBVIOUS
    <3> QED BY <1>1, <1>2, <2>2, <3>1, <3>2, OneOrderEmits
  <2> QED BY <1>6, <2>1, <2>2 DEF Probe
<1>7. CASE Probe("Bid", view.ask, SimQtys, "Ioc", "CancelResting")
  <2>1. view.ask # None => view.ask \in MinPrice .. MaxPrice
    BY <1>1, <1>3, TouchOnGrid
  <2>2. "Bid" \in Sides /\ "Ioc" \in Tifs /\ "CancelResting" \in Stps
    BY DEF Sides, Tifs, Stps
  <2> QED BY <1>6, <1>7, <2>1, <2>2
<1>8. CASE Probe("Ask", view.bid, ProbeQtys, "Fok", "None")
  <2>1. view.bid # None => view.bid \in MinPrice .. MaxPrice
    BY <1>1, <1>3, TouchOnGrid
  <2>2. "Ask" \in Sides /\ "Fok" \in Tifs /\ "None" \in Stps
    BY DEF Sides, Tifs, Stps
  <2> QED BY <1>6, <1>8, <2>1, <2>2
<1> QED BY <1>4, <1>5, <1>7, <1>8 DEF AdversarialActs

LEMMA AgentsKeep == ASSUME SimInv, BookInv', AgentActs PROVE SimInv'
<1>1. Speaks
  BY MarketMakerSpeaks, MomentumSpeaks, NoiseSpeaks, AdversarialSpeaks DEF AgentActs
<1> QED BY <1>1, EmitsKeeps DEF Speaks

-----------------------------------------------------------------------------
(* The invariant, and what follows from it.                                *)

LEMMA SimInitKeeps == SimInit => SimInv
<1> SUFFICES ASSUME SimInit PROVE SimInv
  OBVIOUS
<1>1. /\ Init /\ config \in Configs /\ turn = Len(Lineup) /\ batch = <<>> /\ seq = 0
      /\ number = [id \in OrderIds |-> 0]
      /\ view = [bid |-> None, ask |-> None, ref |-> Middle, last |-> None, live |-> 0]
  BY DEF SimInit
<1>2. book = [s \in Sides |-> <<>>] /\ taker = NoOrder /\ out = <<>>
  BY <1>1 DEF Init
<1>3. \A s \in Sides : book[s] = <<>> /\ DOMAIN book[s] = {}
  BY <1>2
<1>4. BookInv
  <2>1. TypeOK /\ UniqueIds
    BY <1>1, InitTyped, InitUnique
  <2>2. PriceSorted /\ NeverCrossed /\ RestingOrdersSound /\ TakerSound
    BY <1>2, <1>3 DEF PriceSorted, NeverCrossed, RestingOrdersSound, TakerSound, Sides
  <2> QED BY <2>1, <2>2 DEF BookInv
<1>5. Lineup \in Seq(Kinds) /\ Len(Lineup) \in Nat
  <2>1. config \in [agents : Seq(Kinds), events : Nat]
    BY <1>1, SimAssumption
  <2> QED BY <2>1, LenProperties DEF Lineup
<1>6. Middle \in InPrices /\ Middle \in Int
  <2>1. Middle \in Int /\ Middle \in MinPrice .. MaxPrice
    BY GridAssumption, SimAssumption DEF Middle, MaxPrice, IdxToPrice
  <2> QED BY <2>1, InputAssumption
<1>7. PICK draw \in [Agents -> TargetDraws] :
        memory = [a \in Agents |->
                    [next |-> 0, bid |-> None, ask |-> None, resting |-> {}, pending |-> <<>>,
                     seen |-> None,
                     target |-> IF Lineup[a + 1] = "Adversarial" THEN Middle + draw[a]
                                ELSE Middle]]
  BY Zenon DEF SimInit
<1>8. memory = [a \in Agents |-> memory[a]]
  BY <1>7
<1>9. ASSUME NEW a \in Agents
      PROVE  /\ memory[a].next = 0 /\ memory[a].bid = None /\ memory[a].ask = None
             /\ memory[a].resting = {} /\ memory[a].pending = <<>> /\ IsMemory(memory[a])
  <2> DEFINE g == IF Lineup[a + 1] = "Adversarial" THEN Middle + draw[a] ELSE Middle
  <2>1. memory[a] = [next |-> 0, bid |-> None, ask |-> None, resting |-> {}, pending |-> <<>>,
                     seen |-> None, target |-> g]
    BY <1>7
  <2>2. draw[a] \in TargetDraws
    OBVIOUS
  <2>3. g \in InPrices
    BY <1>6, <2>2, InputAssumption
  <2> HIDE DEF g
  <2>4. IsFiniteSet({}) /\ <<>> \in Seq(OrderIds)
    BY FS_EmptySet
  <2> QED BY <2>1, <2>3, <2>4 DEF IsMemory
<1>10. SimTyped
  BY <1>1, <1>5, <1>6, <1>8, <1>9 DEF SimTyped
<1>11. IdsLeft
  <2>1. config.events \in Nat /\ MaxBurst \in Nat
    BY <1>10, AgentFacts, SimAssumption
  <2>2. \A a \in Agents : a \in Nat /\ a < Len(Lineup)
    BY <1>5 DEF Agents
  <2>3. Len(batch) = 0
    BY <1>1
  <2> QED BY <1>1, <1>5, <1>9, <2>1, <2>2, <2>3 DEF IdsLeft
<1>12. OwnInv
  <2>1. OwnRecalled
    BY <1>9 DEF OwnRecalled, Recalls
  <2> QED BY <1>1, <1>2, <1>3, <2>1 DEF OwnInv, OwnBook, OwnTaker, OwnBatch
<1>13. Fresh /\ Priced /\ Talking /\ Numbered /\ KeptInv
  BY <1>1, <1>2, <1>3 DEF Fresh, Priced, Talking, Numbered, KeptInv, KeptBook, KeptTaker, KeptBatch
<1>14. ViewTrue
  <2>1. BestPrice("Bid") = None /\ BestPrice("Ask") = None /\ LiveCount = 0
    BY <1>2 DEF BestPrice, LiveCount, Sides
  <2> QED BY <1>1, <2>1 DEF ViewTrue
<1>15. OnlyTheMarketRejects /\ ArrivalInSequence
  BY <1>2, <1>3 DEF OnlyTheMarketRejects, ArrivalInSequence
<1> QED BY <1>4, <1>10, <1>11, <1>12, <1>13, <1>14, <1>15 DEF SimInv

LEMMA NothingKeeps == ASSUME SimInv, BookInv', UNCHANGED simVars PROVE SimInv'
<1>1. /\ book' = book /\ taker' = taker /\ out' = out /\ config' = config /\ memory' = memory
      /\ view' = view /\ turn' = turn /\ batch' = batch /\ seq' = seq /\ number' = number
  BY DEF simVars, engine
<1>2. /\ SimTyped /\ IdsLeft /\ OwnRecalled /\ OwnBook /\ OwnTaker /\ OwnBatch
      /\ Fresh /\ Priced /\ ViewTrue /\ Talking /\ Numbered /\ KeptBook /\ KeptTaker /\ KeptBatch
      /\ OnlyTheMarketRejects /\ ArrivalInSequence
  BY DEF SimInv, OwnInv, KeptInv
<1>3. (SimTyped /\ IdsLeft /\ OwnRecalled /\ OwnBatch /\ Priced /\ KeptBatch)'
  <2>1. Still
    BY <1>1 DEF Still
  <2> QED BY <1>2, <2>1, StillTyped
<1>4. Agents' = Agents /\ Lineup' = Lineup /\ \A b, id : Gave(b, id)' <=> Gave(b, id)
  BY <1>1 DEF Agents, Lineup, Gave
<1>5. (OwnBook /\ OwnTaker /\ Fresh)'
  BY <1>1, <1>2, <1>4 DEF OwnBook, OwnTaker, Fresh, Live
<1>6. (ViewTrue /\ Talking /\ Numbered /\ ArrivalInSequence)'
  BY <1>1, <1>2 DEF ViewTrue, Quiescent, BestPrice, LiveCount, Talking, Numbered, ArrivalInSequence
<1>7. (KeptBook /\ KeptTaker)'
  BY <1>1, <1>2, <1>4 DEF KeptBook, KeptTaker, KeptBy, Leaving
<1>8. OnlyTheMarketRejects'
  BY <1>1, <1>2, <1>4 DEF OnlyTheMarketRejects, Strays
<1> QED BY <1>3, <1>5, <1>6, <1>7, <1>8 DEF SimInv, OwnInv, KeptInv

LEMMA SimStep == SimInv /\ [SimNext]_simVars => SimInv'
<1> SUFFICES ASSUME SimInv, [SimNext]_simVars PROVE SimInv'
  OBVIOUS
<1>1. BookInv'
  BY SimIsNext, BookStep DEF SimInv
<1>2. CASE StartTick
  BY <1>1, <1>2, StartKeeps
<1>3. CASE AgentActs
  BY <1>1, <1>3, AgentsKeep
<1>4. CASE Submit
  BY <1>1, <1>4, SubmitIs, SubmitNewKeeps, SubmitCancelKeeps DEF SimInv
<1>5. CASE EngineSteps
  BY <1>1, <1>5, EngineKeeps
<1>6. CASE Publish
  BY <1>1, <1>6, PublishKeeps
<1>7. CASE UNCHANGED simVars
  BY <1>1, <1>7, NothingKeeps
<1> QED BY <1>2, <1>3, <1>4, <1>5, <1>6, <1>7 DEF SimNext, TickSteps, AgentActs

LEMMA SimIsInvariant == SimSpec => []SimInv
BY SimInitKeeps, SimStep, PTL DEF SimSpec

(* No agent loses track of what it has on the book: whatever the engine    *)
(* made of earlier orders, an order of a market maker that rests is one of *)
(* its quotes and one of a noise trader is on its list, or else its cancel *)
(* is among the intents still to be applied (market_maker.rs, noise.rs).   *)
THEOREM NoOrderIsForgotten == SimSpec => []AgentsTrackTheirOrders
<1>1. SimInv => AgentsTrackTheirOrders
  BY DEF SimInv, KeptInv, KeptBook, KeptBy, Leaving, AgentsTrackTheirOrders
<1> QED BY <1>1, SimIsInvariant, PTL

(* Agents give out ids that never meet: the runner's inputs are rejected   *)
(* only for the state of the market or a price off the grid of an agent    *)
(* that may name one (IdGen in agent.rs).                                  *)
THEOREM IdsNeverMeet == SimSpec => []OnlyTheMarketRejects
<1>1. SimInv => OnlyTheMarketRejects
  BY DEF SimInv
<1> QED BY <1>1, SimIsInvariant, PTL

(* Agents never act on a stale view, nor is a crossed spread sampled       *)
(* (the refresh after every input, runner.rs).                             *)
THEOREM ViewIsNeverStale == SimSpec => []ViewIsTheBook
<1>1. SimInv => ViewIsTheBook
  <2> SUFFICES ASSUME SimInv, Ready PROVE /\ view.bid = BestPrice("Bid")
                                          /\ view.ask = BestPrice("Ask")
                                          /\ view.live = LiveCount
                                          /\ view.bid # None /\ view.ask # None => view.bid < view.ask
    BY DEF ViewIsTheBook
  <2>1. view.bid = BestPrice("Bid") /\ view.ask = BestPrice("Ask") /\ view.live = LiveCount
    BY DEF SimInv, ViewTrue, Ready
  <2>2. TypeOK /\ NeverCrossed
    BY DEF SimInv, BookInv
  <2>3. ASSUME BestPrice("Bid") # None, BestPrice("Ask") # None
        PROVE  BestPrice("Bid") < BestPrice("Ask")
    <3>1. book["Bid"] # <<>> /\ book["Ask"] # <<>>
      BY <2>3 DEF BestPrice
    <3>2. BestPrice("Bid") = book["Bid"][1].price /\ BestPrice("Ask") = book["Ask"][1].price
      BY <3>1 DEF BestPrice
    <3>3. book["Bid"] \in Seq(Order) /\ book["Ask"] \in Seq(Order)
      BY <2>2 DEF TypeOK, Sides
    <3>4. 1 \in DOMAIN book["Bid"] /\ 1 \in DOMAIN book["Ask"]
      BY <3>1, <3>3, EmptySeq, LenProperties
    <3> QED BY <2>2, <3>2, <3>4 DEF NeverCrossed
  <2> QED BY <2>1, <2>3
<1> QED BY <1>1, SimIsInvariant, PTL

(* Orders at one price stand in the order of their sequence numbers, by    *)
(* which the oracle sorts them (Sim::tick, runner.rs).                     *)
THEOREM SequenceIsArrival == SimSpec => []ArrivalInSequence
<1>1. SimInv => ArrivalInSequence
  BY DEF SimInv
<1> QED BY <1>1, SimIsInvariant, PTL

=============================================================================
