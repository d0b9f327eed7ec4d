------------------------------ MODULE Simulation ------------------------------
(***************************************************************************)
(* The simulator, src/crates/sim/src: a runner and its agents, closed into *)
(* a loop with the engine.  In a tick the reference price moves and every  *)
(* agent acts once, in a fixed order: it looks at the view, remembers what *)
(* it is going to have sent and hands over a batch of intents; the runner  *)
(* numbers each, applies it and brings the view up to date before the next.*)
(*                                                                         *)
(* The engine is the oracle it implements (OrderBook.tla).  Whatever comes *)
(* from the random stream or from the floats of the reference price is a   *)
(* free choice from a small set.  Statistics are left out.  No agent emits *)
(* a Modify.                                                               *)
(***************************************************************************)
EXTENDS ReferenceBook

CONSTANTS Configs,      \* SimConfig: kinds of agents, in order, and events to reach
          IdSpace,      \* ids of one agent, 2^40 in the code
          HalfSpread,   \* MarketMaker::half_spread and Tolerance: drawn for each
          Tolerance,    \* agent in the code, fixed for all here
          TargetDraws,  \* Adversarial::target_level less the middle, -4 .. 4
          Offsets,      \* distances from the mid, or beyond the touch
          SimQtys,      \* quantities of orders
          ProbeQtys,    \* quantities of fill-or-kill probes
          MaxBurst,     \* bound: orders of a burst, 8 in the code
          None          \* no price, no quote

Kinds == {"MarketMaker", "Momentum", "Noise", "Adversarial"}

VARIABLES
  config,    \* Sim::sc
  memory,    \* what each agent remembers
  view,      \* BookView
  turn,      \* agents that have acted in this tick
  batch,     \* intents of the last of them that are still to be applied
  seq,       \* Sim::seq
  number     \* history: the number with which each order was entered

engine == <<book, taker, out>>
simVars == <<engine, config, memory, view, turn, batch, seq, number>>

(* The kinds of the agents by position, which is also their trader id.     *)
Lineup == config.agents
Agents == 0 .. Len(Lineup) - 1

(* Mutant: every agent counts from the same base.                          *)
IdOfMut(a, n) == IdSpace + n
(* IdGen: base | next, the base of agent a being (a + 1) << 40.            *)
IdOf(a, n) == (a + 1) * IdSpace + n

MaxPrice == IdxToPrice(NumLevels - 1)
Middle == MinPrice + (MaxPrice - MinPrice) \div 2
RefPrices == MinPrice + 1 .. MaxPrice - 1
Clamp(p) == IF p < MinPrice THEN MinPrice ELSE IF p > MaxPrice THEN MaxPrice ELSE p

(* The reference price keeps clear of both ends of the grid, and clamped   *)
(* prices are on the grid only for a tick of one.  No draw is of zero lots.*)
ASSUME SimAssumption == /\ Configs \subseteq [agents : Seq(Kinds), events : Nat]
                        /\ NumLevels > 2 /\ TickSize = 1
                        /\ HalfSpread \in Nat \ {0} /\ Tolerance \in Nat
                        /\ Offsets \subseteq Nat /\ MaxBurst \in Nat \ {0}
                        /\ SimQtys \cup ProbeQtys \subseteq Nat \ {0}
                        /\ None \notin Int \cup [id : OrderIds, price : Int]

(* No agent uses up its 2^40 ids before a run ends.                        *)
ASSUME IdAssumption == /\ IdSpace \in Nat
                       /\ \A c \in Configs : c.events + MaxBurst + 2 <= IdSpace

(* The oracle's inputs include what agents send.  A chase and a target are *)
(* not clamped: the grid lies far enough from the ends of I64.             *)
ASSUME InputAssumption ==
  /\ \A c \in Configs : \A a \in 0 .. Len(c.agents) - 1 :
       a \in TraderIds /\ \A n \in 1 .. IdSpace - 1 : IdOf(a, n) \in OrderIds
  /\ \A p \in MinPrice .. MaxPrice : p \in InPrices /\ \A off \in Offsets : {p - off, p + off} \subseteq InPrices
  /\ \A draw \in TargetDraws : Middle + draw \in InPrices
  /\ SimQtys \cup ProbeQtys \cup {1} \subseteq InQtys
  /\ Tifs \subseteq InTifs /\ Stps \subseteq InStps

SimInit ==
  /\ Init
  /\ config \in Configs
  /\ \E draw \in [Agents -> TargetDraws] :
       memory = [a \in Agents |->
                   [next |-> 0, bid |-> None, ask |-> None, resting |-> {}, pending |-> <<>>,
                    seen |-> None,
                    target |-> IF Lineup[a + 1] = "Adversarial" THEN Middle + draw[a]
                               ELSE Middle]]
  /\ view = [bid |-> None, ask |-> None, ref |-> Middle, last |-> None, live |-> 0]
  /\ turn = Len(Lineup)
  /\ batch = <<>>
  /\ seq = 0
  /\ number = [id \in OrderIds |-> 0]

-----------------------------------------------------------------------------
(* Intents.                                                                *)

NewIntent(id, side, price, qty, tif, stp) ==
  [type |-> "New", id |-> id, side |-> side, price |-> price, qty |-> qty,
   tif |-> tif, stp |-> stp]
CancelIntent(id) == [type |-> "Cancel", id |-> id]

(* The agent whose turn it is, once all is done that was asked for before. *)
Ready == batch = <<>> /\ Quiescent
AtTurn(kind) == Ready /\ turn < Len(Lineup) /\ Lineup[turn + 1] = kind
Mine == memory[turn]
NewId(k) == IdOf(turn, Mine.next + k)

(* Mutant: an agent with nothing to say keeps its turn.                    *)
EmitMut(intents, remembered) ==
  /\ batch' = intents
  /\ memory' = [memory EXCEPT ![turn] = remembered]
  /\ turn' = IF intents = <<>> THEN turn ELSE turn + 1
  /\ UNCHANGED <<engine, config, view, seq, number>>
Emit(intents, remembered) ==
  /\ batch' = intents
  /\ memory' = [memory EXCEPT ![turn] = remembered]
  /\ turn' = turn + 1
  /\ UNCHANGED <<engine, config, view, seq, number>>

-----------------------------------------------------------------------------
(* MarketMaker: cancel and replace both quotes when one has drifted.       *)

Drifted(quote, want) ==
  quote # None => quote.price \notin want - Tolerance .. want + Tolerance

(* Mutant: the ask is forgotten without being cancelled.                   *)
CancelQuotesMut(m) == IF m.bid = None THEN <<>> ELSE <<CancelIntent(m.bid.id)>>
CancelQuotes(m) == (IF m.bid = None THEN <<>> ELSE <<CancelIntent(m.bid.id)>>)
                     \o (IF m.ask = None THEN <<>> ELSE <<CancelIntent(m.ask.id)>>)

MarketMakerActs ==
  LET bid == Clamp(view.ref - HalfSpread)
      ask == Clamp(view.ref + HalfSpread)
      requote == bid < ask /\ (Drifted(Mine.bid, bid) \/ Drifted(Mine.ask, ask))
  IN  /\ AtTurn("MarketMaker")
      /\ \/ /\ ~ requote
            /\ Emit(<<>>, Mine)
         \/ /\ requote
            /\ \E q \in SimQtys :
                 Emit(CancelQuotes(Mine) \o
                        <<NewIntent(NewId(1), "Bid", bid, q, "Gtc", "CancelResting"),
                          NewIntent(NewId(2), "Ask", ask, q, "Gtc", "CancelResting")>>,
                      [Mine EXCEPT !.next = @ + 2,
                                   !.bid = [id |-> NewId(1), price |-> bid],
                                   !.ask = [id |-> NewId(2), price |-> ask]])

-----------------------------------------------------------------------------
(* Momentum: after two different trades, an order across the touch in the  *)
(* direction of the move.  The limit is not clamped.                       *)

MomentumActs ==
  LET side == IF view.last > Mine.seen THEN "Bid" ELSE "Ask"
      touch == IF side = "Bid" THEN view.ask ELSE view.bid
      remembered == IF view.last = None THEN Mine ELSE [Mine EXCEPT !.seen = view.last]
      moved == view.last # None /\ Mine.seen # None /\ view.last # Mine.seen
  IN  /\ AtTurn("Momentum")
      /\ \/ Emit(<<>>, remembered)
         \/ /\ moved
            /\ touch # None
            /\ \E off \in Offsets, q \in SimQtys :
                 Emit(<<NewIntent(NewId(1), side,
                                  IF side = "Bid" THEN touch + off ELSE touch - off,
                                  q, "Ioc", "None")>>,
                      [remembered EXCEPT !.next = @ + 1])

-----------------------------------------------------------------------------
(* Noise: perhaps the cancel of an order it believes to rest, then perhaps *)
(* an order around the mid.                                                *)

Mid == IF view.bid # None /\ view.ask # None
       THEN (view.bid + view.ask) \div 2 ELSE view.ref

CancelsOf(gone) == IF gone = {} THEN <<>> ELSE <<CancelIntent(CHOOSE id \in gone : TRUE)>>

NoiseActs ==
  /\ AtTurn("Noise")
  /\ \E gone \in SUBSET Mine.resting :
       /\ Cardinality(gone) <= 1
       /\ \/ Emit(CancelsOf(gone), [Mine EXCEPT !.resting = @ \ gone])
          \/ \E off \in Offsets, side \in Sides, tif \in {"Gtc", "Ioc"}, q \in SimQtys :
               Emit(Append(CancelsOf(gone),
                           NewIntent(NewId(1), side,
                                     Clamp(IF side = "Bid" THEN Mid - off ELSE Mid + off),
                                     q, tif, "None")),
                    [Mine EXCEPT !.next = @ + 1,
                                 !.resting = (@ \ gone)
                                   \cup (IF tif = "Gtc" THEN {NewId(1)} ELSE {})])

-----------------------------------------------------------------------------
(* Adversarial: the cancels left from last time, then one of four attacks. *)

Flush == [k \in DOMAIN Mine.pending |-> CancelIntent(Mine.pending[k])]

(* The level an Adversarial hammers was drawn about the middle when it was *)
(* made, and is not clamped: on a narrow grid it may be no level at all.   *)
Hammer ==
  \E n \in 1 .. MaxBurst, q \in SimQtys, left \in 0 .. MaxBurst :
    \E side \in [1 .. n -> Sides], kept \in [1 .. left -> 1 .. n] :
      /\ \A i \in 2 .. left : kept[i - 1] < kept[i]
      /\ Emit(Flush \o [k \in 1 .. n |->
                        NewIntent(NewId(k), side[k], Mine.target, q, "Gtc", "CancelBoth")],
              [Mine EXCEPT !.next = @ + n,
                           !.pending = [i \in 1 .. left |-> NewId(kept[i])]])

ParkAtEdge ==
  \E side \in Sides :
    Emit(Append(Flush, NewIntent(NewId(1), side, IF side = "Bid" THEN MinPrice ELSE MaxPrice,
                                 1, "Gtc", "None")),
         [Mine EXCEPT !.next = @ + 1, !.pending = <<NewId(1)>>])

Probe(side, touch, qtys, tif, stp) ==
  \/ /\ touch = None
     /\ Emit(Flush, [Mine EXCEPT !.pending = <<>>])
  \/ /\ touch # None
     /\ \E q \in qtys :
          Emit(Append(Flush, NewIntent(NewId(1), side, touch, q, tif, stp)),
               [Mine EXCEPT !.next = @ + 1, !.pending = <<>>])

AdversarialActs ==
  /\ AtTurn("Adversarial")
  /\ \/ Hammer
     \/ ParkAtEdge
     \/ Probe("Bid", view.ask, SimQtys, "Ioc", "CancelResting")
     \/ Probe("Ask", view.bid, ProbeQtys, "Fok", "None")

-----------------------------------------------------------------------------
(* The runner: whole ticks until the log is long enough.                   *)

StartTick == /\ Ready
             /\ turn = Len(Lineup)
             /\ seq < config.events
             /\ turn' = 0
             /\ \E p \in RefPrices : view' = [view EXCEPT !.ref = p]
             /\ UNCHANGED <<engine, config, memory, batch, seq, number>>

(* Mutant: the counter is not advanced.                                    *)
NextSeqMut == seq
NextSeq == seq + 1

Submit ==
  /\ batch # <<>>
  /\ LET x == Head(batch)
     IN  \/ /\ x.type = "New"
            /\ ApplyNew(x.id, turn - 1, x.side, x.price, x.qty, x.tif, x.stp)
            /\ number' = [number EXCEPT ![x.id] = NextSeq]
         \/ /\ x.type = "Cancel"
            /\ ApplyCancel(x.id, turn - 1)
            /\ UNCHANGED number
  /\ seq' = NextSeq
  /\ batch' = Tail(batch)
  /\ UNCHANGED <<config, memory, view, turn>>

EngineSteps == Proceed /\ UNCHANGED <<config, memory, view, turn, batch, seq, number>>

BestPrice(s) == IF book[s] = <<>> THEN None ELSE book[s][1].price

(* Mutant: the view follows the trades only.                               *)
PublishMut ==
  LET fills == SelectSeq(out, LAMBDA e : e.ev = "Fill")
  IN  /\ Drain
      /\ view' = IF fills = <<>> THEN view
                 ELSE [view EXCEPT !.bid = BestPrice("Bid"), !.ask = BestPrice("Ask"),
                                   !.live = LiveCount, !.last = Last(fills).price]
      /\ UNCHANGED <<config, memory, turn, batch, seq, number>>
(* The outputs are read and the view is brought up to date.                *)
Publish ==
  LET fills == SelectSeq(out, LAMBDA e : e.ev = "Fill")
  IN  /\ Drain
      /\ view' = [view EXCEPT !.bid = BestPrice("Bid"), !.ask = BestPrice("Ask"),
                              !.live = LiveCount,
                              !.last = IF fills = <<>> THEN @ ELSE Last(fills).price]
      /\ UNCHANGED <<config, memory, turn, batch, seq, number>>

TickSteps == \/ MarketMakerActs
             \/ MomentumActs
             \/ NoiseActs
             \/ AdversarialActs
             \/ Submit
             \/ EngineSteps
             \/ Publish

SimNext == StartTick \/ TickSteps

(* tick() is one call on one thread.                                       *)
SimSpec == SimInit /\ [][SimNext]_simVars /\ WF_simVars(TickSteps)

-----------------------------------------------------------------------------
(* Properties.                                                             *)

(* What an agent does not clean up it still knows of: an order of a market *)
(* maker that rests is one of its two quotes, one of a noise trader is on  *)
(* its list, or its cancel is on the way.  Agents learn nothing of what    *)
(* becomes of their orders, so they must keep books on what they sent.     *)
AgentsTrackTheirOrders ==
  \A s \in Sides : \A i \in DOMAIN book[s] :
    LET o == book[s][i]
        m == memory[o.trader]
        leaving == o.trader = turn - 1 /\ \E k \in DOMAIN batch : batch[k] = CancelIntent(o.id)
    IN  /\ Lineup[o.trader + 1] = "MarketMaker" =>
             \/ leaving
             \/ m.bid # None /\ m.bid.id = o.id
             \/ m.ask # None /\ m.ask.id = o.id
        /\ Lineup[o.trader + 1] = "Noise" => leaving \/ o.id \in m.resting

(* Who may name a price off the grid, by position: one that chases the     *)
(* touch, and one whose target was drawn beyond an end of the grid.        *)
Strays(n) == \/ Lineup[n] = "Momentum"
             \/ Lineup[n] = "Adversarial" /\ ~ OnGrid(memory[n - 1].target)

(* The ids that agents count up on their own never meet, so that no order  *)
(* of theirs is a duplicate, no cancel hits another's order and nothing is *)
(* malformed.  What is turned away is an order that is gone, a fill-or-kill*)
(* that cannot fill, an order for a full book; or a price off the grid, and*)
(* that only of an agent that has reason to name one.                      *)
OnlyTheMarketRejects ==
  \A k \in DOMAIN out : out[k].ev = "Rejected" =>
    \/ out[k].reason \in {"UnknownOrderId", "FokUnfillable", "ArenaFull"}
    \/ out[k].reason = "PriceOutOfBounds" /\ Strays(turn)

(* Whenever an agent acts the view is the book's, though it changes only   *)
(* with an applied intent and the order books change in between; and the   *)
(* spread the runner samples is positive, before it is cast to unsigned.   *)
ViewIsTheBook ==
  Ready => /\ view.bid = BestPrice("Bid")
           /\ view.ask = BestPrice("Ask")
           /\ view.live = LiveCount
           /\ view.bid # None /\ view.ask # None => view.bid < view.ask

(* The oracle sorts a price by sequence number, the engine by arrival: as  *)
(* the runner numbers inputs, the two are the same.                        *)
ArrivalInSequence ==
  \A s \in Sides : \A i, j \in DOMAIN book[s] :
    (i < j /\ book[s][i].price = book[s][j].price)
      => number[book[s][i].id] < number[book[s][j].id]

(* A tick comes to its end: every agent has acted and everything it asked  *)
(* for has been applied.                                                   *)
TickEnds == turn < Len(Lineup) ~> turn = Len(Lineup) /\ Ready

=============================================================================
