# Tessera: a TLA+ verification of the matching engine

Tessera is a limit order book written twice: a fast engine (`crates/core`) of
arenas, intrusive lists and bitmaps that never allocates, and an oracle
(`crates/reference`) of two sorted vectors that is meant to be obviously right.
The fast engine has to reproduce the oracle's output event for event. Around
the two stand a shell (wire codec, journal, ring between threads, command line)
and a simulator that feeds the engine.

This directory models that system in TLA+, checks it with TLC on small
instances and proves facts about it with TLAPS for every value of the
parameters.

## The parts of the system

| part | source | state | operations |
|---|---|---|---|
| oracle | `reference/src/lib.rs` | two vectors in price-time order | `apply` (New, Cancel, Modify) |
| fast engine | `core/src/{book,book_side,arena}.rs` | slots, free list, levels, bitmap, cached best, index | the same |
| occupancy bitmap | `core/src/book_side.rs` | words of 64 bits | set, clear, scan below, scan above |
| order index | `core/src/order_index.rs` | control bytes, keys, values | get, insert, remove |
| event buffer | `core/src/buffer.rs` | a vector of fixed capacity | push, clear |
| price grid | `core/src/config.rs` | none | price to level and back |
| snapshot | `core/src/snapshot.rs` | none of its own | snapshot, restore |
| journal | `shell/src/journal.rs` | a file and the buffers at its two ends | create, append, finish, open, next_event, replay |
| ring | `shell/src/ring.rs` | a bounded queue and a closed flag | send, drop, recv |
| wire codec | `shell/src/codec.rs` | none; a caller's buffer | encode, decode of inputs and outputs |
| validator | `core/src/validate.rs` | none, reads the engine's | validate |
| state hash | `core/src/hash.rs`, `reference/src/lib.rs` | none, reads a book | state_hash |
| simulator | `sim/src` | agents' memory, a view of the book, sequence counter | tick, run |
| CLI, TUI, harnesses | `shell/src/{main,tui}.rs`, `tests`, `fuzz`, `benches` | | drivers |

The engine is single-threaded: a caller clears the event buffer, calls
`apply`, takes the events. Concurrency is at the ring (two threads), between
the journal's writer and a reader in another process, and where a process is
killed. What is hard inside the engine is not interleaving but long sequences
of legal calls: links threaded through one field that two lists share, caches
(best level, level totals) that several paths maintain, a pre-check that must
predict a loop, capacity that is checked before it is needed.

What makes each part correct:

* oracle: price-time priority, never crossed, quantity conserved, unique ids,
  room for every accepted order, a fill-or-kill that fills;
* engine: the same outputs as the oracle, no slot leaked or shared, exact
  caches, termination of the nested match loops;
* bitmap: its scans find the neighbouring occupied level;
* index: it is a map, whatever collides and whatever was removed;
* snapshot: a restart from it cannot be told from no restart;
* journal: a replay is a prefix of the session, the whole of it once finished;
* ring: a FIFO channel without loss that reports its end once;
* codec: an event comes back from its record, whatever the buffer held before;
* validator: silent on every book the engine can build, and not blind to one
  wrong field;
* state hash: a function of what the book means, not of where its orders live;
* simulator: agents that never lose track of what they sent, on a view that is
  the book, with ids and numbers the engines can rely on.

`PROJECT.json` lists the hazards line by line, each with the properties that
guard it or the reason none does.

## Modules

| module | what it is |
|---|---|
| `PriceGrid` | levels, prices, the checked subtraction of `price_to_idx` |
| `BookTypes` | orders, attributes and output events both engines share |
| `ReferenceBook` | the oracle; also the abstract specification of the engine |
| `OrderBook` | the fast engine, with the refinement mapping to the oracle |
| `Snapshot` | `OrderBook` with restarts from snapshots |
| `OrderIndex`, `IndexMap` | the probe table, and the map it implements |
| `OccupancyBitmap` | the words of the bitmap and their scans |
| `Ring`, `FifoChannel` | the ring, and the channel it implements |
| `Validator` | `OrderBook` with the invariant checker, and with damage to any one field |
| `Codec` | the records of inputs and outputs, byte by byte |
| `Journal` | writer, file and reader of the journal, on `Codec` |
| `Simulation` | the runner and the four kinds of agents, closed into a loop with the oracle |
| `MC*` | instances for TLC: symmetry sets, hash functions, sample events, line-ups of agents, the view variable |
| `BookLemmas` | facts on numbers, sums, sequences and the price grid for all proofs |
| `ReferenceBookProofs`, `EngineProofs` | proofs about the oracle, with the simulation that drives it, and about the fast engine |
| `RefinementProofs` | the proofs that the fast engine implements the oracle, restarted or not, and that the validator accepts it |
| `BitmapProofs`, `IndexProofs` | proofs about the bitmap and the order index |
| `RingProofs`, `JournalProofs` | proofs about the ring and the journal |

How they compose: `OrderBook` is compared with `ReferenceBook` step by step;
it uses the index as a map, which `OrderIndex` is shown to be, and the bitmap
as a set with neighbours, which `OccupancyBitmap` is shown to be. `Snapshot`
and `Validator` extend `OrderBook`, and `MCSnapshot` composes the two. `Ring`
and `Journal` carry input events to an engine; since an engine's outputs and
state are a function of the events it is given in order, that they deliver the
same events in the same order is all the engine needs of them. `Journal` writes
and reads its records with `Codec`. `Simulation` extends `ReferenceBook`, which
is what the engine it drives in the code implements.

### ReferenceBook

`book[side]` are the vectors `bids` and `asks`; `taker` is the order inside
`do_new` with what remains of it, or `NoOrder`; `out` is what `apply` has
pushed and the caller has not taken. `ApplyNew`, `ApplyCancel` and
`ApplyModify` are the arms of `apply` up to the call of `do_new`: the whole
validation in its order, the removal and the Ack. `FillFront`, `StpCancel...`
are one iteration of the match loop each. `FinishFilled`, `RestRemainder`
(push and sort) and `KillRemainder` are what follows the loop. `Drain` is the
caller. No thread can see the states between these steps; they are there so
that properties hold in the middle of a match and so that the engines are
compared iteration by iteration.

The sequence number is not in the oracle's state. Inputs are numbered upwards by
their source (`sim/src/runner.rs:203`), so the oracle's sort by price and then
number puts a new order behind all orders of its price (`SortsTo`). With numbers
that do not increase the oracle would sort differently from the engine, which
goes by arrival; `Simulation` carries the numbers and shows that the runner's
never make that difference (`ArrivalInSequence`).

`StateHash`, here and in `OrderBook`, is what `state_hash` feeds to FNV-1a: a
hash is taken to be the words it is computed from. `Ascending` (in `BookTypes`)
lists a set of numbers, `AtLevel` the orders the oracle filters out for a level.

### OrderBook

The variables carry the names of the fields. A slot is its data (`order`) and
its three links; `levels[side][level]` is the code's `Level`; `occupied[side]`
the set of levels whose bit is set; `lvl` and `cur` are the locals of
`fill_at_level`, with `EnterLevel` and `LeaveLevel` as the steps of the outer
loop. `UnlinkAndFree` is `unlink_and_free` whole: unlink, bit, rescan of the
best, index, free list. The data of a free slot, which the code leaves stale
and overwrites before anything reads it, is replaced by `NoOrder`, so that a
stale read would not go unnoticed.

`Fifo` is the queue of a level, read along the links for at most one slot more
than the arena has, so that a list that runs in a circle would repeat a slot.
The state hash, `snapshot()` and the validator read it.

`OracleBook` reads the two vectors off the linked lists: `Line(side)` walks from
the head of the cached best level along `next`, and from the end of a level to
the head of the next worse occupied one, as the loops of `can_fill_fully` do. It
is that walk that `CanFillFully` sums under STP; without STP it adds up the level
totals (`TotalWithin`). `MCOrderBook` keeps that value in a variable of its own, `book`: a
function of the others that TLC evaluates once for each step instead of for
every comparison. `StepsOfOracle` says that every engine step is an oracle step
with the same events, or (entering and leaving a level) none. Events do not
carry the whole input, so the refinement alone would let the engine answer one
input as the oracle answers another; `VerdictsAgree` closes that gap: between
two applies both engines give every possible next input the same answer.

### Snapshot

`SnapOrders` is `snapshot()`: the places in the queues of the occupied levels
(`Places`), listed by side, level and position (`NotAfter`, `Visits`). `Restore` is
`restore()` with its checks. The loop of `restore` links each order to the tail of its level in a fresh book;
the model states its result for each slot and level. `Restart` replaces the
engine by its restored self between two applies.

### Validator

`Validate` is `validate()`: the walks through both sides and the free list, over
whatever links are there, bounded as the code bounds them. `Damage` changes one
field of one slot, level, cache, index entry or of the arena: a link, a side, an
id, a level, a bit, the cached best, an index entry or the free head to any other
value of its type (a slot's level to another level, never to none), a count, a
total, `len` or what an order has left by one, up or down. It stands for an engine
bug, and a damaged book is only looked at.
`ValidatorPasses` and `EveryDamageShows` are the two sides of what the fuzzer
relies on. The first also makes the checks I1 and I3 to I9 invariants of the
engine at every step, in the middle of a match as well, which is more than the
tests ask.

### OrderIndex, OccupancyBitmap

`OrderIndex` keeps `ctrl`, `keys`, `vals`; a probe is described by the number
of cells it passes. The hash is an arbitrary function `Home`. `OccupancyBitmap`
has words of `W` bits, a word being the set of its set bits, and takes shift
distances modulo `W` as a release build does, so that the special case for the
last bit of a word is there for a reason. Levels are entered and left by price,
through `price_to_idx`, on a grid whose last levels lie beyond the largest i64.

### Codec

A record is a function from offsets to bytes, with the code's offsets and
widths; a field is written over a buffer of zeros. A byte has `B` values: 256 in
the code, 8 in the runs, because TLC's integers end at 2^31 and the largest u64
has to be among the samples. The decoders refuse the discriminants the code
refuses, and are written from the decoders, not as inverses of the encoders.

### Ring, Journal

`Ring` has one step for each atomic access: push, pop, load of the flag, store
of the flag. crossbeam's queue is external and is taken to be a linearizable
bounded queue. `Journal` has one step for each write that reaches the file,
which may take any part of the buffer, and for every place where a process can
die or a write can fail. The file is a prefix of the header and the records,
so the model keeps its length, and a whole record is what `Codec` makes of its
event; the header carries the configuration, which `Open` decodes. `replay`
decodes an event, applies it and encodes each output into one buffer (`rec`) for
the fingerprint; what the engine answers is external here. `BufWriter` and the
file system are external, as used. A loss of power is left out: the code never
syncs, so nothing could be said of it.

### Simulation

`StartTick` moves the reference price, an agent's action is one call of `act`
(what it remembers, and its batch of intents), `Submit` numbers and applies the
next intent, the oracle's steps follow, and `Publish` reads the outputs and
updates the view, as `tick()` does before the next intent. `run()` starts
ticks until the log is long enough. Every random draw and the floating-point
walk of the reference price is a free choice from a small set; the half spread
and the tolerance, drawn once for each market maker, are constants. The level that
an `Adversarial` hammers is drawn when the agent is made, up to four levels from
the middle, and kept in its memory (`target`). The code clamps neither it nor the
price of a chase, so on a narrow grid both may be off the grid, where the engine
rejects them; `Strays` says of which agents that can happen, and
`OnlyTheMarketRejects` allows it to no other. What the engine is given comes from
the agents alone; `InPrices` and the other inputs of the oracle only have to
include what they send (`InputAssumption`). The history variable `number` keeps the
sequence number with which an order was entered.

## Runs

| run | shows | bounds |
|---|---|---|
| `oracle_match` | price-time priority, never crossed, unique ids, room to rest | 4 ids, 3 live, 2 traders, 2 levels, quantities 0 to 2, every time in force, an off-grid price |
| `oracle_stp` | fill-or-kill under STP, bounded output, conservation | 4 ids, 3 live, 2 traders, 1 level, every STP mode |
| `engine_capacity` | cached best, a free slot when needed, the same answer to every input; refinement with every rejection and with fairness | 3 ids for 2 slots, 2 traders, 3 levels of which the middle one stays empty, no symmetry |
| `engine_restart` | validator and damage, cursor, state hashes; refinement with restarts | 3 slots, 2 levels, partial fills, every time in force; one damage, between two applies |
| `engine_stp` | the same answer to every input, and refinement, under STP and fill-or-kill | 3 ids for 2 slots, 2 traders, 2 levels |
| `index_map` | the table is a map and never refuses | 5 ids, 3 live, 8 cells, homes that collide and wrap |
| `index_churn` | violation, see below | 8 ids, 1 live |
| `bitmap` | scans find the neighbours; levels read back as prices | 10 levels in words of 4 bits, the last of them beyond the largest integer; every integer tried as a price |
| `ring` | a FIFO channel; a full ring drains | 8 items through 3 places |
| `journal` | prefix, completeness, bounded loss, replay ends, records round-trip | 4 records through a buffer of two, 2 replays, every split of every write; events and configurations with every discriminant and the ends of every integer range |
| `journal_truncated` | violation, see below | the same |
| `simulation` | agents keep track, rejections have their reasons, a true view, increasing numbers, ticks end | a market maker with an adversary (6 inputs) whose target is below the grid, its lowest level, inside or above it; with momentum and noise (5); two market makers (9); 4 levels, 4 slots, no symmetry |

Why the bounds are enough. Three live orders give a queue with a first, a
middle and a last order, or two levels of which one empties; two are enough to
fill an arena and to make a modify or a rest hit the limit. Quantities up to two
make a taker smaller than, equal to and larger than a maker. Off-grid and zero
inputs reach every rejection. Ids are reused after their order is gone. The
table of eight cells is the smallest the code builds. Ids and traders are
compared for equality only, so the safety runs of the engines use symmetry on
them; the runs with a liveness property do not. Damage is to one field: two that
make up for one another can pass any checker. In `simulation` each line-up is
long enough for what it is there for: a requote after a fill and a burst with its
cancels, a trend that momentum follows, and two market makers who requote at the
same prices and queue behind one another (their quotes never cross); `IdSpace`, 2^40
in the code, is more than any agent uses up, and the number of inputs is where `run()` stops, so the
last tick may go beyond it, as in the code.

The oracle's and the ring's `TypeOK` are in a run because theorems are about
them; those of the other modules document the state.

`CHECK_DEADLOCK` is off where the system stops: a ring whose consumer was told
of the end, a journal written and read as often as the bound allows, a `run()`
that has returned.

### Fairness

`WF(Proceed)` in the two engines: `apply`, once called, runs; no caller is
obliged to call it. `WF(Recv)` in the ring: the engine thread spins in `recv`
and is scheduled; the producer owes nothing. `WF` of the reader's steps in the
journal: `replay` loops until `next_event` says the end. `WF(TickSteps)` in the
simulation: `tick()` is one call on one thread, which nobody is obliged to make
(`StartTick` has no fairness).

### Where the code and its comments part

* `index_churn`: `order_index.rs:1-7` promises O(1) and short probe chains at a
  load factor of at most 0.5. Tombstones are reused but never turned back into
  empty cells. Once as many distinct homes have been used as there are cells,
  every lookup of an absent id (one for every new order) passes the whole
  table, however few ids it holds. The answers stay right (`index_map`).
* `journal_truncated`: `journal.rs:76` promises an error on truncation.
  `read_exact` reports a partial record as `UnexpectedEof`, which `next_event`
  turns into `Ok(None)`: a journal cut in a record replays as a shorter one.

Met while modelling, with no run of their own:

* `hash.rs:85` says the full semantic book state. `state_hash` takes neither the
  STP mode of a resting order nor its original quantity. The mode is read again
  when the order is modified (`book.rs:212`), so two books of equal hash can
  answer a Modify differently.
* `validate()` never looks at an order's trader, STP mode, original quantity or
  price (only at its level), which is why `Damage` leaves them alone.
* `run()` (`runner.rs:257`) never returns for a line-up that stays silent, such
  as momentum traders alone, who wait for somebody else's trade.
* `replay --repeat` (`main.rs:137`) on a journal that is still being written may
  report non-determinism: the replays see prefixes of different length.

## Proofs

`BookLemmas` has what the proofs have in common: least and greatest numbers, the
two theorems about the price grid, what removing or inserting an element does to
the other positions of a sequence, and a small library on sums over finite sets
(one element more or less, two functions that agree, a sum against a bound). The
sums are folds; what holds of them for every set is proved from their unfolding
at one element, by taking a smallest set that would be a counterexample. So no
induction theorem with an operator parameter is needed.

### The oracle

`ReferenceBookProofs` proves of the oracle, for all values of the constants
that satisfy `GridAssumption` and `BookAssumption`:

* `TypeCorrect`: `Spec => []TypeOK`. Inductive as it stands.
* `BookNeverCrosses`: `Spec => [](PriceSorted /\ NeverCrossed)`, and
  `SidesStaySorted` for the order of the sides alone. Neither half is
  inductive alone: that a remainder rests without meeting the other side follows
  from the front order not being marketable only because the side is sorted, so
  the conjunction with `TypeOK` is the inductive invariant. Every step but one
  only thins the sides out (drops an order or lowers its quantity), which is a
  lemma of its own (`StepsThin`); the one that adds, `RestRemainder`, is treated
  in `RestDoesNotMeet` and `RestingKeepsOrder`.

* `IdsAreUnique`: `Spec => []UniqueIds`. An id comes into the match loop only
  if no order at rest has it (`ApplyNew`) or if the order that had it has just
  been taken out (`ApplyModify`); `UniqueIds` speaks of the order being matched
  as well, which is what makes it inductive.
* `OrdersNeverOvertake`: `Spec => NeverOvertakes`, an action property. A step
  that thins a side out keeps the order of what stays, because unique ids
  identify an order before and after; a remainder that rests moves the others
  without passing them.
* `NewcomersJoinAtTheBack`: `Spec => JoinsAtTheBack`. With the price order and
  the theorem before it this is price-time priority.
* `AlwaysRoomToRest`: `Spec => []RoomToRest`, so the capacity check made before
  matching holds when the remainder rests.
* `OrdersAreSound`: `Spec => []RestingOrdersSound`. The strengthening says that
  the order being matched is on the grid and has no more left than it was
  entered with (`TakerSound`).
* `OutputStaysBounded`: `Spec => []OutputBounded`. The strengthening (`Budget`)
  counts what can still cost an event: every order at rest, and the order being
  matched as long as something is left of it. A step may emit no more than it
  takes off that account; the two events of a Modify are paid for by
  `RoomToRest`.
* `FokAlwaysFillable`: `Spec => []FokStaysFillable`. Inductive together with
  `TypeOK`: the orders `can_fill` counts are those the match loop will reach, so
  taking the front order away takes from the sum what it takes from the taker
  (a fill), nothing (an own order under CancelResting), or cannot happen (the
  modes that cancel the aggressor stop the count at its own first order).
* `FokFillsWhole`: an accepted fill-or-kill leaves the match loop with nothing
  left. This is what the pre-check is for; it follows from the invariant and the
  conditions under which the loop ends, and is stated in the proof module only.
* `NothingIsLost`: `Spec => QuantityConserved`, for every id and every step: the
  change of the open quantity (on both sides and in the match loop) is what the
  new events report. The open quantity is a sum over positions; `OpenRemoved`,
  `OpenInserted` and `OpenFilled` say how the three changes of a vector move it,
  the `Says...` lemmas what one or two new events report, and each action
  balances the two (`Balanced`).

### The simulation

The last part of `ReferenceBookProofs` proves the four invariants of the
`simulation` run for every line-up, number of inputs, grid and draw:
`NoOrderIsForgotten` (`AgentsTrackTheirOrders`), `IdsNeverMeet`
(`OnlyTheMarketRejects`), `ViewIsNeverStale` (`ViewIsTheBook`) and
`SequenceIsArrival` (`ArrivalInSequence`). Here, and nowhere before in that module,
three more assumptions are cited: `SimAssumption` (a tick of one, without which
`clamp` would leave the grid; at least three levels; no draw of zero lots),
`IdAssumption` (no agent uses up its ids, 2^40 in the code, before `run()` stops)
and `InputAssumption` (what agents send is among the oracle's inputs).

Every step of the simulation is a step of the oracle or leaves it alone
(`SimIsNext`), so the oracle's invariants come along (`BookInv`). The rest of the
invariant, `SimInv`, relates the agents to the book:

* `OwnInv`: what bears an agent's name, on the book, in the match loop, in its batch
  or in its memory, bears an id that the agent has given out; `IdsLeft` says that it
  has given out no more than it may, so that ids of two agents never meet
  (`IdsApart`). Hence orders still in a batch are new (`Fresh`), which keeps
  duplicates out, and a cancel finds an order of its own trader or none.
* `KeptInv`: an order of a market maker or a noise trader is in its memory as long as
  it rests, is being matched or waits in the batch, unless its cancel waits
  there too. It is the step in which an agent replaces what it remembers that could
  break it, and the cancels handed over in the same step that save it.
* `Numbered`: an order being matched has the greatest number so far, so that one
  that rests goes behind smaller ones. `ViewTrue` and `Talking`: the view is the
  book's whenever nothing waits to be read, and while an order is matched something
  does.

`Emits` is what the four agents have in common: cancels of orders the agent recalls,
then new orders with its next ids, on the grid or from an agent that strays. One
lemma says of each agent that it does nothing else (`MarketMakerSpeaks` to
`AdversarialSpeaks`), and `EmitsKeeps` that this keeps the invariant; the runner's
steps and those of the match loop have a lemma each.

### The fast engine

`EngineProofs` needs `GridAssumption` and `BookAssumption` only, and has one
inductive invariant, `IInv`, for everything. TLC found no violation of it on the
instances of the engine runs before it was proved. Its parts hold each other up:

* Lists. `ListsLinked` describes a level's list slot by slot: neighbours are live,
  of the same side and level, and point back, and the ends are where head and
  tail say. No part of the proof follows a chain of links, which would be
  induction. What local links cannot say is that a list does not run in a circle
  beside the level; `ListsEnd` says it by an age for each slot that `next`
  increases.
* Counts and sums. `CountsRight` ties counts and `len` to the cardinality of sets
  of slots. `TotalsRight` says that a total is the sum of what its level's orders
  have left; the sum is given by its partial sums (`SumsTo`), so that a change of
  one slot changes a sum without a fold.
* Arena. `FreeStack` says that the free list holds every free slot exactly once, as
  a stack whose depth is `MaxLiveOrders - len`. Freeing and taking a slot push and
  pop it. That free slots are chained through the same `next` as resting orders
  is harmless because the two sets of slots are disjoint.
* Index, prices, sides. `IndexInverse`; `OrdersInPlace` (an order rests at the level
  of its price, with something left); `SidesApart` (occupied bids below occupied
  asks); `BestIsTrue`.
* The match loop. `LoopInv`, `CursorAtHead`, `FreeSlotForTaker`. The cursor is read
  before its predecessor is freed; that it is the head of the best level
  afterwards follows from the predecessor having been the head and from `Mirrored`.
  `SidesApart` survives a remainder that rests because the loop stops only at an
  empty or unmarketable side, which `BestIsTrue` makes a statement about all levels.

Unlinking a slot (`Unlink...`), resting a remainder (`Rest...`) and a partial fill
(`Part...`) are each taken through the invariant part by part; the actions are put
together from these. The theorems:

* `EngineTyped`: `Spec => []TypeOK`; no counter of the engine underflows.
* `BestStaysTrue`, `RestFindsASlot`, `CursorStaysAtHead`: the invariants `BestIsTrue`,
  `FreeSlotForTaker` and `CursorAtHead` of the runs.
* `LevelsHoldTogether`, `IndexFindsOrders`, `FullMeansFull`, `EngineNeverCrosses`: the
  parts of `IInv` a reader of the code cares about: what `validate()` checks at run
  time (I1 to I9), stated without its walks. The walks follow (`EngineIsValid`).
* `MatchingWindsDown`: each step of `apply` decreases `StepsLeft`, so the nested loops
  end for every book. What a level that is entered contributes is its orders, and
  `HeadExists` (an occupied level has a head: its slot of least age) says that
  there is one.

### The fast engine implements the oracle

`RefinementProofs` proves the two properties that relate the engines, from
`GridAssumption` and `BookAssumption` alone:

* `EngineImplementsOracle`: `ViewSpec => StepsOfOracle`. The initial states agree and
  every step of the engine, read through `OracleBook`, is a step of the oracle with
  the same events, or one that the oracle does not see (`EnterLevel`, `LeaveLevel`).
* `EnginesAgree`: `ViewSpec => []VerdictsAgree`. Between two applies both answer every
  input alike, for the same reason.

The argument:

* The walk without its recursion (in `EngineProofs`). A sequence of slots is a `Chain` of a side if it
  has every order of the side once, no worse level before a better one, and
  follows the links. A side has at most one chain and the walk is it
  (`ChainIsLine`: by the smallest position at which the walk could differ).
  `UnlinkOwnChain` and `RestOwnChain` say what becomes of a chain when a slot is
  taken out or put in, `UnlinkOtherChain` and `RestOtherChain` that the other side's
  stays. Price-time priority is in the place where `rest` puts a slot: behind
  every order of a level that is not worse, which is where the oracle's sort puts
  it (`RestBook`).
* The three changes of the book. `UnlinkBook`, `RestBook` and `PartBook` state what the
  oracle's vectors become when the engine unlinks, rests or partly fills; they
  are an `Append` with its sort, a `RemoveAt` and a change of one element.
* The views. What each engine reads is the same: the front order (`FrontView`),
  liveness of an id (`LiveView`), room (`RoomView`), and the fill-or-kill pre-check
  (`FokView`). For the last the level totals have to be the sums of what the
  orders of the level have left: `SumsToIsSum` turns the partial sums of
  `TotalsRight` into the sum, `SumGrouped` adds the levels up, and that the levels
  within the limit are the beginning of the walk is the order of the chain.
* The invariant, `RInv`: `IInv` of `EngineProofs`, that both sides have a chain
  (`Chains`), `book = OracleBook`, that the level being walked is within the limit
  of the order being matched (`WithinLimit`, tested by the code once for each level
  and by the oracle for each order), and that the event buffer has room for all
  that is still to be said (`RoomForEvents`). The last is needed because the
  engine's buffer has a capacity and the oracle's vector has none: the theorem
  includes that no event is ever dropped.
* One lemma for each action (`...Sim`), put together in `StepSim`.

### The validator accepts the engine

`EngineIsValid`, also in `RefinementProofs`: `RestartSpec => []ValidatorPasses`, from
the same invariant (for restarts see below). What `IInv` says of slots and levels, `validate()` finds by
walking:

* A walk. `Visited` is the only sequence that follows the links (`VisitsUnique`),
  so slots that are linked up, the last one leading nowhere, are what a walk from
  the first of them finds, and where it ends (`WalkIs`).
* The queue of a level is the part of its side's chain with its orders
  (`LevelHasList`), which `WalkIs` turns into `FifoIs`. It has as many slots as the
  level counts, and what they hold adds up to the level's total (`ListCounts`).
* `BestIsFound`, `LinkedInIs` and `IndexCounts` (as many ids as live slots, by the
  bijection between them) are the rest of I1 to I7; `FreeListIsValid` walks the free
  list, which `IInv` describes as a stack, from its top (I8).

### Restarts do not show

`engine_restart` checks `RestartSpec`: the engine, restarted from its own snapshot
between any two applies, until something damages the book. Its properties, but
for `EveryDamageShows`, are proved of it, from the invariant `Sound`, which is `RInv`
as long as nothing is damaged: `EngineIsValid`,

* `SnapshotsRestore`: `RestartSpec => []EverySnapshotRestorable`. No check of `restore()`
  refuses a snapshot of the engine.
* `RestartsDoNotShow`: `RestartSpec => RestartsInvisible`. Every step of the engine is
  one of the oracle, which is never restarted, or one that the oracle does not see;
  a restart is of the second kind.
* `HashesStayEqual`: `RestartSpec => []HashesAgree`, after restarts too.

The argument:

* What a snapshot lists. A place in a queue is a live slot and the other way
  around (`PlacesAreSlots`), and to list them by `NotAfter` visits each of them once,
  those of a level from head to tail (`VisitsOrdered`, `SnapshotLists`). That
  the ids are distinct, the prices on the grid and the arena large enough
  (`SnapRestorable`) is then what `IInv` says of live slots.
* What `restore` makes of them. The order with the number n goes to slot n. Its
  neighbours among the orders of its level, by which `Restore` states the links,
  are those it had (`RestoredSlotIs`, `RestoredLevelIs`): between two orders that are
  linked there is no other of their level in the snapshot.
* So a restart is a renaming of slots: `Renamed(to)` says of the book after it that
  each live slot is the former one under its new name, with its links renamed,
  that levels keep counts and totals, and that the free list is that of a fresh arena
  (`RestoreRenames`).
* A renaming keeps `IInv`, part by part (`RenamedTyped` to `RenamedRest`), takes the
  chain of a side to its chain (`RenamedChain`) and leaves the vectors that are read
  off it as they were (`RenamedBook`).
* `HashView`: the orders that the oracle filters out for a level are, in their
  order, those on the part of the chain that is the level's queue
  (`OracleAtLevel`), and the cached count and total are what the oracle counts and
  sums.

`RInv` says also that there is a free slot when one is needed and that the cached
best and the cursor are right (`IInv`), so these hold after restarts as well.

### Grid, bitmap, index

In `BookLemmas`, from `GridAssumption` only: `LevelsArePrices` (an accepted price
has a level, comes back from it, and the way back does not overflow) and
`PricesHaveLevels` (every level's price is accepted, as long as its distance
from `min_price` fits in an i64).

`BitmapProofs` proves both properties of the `bitmap` run for every grid and word
width: `LevelsReadBack` and `ScansFind`. The invariant adds that no bit is set
beyond the last level (`Fits`), without which a scan of a last, partly used word
could answer a level that does not exist. A level is a word and a bit, and levels
compare by words first (`Lexicographic`); so the greatest bit of the greatest word
that has one is the greatest level (`GreatestBit`), whatever the mask of the word
the scan starts in.

`IndexProofs` proves both properties of the `index_map` run for every capacity,
set of ids and hash function: `InsertsHaveRoom`, and `IndexIsAMap`, the whole
refinement of `IndexMap` (no fairness is involved). The invariant is that every
full cell is reachable: from its id's home to it no cell is empty. Removal keeps
it because it leaves a tombstone and not an empty cell; insertion because it takes
the first tombstone or empty cell of a probe that has ascertained that the id is
nowhere. `IndexAssumption` says, besides what `IsCapacity` says, that the capacity is
a number.

### Ring and journal

`RingProofs` needs `RingAssumption` only: `RingTyped`, and `RingIsAChannel`,
that the initial states and every step of `Ring` are those of `FifoChannel`.
The inductive invariant numbers the items: what was received are the first ones
sent and the queue holds the rest, and `recv` is past the flag only when the
flag is set and past the end only when nothing is left.

`JournalProofs` proves of every buffer, record length, session and split of the
writes:

* `LossIsBounded`: `Spec => []LossBounded`. Until the buffer is dropped, file and
  buffer together are the session (`WriterInv`); at every moment at most a buffer of
  it is missing from the file.
* `ReplayIsAPrefix` and `FinishedSessionIsWhole`: the invariant `ReplaysPrefix` and the
  action property `FinishedReplaysWhole`. A reader that is open stands behind as many
  whole records as it has returned (`ReaderInv`), so a record that is whole in the
  file is one that was appended, and a reader that finds less than a record behind
  a finished writer has returned them all. Both theorems assume of the codec that
  every event of the session and the header come back from their records
  (`EventsComeBack`, `HeaderComesBack`), which is what the `journal` run checks of
  `Codec` (`RecordsRoundTrip`): the codec sums digits by a fold.

### With TLC only

* Liveness (`OracleSpec`, the fairness of `FifoChannel`, `ReplayEnds`, `TickEnds`): fairness
  and ENABLED are beyond the prover. Of `ImplementsChannel` and of `OracleSpec` the
  safety parts are proved; that the engine's loops end is proved as
  `MatchingWindsDown`.
* `EveryDamageShows`: that a wrong field shows is a statement about each kind of
  damage, and the run tries them all.
* `RecordsRoundTrip`: digits of any width, by a fold over a record.

## Not modelled

* Damage to bytes of a journal already written, and loss of power.
* A read of the journal that fails with an I/O error (`journal.rs:84`): the error is
  handed on and ends the replay.
* The arithmetic of FNV-1a, of the random numbers and of the reference price:
  nothing here depends on their values.
* The simulator's statistics and list of recent trades, which nothing reads back.
* Quantities are natural numbers: the code keeps sums in `u128`, wide enough for
  any number of `u64` orders the arena can hold.
* A consumer of the ring that goes away: the producer has no way to see it.
* CLI, TUI, tests, fuzzers and benchmarks: drivers of the parts above.

## Plan

Done, in this order: `PriceGrid`, `BookTypes`, `ReferenceBook` and its
theorems; `OrderBook` and the refinement; `Snapshot`; `OrderIndex`;
`OccupancyBitmap`; `Ring` and its theorem; `Journal`; the theorems about the
grid; `Validator`; the state hashes; `Codec` under `Journal`; `Simulation`; the
theorems about the engine, the index, the bitmap and the journal; the sums, and
with them conservation and fill-or-kill; the refinement of the oracle; the
validator's walks; restarts and hashes; the invariants of the simulation.

Open, in the order of what they would say about the system:

1. `EveryDamageShows`, one kind of damage after the other: what `Validate` says of a
   walk is read backwards, from the walk to the slots.
2. `RecordsRoundTrip`, which would free the journal's two theorems of their assumptions
   about the codec.
