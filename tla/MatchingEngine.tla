--------------------------- MODULE MatchingEngine ---------------------------
(***************************************************************************)
(* The in-memory matching engine, packages/matching-engine                 *)
(* src/orderbook/orderbook.ts (class OrderBook).                           *)
(*                                                                         *)
(* A call of placeOrder is a run of small steps: the taker is created,     *)
(* the price levels of the opposite side are visited in the order of a     *)
(* snapshot of the Map's keys, each level's array is walked by index, every *)
(* fill may push stop orders into the arrays being walked, and the         *)
(* callbacks run once the sweep is over.  JavaScript runs the call to      *)
(* completion, so every other operation waits for phase = "idle".          *)
(*                                                                         *)
(* The arrays of the two Maps are kept as one set, book, and a push time:  *)
(* arrays are only appended to and filtered, so the order of a level's     *)
(* array is the order of the pushes.  The keys of the Maps are kept apart  *)
(* (levels), because a key can outlive its last order.                     *)
(***************************************************************************)
EXTENDS Integers, Sequences, FiniteSets, Functions, FiniteSetsExt

CONSTANTS
  Traders,      \* the traders that call placeOrder
  Prices,       \* limit prices
  Quantities,   \* order sizes
  Requests,     \* the calls of placeOrder that are explored
  Infinity,     \* the price of a market buy, above every limit price
  MaxOrders,    \* bound: orders created in one run
  MarketMaker,  \* the trader seed() places for
  SeedMids,     \* the prices seed() is called with
  SeedLevels    \* the levels seed() places on each side

Side == {"buy", "sell"}
OrderType == {"limit", "market", "stop-limit"}
Id == 1..MaxOrders

\* A call of placeOrder; stopPrice 0 stands for an absent (falsy) argument.
Request == [side: Side, type: OrderType, price: Prices, stopPrice: Prices \cup {0},
            quantity: Quantities, trader: Traders]

ASSUME EngineAssumption ==
  /\ Prices \subseteq Nat \ {0}
  /\ Quantities \subseteq Nat \ {0}
  /\ MaxOrders \in Nat
  /\ Infinity \in Nat /\ \A p \in Prices : p < Infinity
  /\ MarketMaker \in Traders
  /\ Requests \subseteq Request
  /\ \A r \in Requests : r.type # "stop-limit" => r.stopPrice = 0
  /\ SeedLevels \in Nat
  /\ SeedMids \subseteq Prices
  /\ \A mid \in SeedMids, i \in 1..SeedLevels : {mid - i, mid + i} \subseteq Prices

VARIABLES
  nextId,     \* orderIdCounter
  orders,     \* orders: the terms of every order placed
  filled,     \* Order.filled
  status,     \* Order.status, "none" before the order exists
  book,       \* the orders held by the arrays of bids and asks
  stamp,      \* when an order was pushed on its array, 0 before
  clock,      \* time of the next push
  levels,     \* keys of the Maps bids ("buy") and asks ("sell")
  stopOrders, \* stopOrders; it is filled in id order and filtered
  lastPrice,  \* lastPrice
  trades,     \* trades, newest first
  phase,      \* where the running call is
  taker,      \* the order being placed, 0 when idle
  todo,       \* prices of match() not yet visited
  at,         \* the price being visited
  visited,    \* the makers of that level with an index below i
  newTrades,  \* trades of match() not yet handed to the callback
  arrived,    \* history: the clock when the taker was placed
  seedStep,   \* next placement of a running seed(), 0 when none runs
  seedMid     \* its midPrice

callVars == <<phase, taker, todo, at, visited, newTrades, arrived>>
seedVars == <<seedStep, seedMid>>
bookVars == <<book, stamp, clock, levels>>
vars == <<nextId, orders, filled, status, bookVars, stopOrders, lastPrice, trades,
          callVars, seedVars>>

NoOrder == [side |-> "buy", type |-> "none", price |-> 0, stopPrice |-> 0,
            quantity |-> 0, trader |-> MarketMaker]

Init ==
  /\ nextId = 1
  /\ orders = [o \in Id |-> NoOrder]
  /\ filled = [o \in Id |-> 0]
  /\ status = [o \in Id |-> "none"]
  /\ book = {} /\ stamp = [o \in Id |-> 0] /\ clock = 1
  /\ levels = [s \in Side |-> {}]
  /\ stopOrders = {}
  /\ lastPrice = 0
  /\ trades = <<>>
  /\ phase = "idle" /\ taker = 0
  /\ todo = {} /\ at = 0 /\ visited = {} /\ newTrades = <<>> /\ arrived = 0
  /\ seedStep = 0 /\ seedMid = 0

-----------------------------------------------------------------------------
Opposite(s) == IF s = "buy" THEN "sell" ELSE "buy"
Live == {"open", "partial"}
IsLive(o) == status[o] \in Live
Remaining(o) == orders[o].quantity - filled[o]

\* The array of a level, and the order of its elements.
Level(s, p) == {o \in book : orders[o].side = s /\ orders[o].price = p}
Before(a, b) == \/ stamp[a] < stamp[b]
                \/ stamp[a] = stamp[b] /\ a < b

\* Is p a better price than q for an order of side s to trade at?
Better(s, p, q) == IF s = "buy" THEN p < q ELSE p > q
\* Mutant of CanMatch: an equal price does not match.
CanMatchStrict(o, p) == Better(orders[o].side, p, orders[o].price)
CanMatch(o, p) == ~Better(orders[o].side, orders[o].price, p)
TakerDone == filled[taker] >= orders[taker].quantity
MakerSide == Opposite(orders[taker].side)

\* Mutant of IsFirst: prices are visited in the order of the Map.
IsAny(p, S) == p \in S
\* The first price of a set in the order in which the taker visits them.
IsFirst(p, S) == /\ p \in S
                 /\ \A q \in S : ~Better(orders[taker].side, q, p)
IsNextMaker(m) == LET rest == Level(MakerSide, at) \ visited
                  IN m \in rest /\ \A x \in rest \ {m} : Before(m, x)
\* Mutant of Eligible: cancelled and filled makers are not skipped.
EligibleDead(m) == orders[m].trader # orders[taker].trader
Eligible(m) == IsLive(m) /\ orders[m].trader # orders[taker].trader

\* addToBook for a set of orders, pushed in the order of their ids.
Push(S) ==
  /\ book' = book \cup S
  /\ stamp' = [o \in Id |-> IF o \in S THEN clock ELSE stamp[o]]
  /\ clock' = IF S = {} THEN clock ELSE clock + 1
  /\ levels' = [s \in Side |->
                  levels[s] \cup {orders[o].price : o \in {x \in S : orders[x].side = s}}]

\* The parked orders whose trigger lies between two successive trade prices.
Triggered(prev, new) ==
  {o \in stopOrders : LET stop == orders[o].stopPrice
                      IN \/ orders[o].side = "buy" /\ prev < stop /\ new >= stop
                         \/ orders[o].side = "sell" /\ prev > stop /\ new <= stop}

-----------------------------------------------------------------------------
Idle == phase = "idle" /\ seedStep = 0

\* The price of an order: a market order accepts any.
PriceOf(r) == IF r.type # "market" THEN r.price
              ELSE IF r.side = "buy" THEN Infinity ELSE 0

\* An Order object; filled and status are kept apart.
Order(r, type, price) ==
  [side |-> r.side, type |-> type, price |-> price, stopPrice |-> r.stopPrice,
   quantity |-> r.quantity, trader |-> r.trader]

\* The head of placeOrder: the Order object is built and recorded.
Record(r) ==
  /\ nextId <= MaxOrders
  /\ nextId' = nextId + 1
  /\ orders' = [orders EXCEPT ![nextId] = Order(r, r.type, PriceOf(r))]
  /\ filled' = [filled EXCEPT ![nextId] = 0]
  /\ status' = [status EXCEPT ![nextId] = "open"]

\* match() takes its snapshot of the opposite prices.
StartMatch(r) ==
  /\ Record(r)
  /\ phase' = "sweep" /\ taker' = nextId /\ arrived' = clock
  /\ todo' = levels[Opposite(r.side)]
  /\ UNCHANGED <<bookVars, stopOrders, lastPrice, trades, at, visited, newTrades>>

PlaceOrder(r) ==
  /\ Idle /\ r.type # "stop-limit"
  /\ StartMatch(r)
  /\ UNCHANGED seedVars

PlaceStop(r) ==
  /\ Idle /\ r.type = "stop-limit" /\ r.stopPrice # 0
  /\ Record(r)
  /\ stopOrders' = stopOrders \cup {nextId}
  /\ UNCHANGED <<bookVars, lastPrice, trades, callVars, seedVars>>

\* A stop order without a trigger: the call throws after orders.set.
PlaceStopThrows(r) ==
  /\ Idle /\ r.type = "stop-limit" /\ r.stopPrice = 0
  /\ Record(r)
  /\ UNCHANGED <<bookVars, stopOrders, lastPrice, trades, callVars, seedVars>>

-----------------------------------------------------------------------------
EnterLevel ==
  /\ phase = "sweep" /\ ~TakerDone
  /\ \E p \in todo : /\ IsFirst(p, todo) /\ CanMatch(taker, p)
                     /\ at' = p /\ todo' = todo \ {p}
  /\ phase' = "level"
  /\ UNCHANGED <<nextId, orders, filled, status, bookVars, stopOrders, lastPrice, trades,
                 taker, visited, newTrades, arrived, seedVars>>

\* Mutant of EndSweep: a full taker does not leave the loop.
EndSweepLate ==
  /\ phase = "sweep" /\ \A p \in todo : ~CanMatch(taker, p)
  /\ phase' = "emit"
  /\ UNCHANGED <<nextId, orders, filled, status, bookVars, stopOrders, lastPrice, trades,
                 taker, todo, at, visited, newTrades, arrived, seedVars>>

\* The first price that is not accepted ends the loop; no later one would be.
EndSweep ==
  /\ phase = "sweep"
  /\ TakerDone \/ \A p \in todo : ~CanMatch(taker, p)
  /\ phase' = "emit"
  /\ UNCHANGED <<nextId, orders, filled, status, bookVars, stopOrders, lastPrice, trades,
                 taker, todo, at, visited, newTrades, arrived, seedVars>>

SkipMaker(m) ==
  /\ phase = "level" /\ ~TakerDone
  /\ IsNextMaker(m) /\ ~Eligible(m)
  /\ visited' = visited \cup {m}
  /\ UNCHANGED <<nextId, orders, filled, status, bookVars, stopOrders, lastPrice, trades,
                 phase, taker, todo, at, newTrades, arrived, seedVars>>

FillQty(m) == IF Remaining(m) <= Remaining(taker) THEN Remaining(m) ELSE Remaining(taker)
StatusAfter(o) == IF filled'[o] >= orders[o].quantity THEN "filled" ELSE "partial"

\* Mutant of CheckStopOrders: what is activated stays parked.
CheckStopOrdersTwice == Push(Triggered(lastPrice, at)) /\ UNCHANGED <<stopOrders, orders>>

\* checkStopOrders: the triggered orders become limit orders and are pushed
\* on the book, without being matched.
CheckStopOrders ==
  LET hit == Triggered(lastPrice, at)
  IN /\ stopOrders' = stopOrders \ hit
     /\ orders' = [o \in Id |-> IF o \in hit
                                THEN Order(orders[o], "limit", orders[o].price)
                                ELSE orders[o]]
     /\ Push(hit)

Fill(m) ==
  /\ phase = "level" /\ ~TakerDone
  /\ IsNextMaker(m) /\ Eligible(m)
  /\ filled' = [filled EXCEPT ![m] = @ + FillQty(m), ![taker] = @ + FillQty(m)]
  /\ status' = [status EXCEPT ![m] = StatusAfter(m), ![taker] = StatusAfter(taker)]
  /\ newTrades' = Append(newTrades, [price |-> at, quantity |-> FillQty(m),
                                     side |-> orders[taker].side,
                                     maker |-> m, taker |-> taker])
  /\ CheckStopOrders
  /\ lastPrice' = at
  /\ visited' = visited \cup {m}
  /\ UNCHANGED <<nextId, trades, phase, taker, todo, at, arrived, seedVars>>

\* Mutant of CloseLevel: the level is dropped with its partly filled makers.
CloseWholeLevel ==
  /\ phase = "level"
  /\ TakerDone \/ Level(MakerSide, at) \subseteq visited
  /\ book' = book \ Level(MakerSide, at)
  /\ levels' = [levels EXCEPT ![MakerSide] = @ \ {at}]
  /\ phase' = "sweep" /\ at' = 0 /\ visited' = {}
  /\ UNCHANGED <<nextId, orders, filled, status, stamp, clock, stopOrders, lastPrice,
                 trades, taker, todo, newTrades, arrived, seedVars>>

CloseLevel ==
  LET dead == {o \in Level(MakerSide, at) : ~IsLive(o)}
      left == Level(MakerSide, at) \ dead
  IN /\ phase = "level"
     /\ TakerDone \/ Level(MakerSide, at) \subseteq visited
     /\ book' = book \ dead
     /\ levels' = [levels EXCEPT ![MakerSide] = IF left = {} THEN @ \ {at} ELSE @]
     /\ phase' = "sweep" /\ at' = 0 /\ visited' = {}
     /\ UNCHANGED <<nextId, orders, filled, status, stamp, clock, stopOrders, lastPrice,
                    trades, taker, todo, newTrades, arrived, seedVars>>

-----------------------------------------------------------------------------
\* Mutant of EmitTrade: only the first trade of a call is kept.
EmitFirstTrade ==
  /\ phase = "emit" /\ newTrades # <<>>
  /\ trades' = <<Head(newTrades)>> \o trades /\ newTrades' = <<>>
  /\ UNCHANGED <<nextId, orders, filled, status, bookVars, stopOrders, lastPrice,
                 phase, taker, todo, at, visited, arrived, seedVars>>

\* One turn of newTrades.forEach: the trade is recorded and the callback runs.
EmitTrade ==
  /\ phase = "emit" /\ newTrades # <<>>
  /\ trades' = <<Head(newTrades)>> \o trades
  /\ newTrades' = Tail(newTrades)
  /\ UNCHANGED <<nextId, orders, filled, status, bookVars, stopOrders, lastPrice,
                 phase, taker, todo, at, visited, arrived, seedVars>>

\* The end of placeOrder; the locals of match() are gone.
Return ==
  /\ phase = "emit" /\ newTrades = <<>>
  /\ phase' = "idle" /\ taker' = 0
  /\ todo' = {} /\ arrived' = 0
  /\ UNCHANGED <<nextId, orders, filled, stopOrders, lastPrice, trades, at, visited,
                 newTrades, seedVars>>

RestRemainder ==
  /\ Return
  /\ IsLive(taker) /\ orders[taker].type # "market"
  /\ Push({taker})
  /\ UNCHANGED status

CloseMarket ==
  /\ Return
  /\ IsLive(taker) /\ orders[taker].type = "market"
  /\ status' = [status EXCEPT ![taker] = IF filled[taker] > 0 THEN "filled" ELSE "cancelled"]
  /\ UNCHANGED bookVars

FinishFilled ==
  /\ Return
  /\ ~IsLive(taker)
  /\ UNCHANGED <<status, bookVars>>

-----------------------------------------------------------------------------
\* cancelOrder and removeFromBook.  The key of the level is written back even
\* when no order is left, or when there was no level at all (a parked stop).
CancelOrder(o) ==
  /\ Idle
  /\ o < nextId /\ IsLive(o)
  /\ status' = [status EXCEPT ![o] = "cancelled"]
  /\ book' = book \ {o}
  /\ levels' = [levels EXCEPT ![orders[o].side] = @ \cup {orders[o].price}]
  /\ UNCHANGED <<nextId, orders, filled, stamp, clock, stopOrders, lastPrice, trades,
                 callVars, seedVars>>

\* seed(): a bid and an ask per level for one trader, then lastPrice.
SeedStart(mid) ==
  /\ Idle
  /\ nextId + 2 * SeedLevels <= MaxOrders + 1
  /\ seedStep' = 1 /\ seedMid' = mid
  /\ UNCHANGED <<nextId, orders, filled, status, bookVars, stopOrders, lastPrice, trades,
                 callVars>>

SeedRequest(step, q) ==
  LET i == (step + 1) \div 2
      s == IF step % 2 = 1 THEN "buy" ELSE "sell"
  IN [side |-> s, type |-> "limit", stopPrice |-> 0, quantity |-> q, trader |-> MarketMaker,
      price |-> IF s = "buy" THEN seedMid - i ELSE seedMid + i]

SeedPlace(q) ==
  /\ phase = "idle" /\ seedStep \in 1..(2 * SeedLevels)
  /\ seedStep % 2 = 0 => q = orders[nextId - 1].quantity  \* one size per level
  /\ StartMatch(SeedRequest(seedStep, q))
  /\ seedStep' = seedStep + 1
  /\ UNCHANGED seedMid

SeedEnd ==
  /\ phase = "idle" /\ seedStep > 2 * SeedLevels
  /\ lastPrice' = seedMid
  /\ seedStep' = 0 /\ seedMid' = 0
  /\ UNCHANGED <<nextId, orders, filled, status, bookVars, stopOrders, trades, callVars>>

-----------------------------------------------------------------------------
\* The steps of a call in progress, and the calls.
MatchStep ==
  \/ EnterLevel \/ EndSweep \/ CloseLevel
  \/ \E m \in Id : SkipMaker(m) \/ Fill(m)
  \/ EmitTrade \/ RestRemainder \/ CloseMarket \/ FinishFilled

SeedStep == SeedEnd \/ \E q \in Quantities : SeedPlace(q)

Call ==
  \/ \E r \in Requests : PlaceOrder(r) \/ PlaceStop(r) \/ PlaceStopThrows(r)
  \/ \E o \in Id : CancelOrder(o)
  \/ \E mid \in SeedMids : SeedStart(mid)

Next == MatchStep \/ SeedStep \/ Call

Spec == Init /\ [][Next]_vars

\* A call runs to completion once it has begun; nobody has to make one.
FairSpec == Spec /\ WF_vars(MatchStep) /\ WF_vars(SeedStep)
-----------------------------------------------------------------------------
(***************************************************************************)
(* Properties.                                                             *)
(***************************************************************************)
TradeRecord == [price: Prices, quantity: Nat \ {0}, side: Side, maker: Id, taker: Id]
OrderRecord == [side: Side, type: OrderType, price: Prices \cup {0, Infinity},
                stopPrice: Prices \cup {0}, quantity: Quantities, trader: Traders]

\* Every variable keeps its shape; the orders below nextId, and no others, exist.
TypeOK ==
  /\ nextId \in 1..(MaxOrders + 1)
  /\ orders \in [Id -> OrderRecord \cup {NoOrder}]
  /\ \A o \in Id : orders[o] = NoOrder <=> o >= nextId
  /\ \A o \in 1..(nextId - 1) : orders[o].type # "market" => orders[o].price \in Prices
  /\ filled \in [Id -> Nat]
  /\ status \in [Id -> {"none", "open", "partial", "filled", "cancelled"}]
  /\ book \in SUBSET (1..(nextId - 1))
  /\ stamp \in [Id -> Nat] /\ clock \in Nat \ {0}
  /\ levels \in [Side -> SUBSET Prices]
  /\ stopOrders \in SUBSET (1..(nextId - 1))
  /\ lastPrice \in Prices \cup {0}
  /\ trades \in Seq(TradeRecord) /\ newTrades \in Seq(TradeRecord)
  /\ phase \in {"idle", "sweep", "level", "emit"}
  /\ taker \in 0..(nextId - 1) /\ (taker = 0 <=> phase = "idle")
  /\ todo \in SUBSET Prices /\ at \in Prices \cup {0}
  /\ visited \in SUBSET book /\ arrived \in Nat
  /\ seedStep \in 0..(2 * SeedLevels + 1) /\ seedMid \in SeedMids \cup {0}
  /\ (seedStep = 0 <=> seedMid = 0)

\* What the trades of a sequence filled of order o.
Traded(s, o) ==
  SumFunctionOnSet([i \in DOMAIN s |-> IF o \in {s[i].maker, s[i].taker} THEN s[i].quantity ELSE 0],
                   DOMAIN s)

\* Order.filled is the sum of the order's trades, over every call that touched it,
\* and each of them is made at the price the maker rested at, which the taker accepts.
FilledIsTraded ==
  /\ \A o \in 1..(nextId - 1) : filled[o] = Traded(newTrades, o) + Traded(trades, o)
  /\ \A s \in {newTrades, trades} : \A i \in DOMAIN s :
       LET t == s[i]
       IN /\ t.price = orders[t.maker].price
          /\ IF t.side = "buy" THEN t.price <= orders[t.taker].price
                               ELSE t.price >= orders[t.taker].price

\* No order is ever filled beyond its quantity, a live order has a remainder, and
\* a limit order is "filled" only when nothing remains.
FillsBounded ==
  \A o \in 1..(nextId - 1) :
    /\ filled[o] <= orders[o].quantity
    /\ IsLive(o) => filled[o] < orders[o].quantity
    /\ status[o] = "open" => filled[o] = 0
    /\ status[o] = "filled" /\ orders[o].type # "market" => filled[o] = orders[o].quantity

\* An order whose call of placeOrder threw.
Orphan(o) == orders[o].type = "stop-limit" /\ orders[o].stopPrice = 0

\* Mutant of LevelQuantity: orders count with all they were placed for.
LevelQuantityWhole(side, p) ==
  SumFunctionOnSet([o \in Id |-> orders[o].quantity],
                   {o \in book : orders[o].side = side /\ orders[o].price = p})
\* getSnapshot: what is left at a price, and that of the first `depth` keys of a
\* side.  The keys are counted before the empty levels are dropped.
LevelQuantity(side, p) ==
  SumFunctionOnSet([o \in Id |-> Remaining(o)],
                   {o \in book : orders[o].side = side /\ orders[o].price = p})
getSnapshot(side, depth) ==
  LET ahead(p) == {x \in levels[side] : IF side = "buy" THEN x > p ELSE x < p}
      shown == {p \in levels[side] : Cardinality(ahead(p)) < depth /\ LevelQuantity(side, p) > 0}
  IN [p \in shown |-> LevelQuantity(side, p)]

\* No live order is lost or held twice between calls: it is in the array of a
\* level whose key is in the Map, or parked; and what the arrays still hold is
\* live, but for stop orders cancelled while parked.
HeldOnce ==
  phase = "idle" =>
    /\ \A o \in 1..(nextId - 1) :
         IsLive(o) => \/ Orphan(o) /\ o \notin book \cup stopOrders
                      \/ ~Orphan(o) /\ (o \in book <=> o \notin stopOrders)
    /\ \A o \in book :
         /\ orders[o].price \in levels[orders[o].side]
         /\ IsLive(o) \/ (status[o] = "cancelled" /\ orders[o].stopPrice # 0)

\* Between calls a snapshot shows, at every price it has room for, what is left of
\* the live orders that are not parked, and beyond that only what is left of stop
\* orders that were cancelled before they were activated.
SnapshotTells ==
  phase = "idle" => \A side \in Side, depth \in 1..3 :
    LET snap == getSnapshot(side, depth)
        open == {o \in 1..(nextId - 1) \ stopOrders :
                   orders[o].side = side /\ IsLive(o) /\ ~Orphan(o)}
        phantom == {o \in book : orders[o].side = side /\ ~IsLive(o)}
        At(S, p) == SumFunctionOnSet([o \in Id |-> orders[o].quantity - filled[o]],
                                     {o \in S : orders[o].price = p})
    IN /\ \A p \in DOMAIN snap : snap[p] = At(open \cup phantom, p)
       /\ Cardinality(levels[side]) <= depth => {orders[o].price : o \in open} \subseteq DOMAIN snap

\* Nothing of an order is lost: what is filled was traded, what is left is held
\* once, and the snapshot tells it.
NothingLost == FilledIsTraded /\ HeldOnce /\ SnapshotTells

\* Two orders of different traders that would trade with each other never both
\* rest, unless one of them entered the book as a triggered stop order.
Crossing(b, a) ==
  /\ orders[b].side = "buy" /\ orders[a].side = "sell"
  /\ orders[b].price >= orders[a].price
  /\ orders[b].trader # orders[a].trader
BookUncrossed ==
  \A b, a \in book : Crossing(b, a) /\ IsLive(b) /\ IsLive(a) =>
                       orders[b].stopPrice # 0 \/ orders[a].stopPrice # 0

\* x stands before m in the queue that the running taker has to serve.
Precedes(x, m) ==
  /\ orders[x].side = orders[m].side
  /\ \/ Better(orders[taker].side, orders[x].price, orders[m].price)
     \/ orders[x].price = orders[m].price /\ Before(x, m)
FilledMaker == newTrades'[Len(newTrades')].maker
IsFill == Len(newTrades') > Len(newTrades)

\* A fill goes to the best price, and within it to the earliest arrival, of all
\* the makers the taker may trade with.
PriceTimePriority ==
  [][IsFill => \A x \in book : Eligible(x) => ~Precedes(x, FilledMaker)]_vars

\* The same for the makers that were in the book when the taker arrived: no
\* stop order that is activated on the way can put them off.
ArrivedPriority ==
  [][IsFill => \A x \in book : Eligible(x) /\ stamp[x] < arrived
                                => ~Precedes(x, FilledMaker)]_vars

TheMarket == INSTANCE Market WITH
  terms <- [o \in 1..(nextId - 1) |-> [side |-> orders[o].side, price |-> orders[o].price,
                                       quantity |-> orders[o].quantity]],
  filled <- [o \in 1..(nextId - 1) |-> filled[o]],
  live <- {o \in 1..(nextId - 1) : IsLive(o)}

\* The engine is a market: whatever is parked, activated, swept or cancelled on the
\* way, an order keeps its terms, trades only within its limit and its quantity, and
\* never again once it was filled or cancelled, even if it was cancelled while
\* parked and reaches the book later.
ImplementsMarket == TheMarket!Spec

\* Every call returns: the walk over an array that grows while it is walked ends.
CallsReturn == phase # "idle" ~> phase = "idle"

-----------------------------------------------------------------------------
(***************************************************************************)
(* The invariant behind BookUncrossed and ArrivedPriority: what a sweep in *)
(* progress has already dealt with.                                        *)
(***************************************************************************)
\* What rests is a limit order with a push time, under a key of its Map.
BookInv ==
  /\ \A o \in book : /\ orders[o].type = "limit" /\ orders[o].price \in levels[orders[o].side]
                     /\ stamp[o] < clock
  /\ \A o \in stopOrders : orders[o].type = "stop-limit" /\ orders[o].stopPrice # 0
                          /\ o \notin book

\* The taker is not in the book, and what was pushed since it arrived is a stop.
\* Only the taker can be a live market order.
TakerInv ==
  /\ phase # "idle" =>
       /\ taker \notin book \cup stopOrders /\ orders[taker].type \in {"limit", "market"}
       /\ status[taker] \in Live \cup {"filled"}
       /\ status[taker] = "filled" => filled[taker] = orders[taker].quantity
       /\ arrived <= clock
       /\ \A o \in book : stamp[o] >= arrived => orders[o].stopPrice # 0
  /\ \A o \in 1..(nextId - 1) : IsLive(o) /\ orders[o].type = "market" => o = taker

\* A maker the taker still owes a visit.
Owed(x) == /\ x \in book /\ orders[x].side = MakerSide
           /\ Eligible(x) /\ stamp[x] < arrived

\* Prices are visited from the best on; the makers owed a visit are ahead.
SweepInv ==
  /\ phase = "sweep" => \A x \in book : Owed(x) => TakerDone \/ orders[x].price \in todo
  /\ phase = "level" =>
       /\ at \in Prices /\ CanMatch(taker, at)
       /\ \A p \in todo : Better(orders[taker].side, at, p)
       /\ \A x \in visited : Eligible(x) => TakerDone
       /\ \A x \in book : Owed(x) => TakerDone \/ orders[x].price \in todo \cup {at}
  /\ phase = "emit" => \A x \in book : Owed(x) => TakerDone \/ ~CanMatch(taker, orders[x].price)
  /\ phase # "level" => visited = {}

EngineInv == TypeOK /\ FillsBounded /\ BookInv /\ TakerInv /\ SweepInv /\ BookUncrossed

-----------------------------------------------------------------------------
\* getBestBid: the first key of the Map, 0 when it has none.
GetBestBid == IF levels["buy"] = {} THEN 0 ELSE Max(levels["buy"])

\* The best bid is the highest price some live buy order rests at.
BestBidIsHighestBid ==
  phase = "idle" =>
    GetBestBid = Max({0} \cup {orders[o].price : o \in {x \in book : orders[x].side = "buy"
                                                                     /\ IsLive(x)}})
=============================================================================
