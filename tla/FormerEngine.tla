---------------------------- MODULE FormerEngine ----------------------------
(***************************************************************************)
(* The engine inside the Next.js server, which the API has replaced but    *)
(* whose routes are still there: lib/engine/orderbook.ts, with the bot and *)
(* the candles of lib/engine/simulation.ts, whose text is that of the      *)
(* API's simulation.                                                       *)
(*                                                                         *)
(* There are no stop orders, and an order may meet one of its own trader.  *)
(* A call of placeOrder is a run of fills; other calls wait for its end.   *)
(* The arrays of a level are in the order of the ids; a key of the Maps    *)
(* can outlive its last order, and the bot takes its prices from the keys. *)
(* The pool, lib/engine/amm.ts, computes what that of the API does, but    *)
(* nobody's shares are remembered and none can be removed.                 *)
(***************************************************************************)
EXTENDS Simulation, ApiAmm

CONSTANTS
  Users, Prices, Quantities, \* what the order route is called with
  Offsets,       \* how far from the middle the bot's limits are
  Infinity,      \* the price of a market buy
  Grain,         \* the pool's unit is so many of the book's
  SeedMid, SeedQuantities, \* what the constructor seeds: one level of the book
  MaxPlaced,     \* bound: orders
  MaxPoolCalls   \* bound: swaps and deposits beside the order route

ASSUME FormerAssumption ==
  /\ "bot" \notin Users /\ Prices \subseteq Nat /\ Quantities \subseteq Nat /\ Offsets \subseteq Nat
  /\ SeedMid > 1 /\ SeedMid = InitialPrice /\ SeedQuantities \subseteq Nat \ {0}
  /\ Infinity \in Nat /\ SeedMid + 1 < Infinity /\ \A p \in Prices : p < Infinity
  /\ Grain \in Nat \ {0} /\ MaxPoolCalls \in Nat

VARIABLES
  orders, filled, status,  \* orders, by id
  book,        \* what the arrays of bids and asks hold
  levels,      \* keys of the Maps, by side
  lastPrice,
  taker, newTrades, \* the call of placeOrder that runs, 0 for none
  formerReserve, formerLiquidity, \* the pool
  ammFill,     \* the last market order of the route and what the pool added
  poolCalls    \* so far

bookVars == <<orders, filled, status, book, levels, lastPrice, taker, newTrades>>
poolVars == <<formerReserve, formerLiquidity, ammFill, poolCalls>>
formerVars == <<bookVars, poolVars>>

\* The formulas of the pool.
Pool == INSTANCE ApiAmm WITH
  reserve <- formerReserve, totalLiquidity <- formerLiquidity, lastFill <- ammFill

Other(side) == IF side = "buy" THEN "sell" ELSE "buy"
Live(o) == status[o] \in {"open", "partial"}
Complete == filled[taker] = orders[taker].quantity

\* initCandle takes the last price, which is that of the seed.
initCandle == SimulationInit

\* The constructor of the pool.
FormerPoolInit ==
  /\ formerReserve = [t \in Tokens |-> IF t = "A" THEN InitialA ELSE InitialB]
  /\ formerLiquidity = SquareRoot(InitialA ** InitialB)
  /\ ammFill = NoFill /\ poolCalls = 0

\* The constructor of the simulation seeds a bid and an ask.
FormerInit ==
  /\ initCandle /\ FormerPoolInit
  /\ \E q \in SeedQuantities :
       orders = [o \in 1..2 |->
         [side |-> IF o = 1 THEN "buy" ELSE "sell", type |-> "limit", quantity |-> q,
          price |-> IF o = 1 THEN SeedMid - 1 ELSE SeedMid + 1, trader |-> "market-maker"]]
  /\ filled = <<0, 0>> /\ status = <<"open", "open">>
  /\ book = {1, 2} /\ levels = [s \in {"buy", "sell"} |-> {orders[IF s = "buy" THEN 1 ELSE 2].price}]
  /\ lastPrice = SeedMid
  /\ taker = 0 /\ newTrades = <<>>

\* placeOrder begins: the order exists, and is open.
PlaceOrder(side, type, price, quantity, trader) ==
  /\ taker = 0 /\ Len(orders) < MaxPlaced
  /\ orders' = Append(orders, [side |-> side, type |-> type, quantity |-> quantity,
       price |-> IF type = "limit" THEN price ELSE IF side = "buy" THEN Infinity ELSE 0,
       trader |-> trader])
  /\ filled' = Append(filled, 0) /\ status' = Append(status, "open")
  /\ taker' = Len(orders) + 1
  /\ UNCHANGED <<book, levels, lastPrice, newTrades, poolVars, simVars>>

\* POST of the order route.
UserOrder(side, type, price, quantity, user) ==
  /\ quantity > 0 /\ (type = "limit" => price > 0)
  /\ PlaceOrder(side, type, price, quantity, user)

\* getMidPrice, from the keys of the Maps.
BestBid == IF levels["buy"] = {} THEN 0 ELSE Max(levels["buy"])
BestAsk == IF levels["sell"] = {} THEN 0 ELSE Min(levels["sell"])
\* Twice the middle: between two cents there are halves.
MidTwice ==
  LET mid == IF BestBid # 0 /\ BestAsk # 0 THEN BestBid + BestAsk ELSE 2 * (BestBid + BestAsk)
  IN IF mid # 0 THEN mid ELSE 2 * InitialPrice

\* toFixed(2), of n half cents: a half goes away from zero.
Cents(n) == SignOf(n) * ((Abs(n) + 1) \div 2)

\* A tick of the simulation: a market order, or a limit order near the middle; a bid
\* may come to lie at zero or below.
BotOrder(side, type, offset, quantity) ==
  PlaceOrder(side, type, Cents(IF side = "buy" THEN MidTwice - 2 * offset ELSE MidTwice + 2 * offset),
             quantity, "bot")

\* Mutant of LevelQuantity: a level counts by its key.
LevelQuantityKey(side, p) == 1
\* getSnapshot: what is left at a price, and the first `depth` keys of a side that
\* have something left.
LevelQuantity(side, p) ==
  SumFunctionOnSet([o \in book |-> orders[o].quantity - filled[o]],
                   {o \in book : orders[o].side = side /\ orders[o].price = p})
getSnapshot(side, depth) ==
  LET ahead(p) == {x \in levels[side] : IF side = "buy" THEN x > p ELSE x < p}
  IN {p \in levels[side] : Cardinality(ahead(p)) < depth /\ LevelQuantity(side, p) > 0}

\* Mutant of Spread: a price that is not positive counts.
SpreadUnguarded(bid, ask) == ask - bid
Spread(bid, ask) == IF ask > 0 /\ bid > 0 THEN ask - bid ELSE 0

\* The point a tick records, when both first levels show: its time, its percentage
\* and its middle price are left out.
SpreadPoints ==
  {[spread |-> Spread(bid, ask)] : bid \in getSnapshot("buy", 1), ask \in getSnapshot("sell", 1)}

\* executeSwap.
executeSwap(amountIn, t) ==
  /\ formerReserve' = Pool!Swapped(amountIn, t)
  /\ UNCHANGED formerLiquidity

PoolCall == taker = 0 /\ poolCalls < MaxPoolCalls /\ poolCalls' = poolCalls + 1

\* POST of the swap route; a dry run changes nothing.
FormerSwap(amountIn, t) ==
  /\ PoolCall /\ Zero \prec amountIn
  /\ executeSwap(amountIn, t)
  /\ UNCHANGED <<bookVars, ammFill, simVars>>

\* addLiquidity: the reserves grow by what fits their ratio.
addLiquidity(a, b) ==
  /\ formerReserve' = [t \in Tokens |-> formerReserve[t] ++ Pool!Actual(a, b)[IF t = "A" THEN 1 ELSE 2]]
  /\ formerLiquidity' = formerLiquidity ++ Pool!SharesIssued(a, b)

\* POST of the liquidity route.
FormerDeposit(a, b) ==
  /\ PoolCall /\ Zero \prec a /\ Zero \prec b
  /\ addLiquidity(a, b)
  /\ UNCHANGED <<bookVars, ammFill, simVars>>

\* A tick without an order: something is swapped, or nothing happens.
IdleTick ==
  /\ \/ PoolCall /\ \E a \in Swaps, t \in Tokens : Zero \prec a /\ executeSwap(a, t)
     \/ taker = 0 /\ UNCHANGED <<formerReserve, formerLiquidity, poolCalls>>
  /\ RecordSpread(SpreadPoints)
  /\ UNCHANGED <<bookVars, ammFill, minute, candles, currentCandle, told>>

\* The level of the opposite side the taker's limit reaches.
canMatch(p) == IF orders[taker].side = "buy" THEN p <= orders[taker].price
                                             ELSE p >= orders[taker].price
Better(p, q) == IF orders[taker].side = "buy" THEN p < q ELSE p > q

\* The makers match() has before it, under the keys of the other side, and the
\* one it comes to first.
Makers == {m \in book : /\ orders[m].side = Other(orders[taker].side)
                        /\ orders[m].price \in levels[orders[m].side] /\ canMatch(orders[m].price)}
Ahead(x, m) == Better(orders[x].price, orders[m].price)
               \/ (orders[x].price = orders[m].price /\ x < m)
Reached(m) == m \in Makers /\ \A x \in Makers \ {m} : Ahead(m, x)

\* Mutant of FillQty: the taker's whole quantity is taken again and again.
FillQtyWhole(m) == Min({orders[m].quantity - filled[m], orders[taker].quantity})
FillQty(m) == Min({orders[m].quantity - filled[m], orders[taker].quantity - filled[taker]})
After(o, q) == IF filled[o] + q >= orders[o].quantity THEN "filled" ELSE "partial"

\* One maker of match().  A level that is left empty loses its key, and so did
\* the empty levels before it.
Fill(m) ==
  LET q == FillQty(m)
      p == orders[m].price
      side == orders[m].side
      left == IF After(m, q) = "filled" THEN book \ {m} ELSE book
  IN /\ taker # 0 /\ ~Complete /\ Reached(m)
     /\ filled' = [filled EXCEPT ![m] = @ + q, ![taker] = @ + q]
     /\ status' = [status EXCEPT ![m] = After(m, q), ![taker] = After(taker, q)]
     /\ book' = left
     /\ levels' = [levels EXCEPT ![side] =
          {x \in @ : ~Better(x, p) /\ (x # p \/ \E o \in left : orders[o].side = side
                                                                  /\ orders[o].price = p)}]
     /\ lastPrice' = p
     /\ newTrades' = Append(newTrades, [price |-> p, quantity |-> q, maker |-> m, taker |-> taker])
     /\ UNCHANGED <<orders, taker, poolVars, simVars>>

\* updateCandle, for the trades of a market order.
updateCandle == UpdateCandles(newTrades)

\* The rest of the bot's tick, once placeOrder has returned: a market order feeds
\* the candles, and the spread is recorded.
TickEnds ==
  /\ IF orders[taker].type = "market" THEN updateCandle
     ELSE UNCHANGED <<minute, candles, currentCandle, told>>
  /\ RecordSpread(SpreadPoints')

\* Mutant of RouteRemainder: what is swapped is the whole order.
RouteWhole(o) ==
  /\ executeSwap(Pool!PoolIn([o EXCEPT !.filled = Zero]), IF o.side = "buy" THEN "B" ELSE "A")
  /\ ammFill' = [side |-> o.side, quantity |-> o.quantity, filled |-> o.filled,
                 fromPool |-> Pool!PoolFill([o EXCEPT !.filled = Zero])]
\* The order route: what the book leaves of a market order goes to the pool, rounded.
RouteRemainder(o) ==
  /\ executeSwap(Pool!PoolIn(o), IF o.side = "buy" THEN "B" ELSE "A")
  /\ ammFill' = [side |-> o.side, quantity |-> o.quantity, filled |-> o.filled,
                 fromPool |-> Pool!PoolFill(o)]

\* The end of match(), of placeOrder and of its caller.
Return ==
  LET side == orders[taker].side
      rests == Live(taker) /\ orders[taker].type = "limit"
      swept == IF Complete THEN {} ELSE {p \in levels[Other(side)] : canMatch(p)}
  IN /\ taker # 0 /\ (Complete \/ Makers = {})
     /\ book' = IF rests THEN book \cup {taker} ELSE book
     /\ levels' = [levels EXCEPT ![Other(side)] = @ \ swept,
                                 ![side] = IF rests THEN @ \cup {orders[taker].price} ELSE @]
     /\ status' = [status EXCEPT ![taker] =
          IF ~Live(taker) \/ rests THEN @ ELSE IF filled[taker] > 0 THEN "filled" ELSE "cancelled"]
     /\ taker' = 0 /\ newTrades' = <<>>
     /\ UNCHANGED <<orders, filled, lastPrice>>
     /\ IF orders[taker].trader = "bot" THEN TickEnds ELSE UNCHANGED simVars
     /\ IF orders[taker].trader # "bot" /\ orders[taker].type = "market" /\ ~Complete
        THEN RouteRemainder([side |-> side, quantity |-> Frac(orders[taker].quantity, Grain),
                             filled |-> Frac(filled[taker], Grain)])
        ELSE UNCHANGED <<formerReserve, formerLiquidity, ammFill>>
     /\ UNCHANGED poolCalls

\* The key of the level is written back, with what is left of it.
removeFromBook(o) ==
  book' = book \ {o} /\ levels' = [levels EXCEPT ![orders[o].side] = @ \cup {orders[o].price}]

CancelOrder(o) ==
  /\ taker = 0 /\ Live(o)
  /\ status' = [status EXCEPT ![o] = "cancelled"]
  /\ removeFromBook(o)
  /\ UNCHANGED <<orders, filled, lastPrice, taker, newTrades, poolVars, simVars>>

\* DELETE of the order route, of any order; and of the route of one order, whose
\* trader is to be named.
DeleteOrder(o) == CancelOrder(o)
DeleteOwnOrder(o, trader) == orders[o].trader = trader /\ CancelOrder(o)

FormerNext ==
  \/ \E side \in {"buy", "sell"}, type \in {"limit", "market"}, q \in Quantities :
       \/ \E p \in Prices, u \in Users : UserOrder(side, type, p, q, u)
       \/ q > 0 /\ \E x \in Offsets : BotOrder(side, type, x, q)
  \/ \E m \in DOMAIN orders : Fill(m) \/ DeleteOrder(m) \/ \E u \in Users : DeleteOwnOrder(m, u)
  \/ Return \/ IdleTick
  \/ \E a \in Swaps, t \in Tokens : FormerSwap(a, t)
  \/ \E d \in Deposits : FormerDeposit(d[1], d[2])
  \/ MinutePasses /\ UNCHANGED formerVars

FormerSpec == FormerInit /\ [][FormerNext]_<<formerVars, simVars>>
-----------------------------------------------------------------------------
TheMarket == INSTANCE Market WITH
  terms <- orders, filled <- filled, live <- {o \in DOMAIN orders : Live(o)}

\* The former engine is a market: no order is changed, filled beyond its quantity
\* or beyond its limit, or traded again once it was filled or cancelled.
FormerImplementsMarket == TheMarket!Spec

\* The spread a tick records is that of the best live bid and the best live ask,
\* whatever keys cancellations have left behind: positive as long as both are, and 0
\* once the bot's bids have gone down to zero (getSnapshot, removeFromBook, the end
\* of a tick).
LivePrices(side) == {orders[o].price : o \in {o \in DOMAIN orders : Live(o) /\ orders[o].side = side}}
SpreadsAreReal ==
  [][spreadHistory' # spreadHistory =>
       /\ LivePrices("sell")' # {} /\ LivePrices("buy")' # {}
       /\ LET spread == spreadHistory'[Len(spreadHistory')].spread
              bid == Max(LivePrices("buy")')
              ask == Min(LivePrices("sell")')
          IN IF bid > 0 /\ ask > 0 THEN spread > 0 /\ spread = ask - bid ELSE spread = 0
    ]_<<formerVars, simVars>>

\* What the former engine shows and answers is sound: the spreads are real, book
\* and pool together give a market order no more than it asks for and what its
\* amounts were rounded up by, and no swap or deposit takes value from the shares
\* there are (getSnapshot, the order route,
\* executeSwap, addLiquidity).
FormerAnswers == SpreadsAreReal /\ Pool!NeverOverfilled /\ Pool!PoolIsFair
=============================================================================
