------------------------ MODULE MatchingEngine_proofs ------------------------
(***************************************************************************)
(* Proofs about MatchingEngine for every set of traders, prices, sizes and *)
(* requests.                                                               *)
(***************************************************************************)
EXTENDS MatchingEngine, Library_proofs, TLAPS

\* What the constants give, in the form the steps below need.
LEMMA Constants ==
  /\ \A p \in Prices : p \in Nat /\ p > 0 /\ p < Infinity
  /\ \A q \in Quantities : q \in Nat /\ q > 0
  /\ MaxOrders \in Nat /\ Infinity \in Nat /\ SeedLevels \in Nat
  /\ MarketMaker \in Traders /\ Requests \subseteq Request
  /\ \A mid \in SeedMids : mid \in Prices
  BY EngineAssumption

\* A seeding in progress asks for prices the engine trades at.
LEMMA SeedRequestType ==
  ASSUME TypeOK, NEW q \in Quantities, seedMid \in SeedMids, seedStep \in 1..(2 * SeedLevels)
  PROVE  SeedRequest(seedStep, q) \in Request
  <1> DEFINE i == (seedStep + 1) \div 2
  <1>1. i \in 1..SeedLevels
    BY EngineAssumption
  <1>2. {seedMid - i, seedMid + i} \subseteq Prices
    BY <1>1, EngineAssumption
  <1>3. QED
    BY <1>2, EngineAssumption DEF SeedRequest, Request, Side, OrderType

\* The new order is well formed, and nothing is known of it yet: the other orders,
\* and the bounds on their fills, stay.
LEMMA RecordInv ==
  ASSUME EngineInv, NEW r \in Request, Record(r), phase = "idle"
  PROVE  /\ nextId \in Id /\ nextId' = nextId + 1 /\ nextId' \in 1..(MaxOrders + 1)
         /\ nextId \notin book \cup stopOrders /\ book \cup stopOrders \subseteq Id
         /\ orders' \in [Id -> OrderRecord \cup {NoOrder}]
         /\ \A o \in Id : orders'[o] = NoOrder <=> o >= nextId'
         /\ \A o \in 1..(nextId' - 1) : orders'[o].type # "market" => orders'[o].price \in Prices
         /\ filled' \in [Id -> Nat]
         /\ status' \in [Id -> {"none", "open", "partial", "filled", "cancelled"}]
         /\ \A o \in 1..(nextId' - 1) : o \in Id /\ (o \in 1..(nextId - 1) \/ o = nextId)
         /\ \A o \in 1..(nextId - 1) : /\ o \in Id /\ o # nextId /\ orders'[o] = orders[o]
                                       /\ status'[o] = status[o] /\ filled'[o] = filled[o]
         /\ 1..(nextId - 1) \subseteq 1..(nextId' - 1) /\ book \cup stopOrders \subseteq 1..(nextId - 1)
         /\ orders'[nextId].type = r.type /\ orders'[nextId].side = r.side
         /\ orders'[nextId].stopPrice = r.stopPrice
         /\ status'[nextId] = "open" /\ filled'[nextId] = 0
         /\ FillsBounded'
  <1> USE DEF EngineInv
  <1> DEFINE rec == Order(r, r.type, PriceOf(r))
  <1>1. /\ nextId \in Id /\ nextId' = nextId + 1 /\ nextId' \in 1..(MaxOrders + 1)
    BY Constants DEF Record, TypeOK, Id
  <1>2. nextId \notin book \cup stopOrders /\ book \cup stopOrders \subseteq Id
    BY <1>1, Constants DEF TypeOK, Id
  <1>3. /\ PriceOf(r) \in Prices \cup {0, Infinity}
        /\ r.type # "market" => PriceOf(r) \in Prices
    BY DEF PriceOf, Request
  <1>4. /\ rec \in OrderRecord /\ rec.side = r.side /\ rec.type = r.type
        /\ rec.type # "market" => rec.price \in Prices
        /\ rec.stopPrice = r.stopPrice
    BY <1>3 DEF Request, OrderRecord, Order
  <1>5. /\ orders' = [orders EXCEPT ![nextId] = rec]
        /\ filled' = [filled EXCEPT ![nextId] = 0] /\ status' = [status EXCEPT ![nextId] = "open"]
    BY DEF Record
  <1>6. /\ orders'[nextId] = rec /\ filled'[nextId] = 0 /\ status'[nextId] = "open"
        /\ \A o \in Id : o # nextId => /\ orders'[o] = orders[o] /\ filled'[o] = filled[o]
                                       /\ status'[o] = status[o]
    BY <1>1, <1>5 DEF TypeOK
  <1>7. /\ orders' \in [Id -> OrderRecord \cup {NoOrder}] /\ filled' \in [Id -> Nat]
        /\ status' \in [Id -> {"none", "open", "partial", "filled", "cancelled"}]
    BY <1>1, <1>4, <1>5 DEF TypeOK
  <1>8. \A o \in Id : orders'[o] = NoOrder <=> o >= nextId'
    <2>1. orders'[nextId] # NoOrder
      BY <1>4, <1>6 DEF NoOrder, OrderRecord, OrderType
    <2>2. \A o \in Id : o # nextId => (o >= nextId <=> o >= nextId + 1)
      BY <1>1, Constants DEF Id
    <2>3. ~(nextId >= nextId + 1)
      BY <1>1, Constants DEF Id
    <2>4. \A o \in Id : orders[o] = NoOrder <=> o >= nextId
      BY DEF TypeOK
    <2>5. QED
      BY <1>1, <1>6, <2>1, <2>2, <2>3, <2>4
  <1>9. /\ \A o \in 1..(nextId' - 1) : o \in Id /\ (o \in 1..(nextId - 1) \/ o = nextId)
        /\ \A o \in 1..(nextId - 1) : o \in Id /\ o # nextId
        /\ 1..(nextId - 1) \subseteq 1..(nextId' - 1)
    BY <1>1, Constants DEF Id
  <1>10. \A o \in 1..(nextId' - 1) : orders'[o].type # "market" => orders'[o].price \in Prices
    BY <1>4, <1>6, <1>9 DEF TypeOK
  <1>11. FillsBounded'
    <2>1. 0 < orders'[nextId].quantity /\ orders'[nextId].quantity \in Nat
      BY <1>4, <1>6, Constants DEF OrderRecord
    <2>2. QED
      BY <1>6, <1>9, <2>1 DEF FillsBounded, IsLive
  <1>12. book \cup stopOrders \subseteq 1..(nextId - 1)
    BY DEF TypeOK
  <1>13. QED
    BY <1>1, <1>2, <1>4, <1>6, <1>7, <1>8, <1>9, <1>10, <1>11, <1>12

-----------------------------------------------------------------------------
\* The inductive invariant holds of an empty book.
THEOREM InitInv == Init => EngineInv
  <1> SUFFICES ASSUME Init PROVE EngineInv
    OBVIOUS
  <1>1. TypeOK
    BY Constants DEF Init, TypeOK, Id, NoOrder, Side, OrderRecord, OrderType
  <1>2. QED
    BY <1>1 DEF Init, EngineInv, FillsBounded, BookInv, TakerInv, SweepInv, BookUncrossed

\* Starting a match: nothing rests that did not rest before, and every maker in
\* the book has its price in the snapshot.
LEMMA StartMatchInv ==
  ASSUME EngineInv, NEW r \in Request, r.type # "stop-limit", StartMatch(r), phase = "idle",
         seedStep' \in 0..(2 * SeedLevels + 1), seedMid' \in SeedMids \cup {0},
         seedStep' = 0 <=> seedMid' = 0
  PROVE  EngineInv'
  <1> USE DEF EngineInv
  <1>1. Record(r)
    BY DEF StartMatch
  <1>2. /\ phase' = "sweep" /\ taker' = nextId /\ arrived' = clock
        /\ todo' = levels[Opposite(r.side)]
        /\ UNCHANGED <<book, stamp, clock, levels, stopOrders, lastPrice, trades, at, visited,
                       newTrades>>
    BY DEF StartMatch, bookVars
  <1>3. TypeOK'
    <2>1. /\ book' \in SUBSET (1..(nextId' - 1)) /\ stopOrders' \in SUBSET (1..(nextId' - 1))
          /\ taker' \in 0..(nextId' - 1) /\ (taker' = 0 <=> phase' = "idle")
      BY <1>1, <1>2, RecordInv, Constants DEF Id
    <2>2. todo' \in SUBSET Prices
      BY <1>2 DEF TypeOK, Opposite, Side
    <2>3. QED
      BY <1>1, <1>2, <2>1, <2>2, RecordInv DEF TypeOK
  <1>4. \A o \in book \cup stopOrders : /\ orders'[o] = orders[o] /\ stamp'[o] = stamp[o]
                                        /\ status'[o] = status[o]
    BY <1>1, <1>2, RecordInv
  <1>5. BookInv'
    BY <1>2, <1>4 DEF BookInv
  <1>6. TakerInv'
    <2>1. /\ taker' \notin book' \cup stopOrders' /\ status'[taker'] = "open" /\ "open" \in Live
          /\ orders'[taker'].type \in {"limit", "market"} /\ arrived' <= clock'
      BY <1>1, <1>2, RecordInv DEF TypeOK, Live, Request, OrderType
    <2>2. \A o \in book' : ~(stamp'[o] >= arrived')
      BY <1>1, <1>2, <1>4, RecordInv DEF BookInv, TypeOK
    <2>3. \A o \in 1..(nextId - 1) : ~(IsLive(o) /\ orders[o].type = "market")
      BY <1>1, RecordInv DEF TypeOK, TakerInv, Id
    <2>4. \A o \in 1..(nextId' - 1) : IsLive(o)' /\ orders'[o].type = "market" => o = taker'
      BY <1>1, <1>2, <2>3, RecordInv DEF IsLive
    <2>5. QED
      BY <2>1, <2>2, <2>4 DEF TakerInv
  <1>7. SweepInv'
    <2>1. \A x \in book' : Owed(x)' => orders'[x].price \in todo'
      BY <1>1, <1>2, <1>4, RecordInv DEF Owed, MakerSide, BookInv
    <2>2. visited' = {}
      BY <1>2 DEF SweepInv
    <2>3. QED
      BY <1>2, <2>1, <2>2 DEF SweepInv
  <1>8. BookUncrossed'
    BY <1>2, <1>4 DEF BookUncrossed, Crossing, IsLive
  <1>9. QED
    BY <1>1, <1>3, <1>5, <1>6, <1>7, <1>8, RecordInv

\* A stop order is parked, or forgotten when its call throws; the book stays.
LEMMA ParkInv ==
  ASSUME EngineInv, NEW r \in Request, PlaceStop(r) \/ PlaceStopThrows(r)
  PROVE  EngineInv'
  <1> USE DEF EngineInv
  <1>1. /\ Record(r) /\ phase = "idle" /\ r.type = "stop-limit"
        /\ UNCHANGED <<book, stamp, clock, levels, lastPrice, trades, phase, taker, todo, at,
                       visited, newTrades, arrived, seedStep, seedMid>>
        /\ \/ stopOrders' = stopOrders
           \/ stopOrders' = stopOrders \cup {nextId} /\ r.stopPrice # 0
    BY DEF PlaceStop, PlaceStopThrows, Idle, bookVars, callVars, seedVars
  <1>2. TypeOK'
    <2>1. book' \in SUBSET (1..(nextId' - 1)) /\ stopOrders' \in SUBSET (1..(nextId' - 1))
      BY <1>1, RecordInv, Constants DEF Id
    <2>2. taker' = 0 /\ taker' \in 0..(nextId' - 1)
      <3>1. taker' = 0
        BY <1>1 DEF TypeOK
      <3>2. nextId' = nextId + 1 /\ nextId \in Nat
        BY <1>1, RecordInv DEF Id
      <3>3. 0 \in 0..(nextId' - 1)
        BY <3>2
      <3>4. QED
        BY <3>1, <3>3
    <2>3. QED
      BY <1>1, <2>1, <2>2, RecordInv DEF TypeOK
  <1>3. \A o \in book \cup stopOrders : /\ orders'[o] = orders[o] /\ stamp'[o] = stamp[o]
                                        /\ status'[o] = status[o]
    BY <1>1, RecordInv
  <1>4. BookInv'
    BY <1>1, <1>3, RecordInv DEF BookInv
  <1>5. TakerInv' /\ SweepInv'
    BY <1>1, RecordInv DEF TakerInv, SweepInv, IsLive
  <1>6. BookUncrossed'
    BY <1>1, <1>3 DEF BookUncrossed, Crossing, IsLive
  <1>7. QED
    BY <1>1, <1>2, <1>4, <1>5, <1>6, RecordInv

-----------------------------------------------------------------------------
\* The running taker is an order that exists.
LEMMA TakerExists ==
  ASSUME TypeOK, phase # "idle"
  PROVE  /\ taker \in 1..(nextId - 1) /\ taker \in Id /\ orders[taker] \in OrderRecord
         /\ orders[taker].side \in Side /\ MakerSide \in Side
         /\ orders[taker].quantity \in Nat /\ filled[taker] \in Nat
         /\ orders[taker].price \in Nat
  <1>1. taker \in 1..(nextId - 1) /\ taker \in Id
    BY Constants DEF TypeOK, Id
  <1>2. orders[taker] # NoOrder
    BY <1>1 DEF TypeOK
  <1>3. orders[taker] \in OrderRecord
    BY <1>1, <1>2 DEF TypeOK
  <1>4. QED
    BY <1>1, <1>3, Constants DEF TypeOK, OrderRecord, MakerSide, Opposite, Side

\* The orders in the book exist.
LEMMA BookOrders ==
  ASSUME TypeOK, NEW o \in 1..(nextId - 1)
  PROVE  /\ o \in Id /\ orders[o] \in OrderRecord /\ orders[o].side \in Side
         /\ orders[o].quantity \in Nat /\ filled[o] \in Nat /\ orders[o].price \in Nat
         /\ orders[o].stopPrice \in Nat /\ stamp[o] \in Nat
  <1>1. o \in Id /\ orders[o] # NoOrder
    BY Constants DEF TypeOK, Id
  <1>2. orders[o] \in OrderRecord
    BY <1>1 DEF TypeOK
  <1>3. QED
    BY <1>1, <1>2, Constants DEF TypeOK, OrderRecord

\* Entering a level: it is better than every price still to be visited.
LEMMA EnterLevelInv ==
  ASSUME EngineInv, EnterLevel
  PROVE  EngineInv'
  <1> USE DEF EngineInv
  <1>1. PICK p \in todo : IsFirst(p, todo) /\ CanMatch(taker, p) /\ at' = p /\ todo' = todo \ {p}
    BY DEF EnterLevel
  <1>2. /\ phase = "sweep" /\ phase' = "level"
        /\ UNCHANGED <<nextId, orders, filled, status, book, stamp, clock, levels, stopOrders,
              lastPrice, trades, taker, visited, newTrades, arrived, seedStep, seedMid>>
    BY DEF EnterLevel, bookVars, seedVars
  <1>3. TypeOK'
    BY <1>1, <1>2 DEF TypeOK
  <1>4. FillsBounded' /\ BookInv' /\ TakerInv' /\ BookUncrossed'
    BY <1>2 DEF FillsBounded, BookInv, TakerInv, BookUncrossed, IsLive, Crossing
  <1>5. at' \in Prices /\ CanMatch(taker, at)' /\ visited' = {}
    BY <1>1, <1>2 DEF TypeOK, SweepInv, CanMatch
  <1>6. \A q \in todo' : Better(orders[taker].side, at, q)'
    <2>1. \A q \in todo : q \in Nat
      BY Constants DEF TypeOK
    <2>2. QED
      BY <1>1, <1>2, <2>1 DEF IsFirst, Better
  <1>7. \A x \in book' : Owed(x)' => TakerDone' \/ orders'[x].price \in todo' \cup {at'}
    BY <1>1, <1>2 DEF SweepInv, Owed, Eligible, IsLive, MakerSide, TakerDone
  <1>8. SweepInv'
    BY <1>2, <1>5, <1>6, <1>7 DEF SweepInv
  <1>9. QED
    BY <1>3, <1>4, <1>8

\* Ending the sweep: no price the taker accepts is left to visit.
LEMMA EndSweepInv ==
  ASSUME EngineInv, EndSweep
  PROVE  EngineInv'
  <1> USE DEF EngineInv
  <1>1. /\ phase = "sweep" /\ phase' = "emit" /\ (TakerDone \/ \A p \in todo : ~CanMatch(taker, p))
        /\ UNCHANGED <<nextId, orders, filled, status, book, stamp, clock, levels, stopOrders,
              lastPrice, trades, taker, todo, at, visited, newTrades, arrived, seedStep, seedMid>>
    BY DEF EndSweep, bookVars, seedVars
  <1>2. TypeOK'
    BY <1>1 DEF TypeOK
  <1>3. FillsBounded' /\ BookInv' /\ TakerInv' /\ BookUncrossed'
    BY <1>1 DEF FillsBounded, BookInv, TakerInv, BookUncrossed, IsLive, Crossing
  <1>4. SweepInv'
    BY <1>1 DEF SweepInv, Owed, Eligible, IsLive, MakerSide, TakerDone, CanMatch
  <1>5. QED
    BY <1>2, <1>3, <1>4

\* A maker that is passed over is one the taker may not trade with.
LEMMA SkipMakerInv ==
  ASSUME EngineInv, NEW m \in Id, SkipMaker(m)
  PROVE  EngineInv'
  <1> USE DEF EngineInv
  <1>1. /\ phase = "level" /\ m \in book /\ ~Eligible(m) /\ visited' = visited \cup {m}
        /\ UNCHANGED <<nextId, orders, filled, status, book, stamp, clock, levels, stopOrders,
              lastPrice, trades, phase, taker, todo, at, newTrades, arrived, seedStep, seedMid>>
    BY DEF SkipMaker, bookVars, seedVars, IsNextMaker, Level
  <1>2. TypeOK'
    BY <1>1 DEF TypeOK
  <1>3. FillsBounded' /\ BookInv' /\ TakerInv' /\ BookUncrossed'
    BY <1>1 DEF FillsBounded, BookInv, TakerInv, BookUncrossed, IsLive, Crossing
  <1>4. SweepInv'
    BY <1>1 DEF SweepInv, Owed, Eligible, IsLive, MakerSide, TakerDone, CanMatch
  <1>5. QED
    BY <1>2, <1>3, <1>4

\* Closing a level: every maker in it was visited, or the taker needs no more.
LEMMA CloseLevelInv ==
  ASSUME EngineInv, CloseLevel
  PROVE  EngineInv'
  <1> USE DEF EngineInv
  <1> DEFINE dead == {o \in Level(MakerSide, at) : ~IsLive(o)}
             left == Level(MakerSide, at) \ dead
  <1>1. /\ phase = "level" /\ phase' = "sweep" /\ at' = 0 /\ visited' = {}
        /\ TakerDone \/ Level(MakerSide, at) \subseteq visited
        /\ book' = book \ dead
        /\ levels' = [levels EXCEPT ![MakerSide] = IF left = {} THEN @ \ {at} ELSE @]
        /\ UNCHANGED <<nextId, orders, filled, status, stamp, clock, stopOrders, lastPrice,
              trades, taker, todo, newTrades, arrived, seedStep, seedMid>>
    BY DEF CloseLevel, seedVars
  <1>2. levels' \in [Side -> SUBSET Prices]
    BY <1>1, TakerExists DEF TypeOK
  <1>3. TypeOK'
    BY <1>1, <1>2 DEF TypeOK
  <1>4. FillsBounded' /\ TakerInv' /\ BookUncrossed'
    BY <1>1 DEF FillsBounded, TakerInv, BookUncrossed, IsLive, Crossing
  <1>5. BookInv'
    <2>1. ASSUME NEW o \in book' PROVE orders[o].price \in levels'[orders[o].side]
      <3>1. o \in book /\ orders[o].side \in Side
        BY <1>1, <2>1, BookOrders DEF TypeOK
      <3>2. CASE o \in Level(MakerSide, at)
        BY <1>1, <2>1, <3>1, <3>2 DEF TypeOK, BookInv
      <3>3. CASE o \notin Level(MakerSide, at)
        BY <1>1, <3>1, <3>3, TakerExists DEF TypeOK, BookInv, Level
      <3>4. QED
        BY <3>2, <3>3
    <2>2. QED
      BY <1>1, <2>1 DEF BookInv
  <1>6. SweepInv'
    <2>1. ASSUME NEW x \in book', Owed(x)' PROVE TakerDone \/ orders[x].price \in todo
      <3>1. x \in book /\ Owed(x)
        BY <1>1, <2>1 DEF Owed, Eligible, IsLive, MakerSide
      <3>2. orders[x].price = at => x \in Level(MakerSide, at)
        BY <3>1 DEF Owed, Level
      <3>3. QED
        BY <1>1, <3>1, <3>2 DEF SweepInv, Owed
    <2>2. QED
      BY <1>1, <2>1 DEF SweepInv, TakerDone
  <1>7. QED
    BY <1>3, <1>4, <1>5, <1>6

\* Handing a trade to the callback changes the history only.
LEMMA EmitTradeInv ==
  ASSUME EngineInv, EmitTrade
  PROVE  EngineInv'
  <1> USE DEF EngineInv
  <1>1. /\ phase = "emit" /\ newTrades # <<>>
        /\ trades' = <<Head(newTrades)>> \o trades /\ newTrades' = Tail(newTrades)
        /\ UNCHANGED <<nextId, orders, filled, status, book, stamp, clock, levels, stopOrders,
              lastPrice, phase, taker, todo, at, visited, arrived, seedStep, seedMid>>
    BY DEF EmitTrade, bookVars, seedVars
  <1>2. newTrades \in Seq(TradeRecord) /\ trades \in Seq(TradeRecord)
    BY DEF TypeOK
  <1>3. trades' \in Seq(TradeRecord) /\ newTrades' \in Seq(TradeRecord)
    BY <1>1, <1>2
  <1>4. TypeOK'
    BY <1>1, <1>3 DEF TypeOK
  <1>5. FillsBounded' /\ BookInv' /\ TakerInv' /\ BookUncrossed'
    BY <1>1 DEF FillsBounded, BookInv, TakerInv, BookUncrossed, IsLive, Crossing
  <1>6. SweepInv'
    BY <1>1 DEF SweepInv, Owed, Eligible, IsLive, MakerSide, TakerDone, CanMatch
  <1>7. QED
    BY <1>4, <1>5, <1>6
\* What an ending call leaves behind, whatever becomes of its order.
LEMMA ReturnKeeps ==
  ASSUME EngineInv, Return
  PROVE  /\ phase = "emit" /\ phase' = "idle" /\ taker' = 0 /\ todo' = {} /\ arrived' = 0
         /\ UNCHANGED <<nextId, orders, filled, stopOrders, lastPrice, trades, at, visited,
                        newTrades, seedStep, seedMid>>
         /\ taker' \in 0..(nextId' - 1) /\ visited = {}
  <1>1. taker \in 1..(nextId - 1)
    BY TakerExists DEF EngineInv, Return
  <1>2. nextId \in Nat /\ 0 \in 0..(nextId - 1)
    BY Constants DEF EngineInv, TypeOK
  <1>3. QED
    BY <1>2 DEF EngineInv, SweepInv, Return, seedVars

\* The part of the type invariant that an ending call keeps in any case.
LEMMA ReturnTypes ==
  ASSUME EngineInv, Return
  PROVE  /\ nextId' \in 1..(MaxOrders + 1) /\ orders' \in [Id -> OrderRecord \cup {NoOrder}]
         /\ \A o \in Id : orders'[o] = NoOrder <=> o >= nextId'
         /\ \A o \in 1..(nextId' - 1) : orders'[o].type # "market" => orders'[o].price \in Prices
         /\ filled' \in [Id -> Nat] /\ stopOrders' \in SUBSET (1..(nextId' - 1))
         /\ lastPrice' \in Prices \cup {0}
         /\ trades' \in Seq(TradeRecord) /\ newTrades' \in Seq(TradeRecord)
         /\ phase' \in {"idle", "sweep", "level", "emit"} /\ taker' \in 0..(nextId' - 1)
         /\ taker' = 0 <=> phase' = "idle"
         /\ todo' \in SUBSET Prices /\ at' \in Prices \cup {0} /\ arrived' \in Nat
         /\ seedStep' \in 0..(2 * SeedLevels + 1) /\ seedMid' \in SeedMids \cup {0}
         /\ seedStep' = 0 <=> seedMid' = 0
  <1> USE DEF EngineInv
  <1>1. /\ nextId' \in 1..(MaxOrders + 1) /\ orders' \in [Id -> OrderRecord \cup {NoOrder}]
        /\ \A o \in Id : orders'[o] = NoOrder <=> o >= nextId'
    BY ReturnKeeps DEF TypeOK
  <1>2. \A o \in 1..(nextId' - 1) : orders'[o].type # "market" => orders'[o].price \in Prices
    BY ReturnKeeps DEF TypeOK
  <1>3. /\ filled' \in [Id -> Nat] /\ stopOrders' \in SUBSET (1..(nextId' - 1))
        /\ lastPrice' \in Prices \cup {0}
        /\ trades' \in Seq(TradeRecord) /\ newTrades' \in Seq(TradeRecord)
    BY ReturnKeeps DEF TypeOK
  <1>4. /\ phase' \in {"idle", "sweep", "level", "emit"} /\ taker' \in 0..(nextId' - 1)
        /\ taker' = 0 <=> phase' = "idle"
        /\ todo' \in SUBSET Prices /\ at' \in Prices \cup {0} /\ arrived' \in Nat
    BY ReturnKeeps DEF TypeOK
  <1>5. /\ seedStep' \in 0..(2 * SeedLevels + 1) /\ seedMid' \in SeedMids \cup {0}
        /\ seedStep' = 0 <=> seedMid' = 0
    BY ReturnKeeps DEF TypeOK
  <1>6. QED
    BY <1>1, <1>2, <1>3, <1>4, <1>5

\* The unmatched remainder of a limit order rests: whatever it would still trade
\* with is a stop order that was activated while it was matched.
LEMMA RestRemainderInv ==
  ASSUME EngineInv, RestRemainder
  PROVE  EngineInv'
  <1> USE DEF EngineInv
  <1>1. Return /\ IsLive(taker) /\ orders[taker].type # "market" /\ status' = status
    BY DEF RestRemainder
  <1>2. /\ taker \in 1..(nextId - 1) /\ taker \in Id /\ orders[taker].side \in Side
        /\ orders[taker].type = "limit" /\ orders[taker].price \in Prices
        /\ taker \notin book \cup stopOrders
    BY <1>1, ReturnKeeps, TakerExists DEF TypeOK, TakerInv
  <1>3. /\ book' = book \cup {taker} /\ clock' = clock + 1
        /\ stamp' = [o \in Id |-> IF o \in {taker} THEN clock ELSE stamp[o]]
        /\ levels' = [s \in Side |-> levels[s] \cup
                        {orders[o].price : o \in {x \in {taker} : orders[x].side = s}}]
    BY DEF RestRemainder, Push
  <1>4. stamp' \in [Id -> Nat] /\ clock' \in Nat \ {0} /\ levels' \in [Side -> SUBSET Prices]
    BY <1>2, <1>3 DEF TypeOK
  <1>5. TypeOK'
    <2>1. book' \in SUBSET (1..(nextId' - 1)) /\ visited' \in SUBSET book'
      BY <1>1, <1>2, <1>3, ReturnKeeps DEF TypeOK
    <2>2. QED
      BY <1>1, <1>4, <2>1, ReturnTypes DEF TypeOK
  <1>6. FillsBounded'
    BY <1>1, ReturnKeeps DEF FillsBounded, IsLive
  <1>7. BookInv'
    <2>1. \A o \in book : o \in Id /\ o # taker /\ orders[o].side \in Side /\ stamp'[o] = stamp[o]
      BY <1>2, <1>3, BookOrders DEF TypeOK
    <2>2. stamp'[taker] = clock
      BY <1>2, <1>3
    <2>3. \A o \in book' : stamp'[o] < clock'
      BY <1>3, <2>1, <2>2 DEF BookInv, TypeOK
    <2>4. \A o \in book : orders[o].price \in levels'[orders[o].side]
      BY <1>3, <2>1 DEF BookInv
    <2>5. orders[taker].price \in levels'[orders[taker].side]
      BY <1>2, <1>3
    <2>6. QED
      BY <1>1, <1>2, <1>3, <2>3, <2>4, <2>5, ReturnKeeps DEF BookInv
  <1>8. TakerInv'
    BY <1>1, ReturnKeeps DEF TakerInv, IsLive
  <1>9. SweepInv'
    BY <1>1, ReturnKeeps DEF SweepInv
  <1>10. ASSUME NEW x \in book, IsLive(x), orders[x].trader # orders[taker].trader,
                orders[x].side = MakerSide, CanMatch(taker, orders[x].price)
         PROVE  orders[x].stopPrice # 0
    <2>1. ~TakerDone
      BY <1>1, <1>2, TakerExists, ReturnKeeps DEF FillsBounded, TakerDone
    <2>2. ~Owed(x)
      BY <1>1, <1>10, <2>1, ReturnKeeps DEF SweepInv
    <2>3. ~(stamp[x] < arrived)
      BY <1>10, <2>2 DEF Owed, Eligible
    <2>4. stamp[x] \in Nat /\ arrived \in Nat
      BY BookOrders DEF TypeOK
    <2>5. QED
      BY <1>1, <2>3, <2>4, ReturnKeeps DEF TakerInv
  <1>11. BookUncrossed'
    <2> SUFFICES ASSUME NEW b \in book', NEW a \in book', Crossing(b, a), IsLive(b), IsLive(a)
                 PROVE  orders[b].stopPrice # 0 \/ orders[a].stopPrice # 0
      BY <1>1, ReturnKeeps DEF BookUncrossed, Crossing, IsLive
    <2>1. CASE b \in book /\ a \in book
      BY <2>1 DEF BookUncrossed
    <2>2. CASE b = taker
      <3>1. a # taker /\ a \in book
        BY <1>3, <2>2 DEF Crossing
      <3>2. orders[a].price \in Nat /\ orders[taker].price \in Nat
        BY <1>2, <3>1, BookOrders DEF TypeOK
      <3>3. orders[a].side = MakerSide /\ CanMatch(taker, orders[a].price)
        BY <2>2, <3>2 DEF Crossing, MakerSide, Opposite, CanMatch, Better
      <3>4. QED
        BY <1>10, <2>2, <3>1, <3>3 DEF Crossing
    <2>3. CASE a = taker
      <3>1. b # taker /\ b \in book
        BY <1>3, <2>3 DEF Crossing
      <3>2. orders[b].price \in Nat /\ orders[taker].price \in Nat
        BY <1>2, <3>1, BookOrders DEF TypeOK
      <3>3. orders[b].side = MakerSide /\ CanMatch(taker, orders[b].price)
        BY <2>3, <3>2 DEF Crossing, MakerSide, Opposite, CanMatch, Better
      <3>4. QED
        BY <1>10, <2>3, <3>1, <3>3 DEF Crossing
    <2>4. QED
      BY <1>3, <2>1, <2>2, <2>3
  <1>12. QED
    BY <1>5, <1>6, <1>7, <1>8, <1>9, <1>11

\* A market order, or one that is filled, leaves the book as it is.
LEMMA FinishInv ==
  ASSUME EngineInv, CloseMarket \/ FinishFilled
  PROVE  EngineInv'
  <1> USE DEF EngineInv
  <1>1. /\ Return /\ UNCHANGED <<book, stamp, clock, levels>>
        /\ \/ status' = status /\ ~IsLive(taker)
           \/ /\ orders[taker].type = "market" /\ IsLive(taker)
              /\ status' = [status EXCEPT ![taker] = IF filled[taker] > 0 THEN "filled" ELSE "cancelled"]
    BY DEF CloseMarket, FinishFilled, bookVars
  <1>2. taker \in 1..(nextId - 1) /\ taker \in Id /\ taker \notin book \cup stopOrders
    BY <1>1, ReturnKeeps, TakerExists DEF TypeOK, TakerInv
  <1>3. /\ status' \in [Id -> {"none", "open", "partial", "filled", "cancelled"}]
        /\ \A o \in Id : o # taker => status'[o] = status[o]
        /\ status'[taker] \in {"filled", "cancelled"} \/ (status' = status /\ ~IsLive(taker))
        /\ status' = status \/ orders[taker].type = "market"
    BY <1>1, <1>2 DEF TypeOK
  <1>4. TypeOK'
    <2>1. /\ book' \in SUBSET (1..(nextId' - 1)) /\ visited' \in SUBSET book'
          /\ stamp' \in [Id -> Nat] /\ clock' \in Nat \ {0} /\ levels' \in [Side -> SUBSET Prices]
      BY <1>1, ReturnKeeps DEF TypeOK
    <2>2. QED
      BY <1>1, <1>3, <2>1, ReturnTypes DEF TypeOK
  <1>5. \A o \in 1..(nextId - 1) : IsLive(o)' => IsLive(o) /\ o # taker
    BY <1>2, <1>3, BookOrders DEF IsLive, Live
  <1>6. FillsBounded'
    BY <1>1, <1>2, <1>3, <1>5, ReturnKeeps, BookOrders DEF FillsBounded
  <1>7. BookInv' /\ SweepInv'
    BY <1>1, ReturnKeeps DEF BookInv, SweepInv
  <1>8. TakerInv'
    BY <1>1, <1>5, ReturnKeeps DEF TakerInv
  <1>9. BookUncrossed'
    <2>1. \A o \in book : IsLive(o)' => IsLive(o)
      BY <1>5 DEF TypeOK
    <2>2. QED
      BY <1>1, <2>1, ReturnKeeps DEF BookUncrossed, Crossing
  <1>10. QED
    BY <1>4, <1>6, <1>7, <1>8, <1>9

\* Cancelling takes an order out of the book and may leave a key without orders.
LEMMA CancelOrderInv ==
  ASSUME EngineInv, NEW o \in Id, CancelOrder(o)
  PROVE  EngineInv'
  <1> USE DEF EngineInv
  <1>1. /\ phase = "idle" /\ o < nextId /\ IsLive(o)
        /\ status' = [status EXCEPT ![o] = "cancelled"] /\ book' = book \ {o}
        /\ levels' = [levels EXCEPT ![orders[o].side] = @ \cup {orders[o].price}]
        /\ UNCHANGED <<nextId, orders, filled, stamp, clock, stopOrders, lastPrice, trades,
              phase, taker, todo, at, visited, newTrades, arrived, seedStep, seedMid>>
    BY DEF CancelOrder, Idle, callVars, seedVars
  <1>2. o \in 1..(nextId - 1) /\ taker = 0 /\ o # 0
    BY <1>1, Constants DEF TypeOK, Id
  <1>3. orders[o].price \in Prices /\ orders[o].side \in Side
    BY <1>1, <1>2, BookOrders DEF TypeOK, TakerInv
  <1>4. /\ status' \in [Id -> {"none", "open", "partial", "filled", "cancelled"}]
        /\ \A x \in Id : x # o => status'[x] = status[x]
        /\ status'[o] = "cancelled"
    BY <1>1 DEF TypeOK
  <1>5. visited' \in SUBSET book'
    BY <1>1 DEF SweepInv
  <1>6. TypeOK'
    <2>1. levels' \in [Side -> SUBSET Prices]
      BY <1>1, <1>3 DEF TypeOK
    <2>2. book' \in SUBSET (1..(nextId' - 1))
      BY <1>1 DEF TypeOK
    <2>3. QED
      BY <1>1, <1>4, <1>5, <2>1, <2>2 DEF TypeOK
  <1>7. \A x \in 1..(nextId - 1) : IsLive(x)' => IsLive(x) /\ x # o /\ status'[x] = status[x]
    BY <1>4, BookOrders DEF IsLive, Live
  <1>8. FillsBounded'
    BY <1>1, <1>2, <1>4, <1>7, BookOrders DEF FillsBounded
  <1>9. BookInv'
    BY <1>1, <1>3, BookOrders DEF BookInv, TypeOK
  <1>10. TakerInv' /\ SweepInv'
    BY <1>1, <1>7 DEF TakerInv, SweepInv
  <1>11. BookUncrossed'
    BY <1>1, <1>7 DEF BookUncrossed, Crossing, TypeOK
  <1>12. QED
    BY <1>6, <1>8, <1>9, <1>10, <1>11

\* seed() only makes calls and, at its end, sets the last price.
LEMMA SeedInv ==
  ASSUME EngineInv, SeedEnd \/ \E mid \in SeedMids : SeedStart(mid)
  PROVE  EngineInv'
  <1> USE DEF EngineInv
  <1>1. /\ phase = "idle" /\ lastPrice' \in {lastPrice, seedMid}
        /\ UNCHANGED <<nextId, orders, filled, status, book, stamp, clock, levels, stopOrders,
              trades, phase, taker, todo, at, visited, newTrades, arrived>>
    BY DEF SeedEnd, SeedStart, Idle, bookVars, callVars
  <1>2. /\ seedStep' \in 0..(2 * SeedLevels + 1) /\ seedMid' \in SeedMids \cup {0}
        /\ seedStep' = 0 <=> seedMid' = 0
    BY Constants DEF SeedEnd, SeedStart
  <1>3. TypeOK'
    BY <1>1, <1>2, Constants DEF TypeOK
  <1>4. FillsBounded' /\ BookInv' /\ TakerInv' /\ BookUncrossed'
    BY <1>1 DEF FillsBounded, BookInv, TakerInv, BookUncrossed, IsLive, Crossing
  <1>5. SweepInv'
    BY <1>1 DEF SweepInv
  <1>6. QED
    BY <1>3, <1>4, <1>5
-----------------------------------------------------------------------------
\* The maker of a fill is a live order of the visited level, and the two fills
\* grow by a positive amount that neither side lacks.
LEMMA FillFacts ==
  ASSUME EngineInv, NEW m \in Id, Fill(m)
  PROVE  /\ m \in book /\ m \in 1..(nextId - 1) /\ m # taker /\ IsLive(m)
         /\ orders[m].side = MakerSide /\ orders[m].price = at
         /\ FillQty(m) \in Nat /\ FillQty(m) > 0
         /\ FillQty(m) <= Remaining(m) /\ FillQty(m) <= Remaining(taker)
         /\ FillQty(m) = Remaining(m) \/ FillQty(m) = Remaining(taker)
         /\ filled' \in [Id -> Nat]
         /\ filled'[m] = filled[m] + FillQty(m) /\ filled'[taker] = filled[taker] + FillQty(m)
         /\ status' \in [Id -> {"none", "open", "partial", "filled", "cancelled"}]
         /\ status'[m] = StatusAfter(m) /\ status'[taker] = StatusAfter(taker)
         /\ \A o \in Id : o # m /\ o # taker => filled'[o] = filled[o] /\ status'[o] = status[o]
  <1> USE DEF EngineInv
  <1>1. /\ phase = "level" /\ ~TakerDone /\ m \in book /\ Eligible(m)
        /\ orders[m].side = MakerSide /\ orders[m].price = at
        /\ filled' = [filled EXCEPT ![m] = @ + FillQty(m), ![taker] = @ + FillQty(m)]
        /\ status' = [status EXCEPT ![m] = StatusAfter(m), ![taker] = StatusAfter(taker)]
    BY DEF Fill, IsNextMaker, Level
  <1>2. m \in 1..(nextId - 1) /\ m # taker /\ IsLive(m) /\ taker \in Id
    BY <1>1, TakerExists DEF TypeOK, TakerInv, Eligible
  <1>3. /\ filled[m] \in Nat /\ orders[m].quantity \in Nat /\ filled[m] < orders[m].quantity
        /\ filled[taker] \in Nat /\ orders[taker].quantity \in Nat
        /\ filled[taker] < orders[taker].quantity
    BY <1>1, <1>2, BookOrders, TakerExists DEF FillsBounded, TakerDone
  <1>4. /\ FillQty(m) \in Nat /\ FillQty(m) > 0
        /\ FillQty(m) <= Remaining(m) /\ FillQty(m) <= Remaining(taker)
        /\ FillQty(m) = Remaining(m) \/ FillQty(m) = Remaining(taker)
    BY <1>3 DEF FillQty, Remaining
  <1>5. /\ filled' \in [Id -> Nat]
        /\ filled'[m] = filled[m] + FillQty(m) /\ filled'[taker] = filled[taker] + FillQty(m)
        /\ \A o \in Id : o # m /\ o # taker => filled'[o] = filled[o]
    <2> DEFINE q == FillQty(m)
    <2>1. filled' = [filled EXCEPT ![m] = @ + q, ![taker] = @ + q] /\ q \in Nat
      BY <1>1, <1>4
    <2> HIDE DEF q
    <2>2. filled \in [Id -> Nat] /\ filled[m] + q \in Nat /\ filled[taker] + q \in Nat
      BY <1>3, <2>1 DEF TypeOK
    <2>3. /\ filled' \in [Id -> Nat]
          /\ filled'[m] = filled[m] + q /\ filled'[taker] = filled[taker] + q
          /\ \A o \in Id : o # m /\ o # taker => filled'[o] = filled[o]
      BY <1>2, <2>1, <2>2
    <2>4. QED
      BY <2>3 DEF q
  <1>6. StatusAfter(m) \in {"filled", "partial"} /\ StatusAfter(taker) \in {"filled", "partial"}
    BY DEF StatusAfter
  <1>7. /\ status' \in [Id -> {"none", "open", "partial", "filled", "cancelled"}]
        /\ status'[m] = StatusAfter(m) /\ status'[taker] = StatusAfter(taker)
        /\ \A o \in Id : o # m /\ o # taker => status'[o] = status[o]
    BY <1>1, <1>2, <1>6 DEF TypeOK
  <1>8. QED
    BY <1>1, <1>2, <1>4, <1>5, <1>7

\* A fill activates stop orders without changing anybody's terms but the type.
LEMMA ActivationFacts ==
  ASSUME EngineInv, NEW m \in Id, Fill(m), NEW hit, hit = Triggered(lastPrice, at)
  PROVE  /\ hit \subseteq stopOrders /\ hit \subseteq 1..(nextId - 1) /\ stopOrders' = stopOrders \ hit
         /\ orders' \in [Id -> OrderRecord \cup {NoOrder}]
         /\ \A o \in Id : /\ orders'[o].side = orders[o].side /\ orders'[o].price = orders[o].price
                          /\ orders'[o].stopPrice = orders[o].stopPrice
                          /\ orders'[o].quantity = orders[o].quantity
                          /\ orders'[o].trader = orders[o].trader
                          /\ orders'[o].type = IF o \in hit THEN "limit" ELSE orders[o].type
                          /\ orders'[o] = NoOrder <=> orders[o] = NoOrder
         /\ \A o \in hit : orders[o].type = "stop-limit" /\ orders[o].stopPrice # 0
                          /\ orders[o].price \in Prices /\ orders[o].side \in Side
         /\ book' = book \cup hit
         /\ stamp' \in [Id -> Nat] /\ clock' \in Nat \ {0} /\ clock <= clock'
         /\ \A o \in hit : stamp'[o] = clock /\ clock < clock'
         /\ \A o \in Id : o \notin hit => stamp'[o] = stamp[o]
         /\ levels' \in [Side -> SUBSET Prices]
         /\ \A s \in Side : levels[s] \subseteq levels'[s]
         /\ \A o \in hit : orders[o].price \in levels'[orders[o].side]
  <1> USE DEF EngineInv
  <1>1. /\ stopOrders' = stopOrders \ hit
        /\ orders' = [o \in Id |-> IF o \in hit THEN Order(orders[o], "limit", orders[o].price)
                                  ELSE orders[o]]
        /\ book' = book \cup hit
        /\ stamp' = [o \in Id |-> IF o \in hit THEN clock ELSE stamp[o]]
        /\ clock' = IF hit = {} THEN clock ELSE clock + 1
        /\ levels' = [s \in Side |-> levels[s] \cup
                        {orders[o].price : o \in {x \in hit : orders[x].side = s}}]
    BY DEF Fill, CheckStopOrders, Push
  <1>2. hit \subseteq stopOrders /\ hit \subseteq 1..(nextId - 1) /\ hit \subseteq Id
    BY BookOrders DEF Triggered, TypeOK
  <1>3. \A o \in hit : /\ orders[o].type = "stop-limit" /\ orders[o].stopPrice # 0
                      /\ orders[o].price \in Prices /\ orders[o].side \in Side
                      /\ orders[o] \in OrderRecord
    BY <1>2, BookOrders DEF BookInv, TypeOK
  <1>4. \A o \in hit : Order(orders[o], "limit", orders[o].price) \in OrderRecord
    BY <1>3 DEF Order, OrderRecord, OrderType
  <1>5. orders' \in [Id -> OrderRecord \cup {NoOrder}]
    BY <1>1, <1>4 DEF TypeOK
  <1>6. \A o \in Id : /\ orders'[o].side = orders[o].side /\ orders'[o].price = orders[o].price
                     /\ orders'[o].stopPrice = orders[o].stopPrice
                     /\ orders'[o].quantity = orders[o].quantity
                     /\ orders'[o].trader = orders[o].trader
                     /\ orders'[o].type = IF o \in hit THEN "limit" ELSE orders[o].type
    BY <1>1 DEF Order
  <1>7. \A o \in Id : orders'[o] = NoOrder <=> orders[o] = NoOrder
    BY <1>1, <1>3, <1>4 DEF NoOrder, OrderRecord, OrderType
  <1>8. stamp' \in [Id -> Nat] /\ clock' \in Nat \ {0} /\ clock <= clock'
    BY <1>1 DEF TypeOK
  <1>9. /\ \A o \in hit : stamp'[o] = clock /\ clock < clock'
        /\ \A o \in Id : o \notin hit => stamp'[o] = stamp[o]
    BY <1>1, <1>2 DEF TypeOK
  <1>10. levels' \in [Side -> SUBSET Prices] /\ \A s \in Side : levels[s] \subseteq levels'[s]
    BY <1>1, <1>3 DEF TypeOK
  <1>11. \A o \in hit : orders[o].price \in levels'[orders[o].side]
    BY <1>1, <1>3
  <1>12. QED
    BY <1>1, <1>2, <1>3, <1>5, <1>6, <1>7, <1>8, <1>9, <1>10, <1>11

\* A fill.
LEMMA FillInv ==
  ASSUME EngineInv, NEW m \in Id, Fill(m)
  PROVE  EngineInv'
  <1> USE DEF EngineInv
  <1> DEFINE hit == Triggered(lastPrice, at)
             q == FillQty(m)
  <1>1. /\ phase = "level" /\ ~TakerDone /\ lastPrice' = at /\ visited' = visited \cup {m}
        /\ newTrades' = Append(newTrades, [price |-> at, quantity |-> q,
                            side |-> orders[taker].side, maker |-> m, taker |-> taker])
        /\ UNCHANGED <<nextId, trades, phase, taker, todo, at, arrived, seedStep, seedMid>>
    BY DEF Fill, seedVars
  <1> HIDE DEF hit, q
  <1>2. /\ m \in book /\ m \in 1..(nextId - 1) /\ m # taker /\ IsLive(m)
        /\ filled' \in [Id -> Nat]
        /\ status' \in [Id -> {"none", "open", "partial", "filled", "cancelled"}]
        /\ \A o \in Id : o # m /\ o # taker => filled'[o] = filled[o] /\ status'[o] = status[o]
    BY FillFacts
  <1>3. /\ hit \subseteq stopOrders /\ hit \subseteq 1..(nextId - 1) /\ stopOrders' = stopOrders \ hit
        /\ orders' \in [Id -> OrderRecord \cup {NoOrder}]
        /\ book' = book \cup hit
        /\ stamp' \in [Id -> Nat] /\ clock' \in Nat \ {0} /\ clock <= clock'
        /\ levels' \in [Side -> SUBSET Prices]
        /\ \A s \in Side : levels[s] \subseteq levels'[s]
        /\ \A o \in Id : /\ orders'[o].side = orders[o].side /\ orders'[o].price = orders[o].price
                         /\ orders'[o].stopPrice = orders[o].stopPrice
                         /\ orders'[o].type = IF o \in hit THEN "limit" ELSE orders[o].type
                         /\ orders'[o] = NoOrder <=> orders[o] = NoOrder
                         /\ o \notin hit => stamp'[o] = stamp[o]
        /\ \A o \in hit : orders[o].price \in Prices
    BY ActivationFacts DEF hit
  <1>4. taker \in 1..(nextId - 1) /\ taker \in Id /\ taker \notin book \cup stopOrders
    BY <1>1, TakerExists DEF TakerInv
  <1>5. /\ status'[m] \in {"filled", "partial"} /\ status'[taker] \in {"filled", "partial"}
        /\ status'[m] = "partial" => filled'[taker] >= orders[taker].quantity
        /\ status'[m] = "partial" => filled'[m] < orders[m].quantity
        /\ status'[taker] = "partial" => filled'[taker] < orders[taker].quantity
        /\ filled'[m] <= orders[m].quantity /\ filled'[taker] <= orders[taker].quantity
        /\ status'[m] = "filled" => filled'[m] = orders[m].quantity
        /\ status'[taker] = "filled" => filled'[taker] = orders[taker].quantity
    <2>1. /\ filled[m] \in Nat /\ orders[m].quantity \in Nat
          /\ filled[taker] \in Nat /\ orders[taker].quantity \in Nat
      BY <1>2, <1>4, BookOrders
    <2>2. /\ q \in Nat /\ q <= orders[m].quantity - filled[m]
          /\ q <= orders[taker].quantity - filled[taker]
          /\ q = orders[m].quantity - filled[m] \/ q = orders[taker].quantity - filled[taker]
          /\ filled'[m] = filled[m] + q /\ filled'[taker] = filled[taker] + q
      BY FillFacts DEF Remaining, q
    <2>3. /\ status'[m] = IF filled'[m] >= orders[m].quantity THEN "filled" ELSE "partial"
          /\ status'[taker] = IF filled'[taker] >= orders[taker].quantity THEN "filled" ELSE "partial"
      BY FillFacts DEF StatusAfter
    <2>4. QED
      BY <2>1, <2>2, <2>3
  <1>6. \A o \in Id : status'[o] \in Live => status[o] \in Live \/ o = taker
    BY <1>2, <1>5 DEF IsLive, Live
  <1>7. TypeOK'
    <2>1. [price |-> at, quantity |-> q, side |-> orders[taker].side, maker |-> m,
           taker |-> taker] \in TradeRecord
      BY <1>1, <1>4, FillFacts, TakerExists DEF q, TradeRecord, SweepInv
    <2>2. newTrades' \in Seq(TradeRecord)
      BY <1>1, <2>1 DEF TypeOK
    <2>3. \A o \in Id : orders'[o] = NoOrder <=> o >= nextId'
      BY <1>1, <1>3 DEF TypeOK
    <2>4. \A o \in 1..(nextId' - 1) : orders'[o].type # "market" => orders'[o].price \in Prices
      BY <1>1, <1>3, BookOrders DEF TypeOK
    <2>5. lastPrice' \in Prices \cup {0} /\ visited' \in SUBSET book'
      BY <1>1, <1>2, <1>3 DEF TypeOK
    <2>6. book' \in SUBSET (1..(nextId' - 1)) /\ stopOrders' \in SUBSET (1..(nextId' - 1))
      BY <1>1, <1>3 DEF TypeOK
    <2>7. QED
      BY <1>1, <1>2, <1>3, <2>2, <2>3, <2>4, <2>5, <2>6 DEF TypeOK
  <1>8. FillsBounded'
    <2>1. ASSUME NEW o \in 1..(nextId - 1)
          PROVE  /\ filled'[o] <= orders[o].quantity
                 /\ status'[o] \in Live => filled'[o] < orders[o].quantity
                 /\ status'[o] = "open" => filled'[o] = 0
                 /\ status'[o] = "filled" /\ orders[o].type # "market"
                      => filled'[o] = orders[o].quantity
      <3>1. CASE o = m \/ o = taker
        BY <1>5, <3>1 DEF Live
      <3>2. CASE o # m /\ o # taker
        BY <1>2, <3>2, BookOrders DEF FillsBounded, IsLive
      <3>3. QED
        BY <3>1, <3>2
    <2>2. \A o \in 1..(nextId - 1) : /\ orders'[o].quantity = orders[o].quantity
                                     /\ status[o] = "filled" => (orders'[o].type = "market" => orders[o].type = "market")
      BY ActivationFacts, BookOrders
    <2>3. \A o \in 1..(nextId - 1) : orders[o].type = "market" => orders'[o].type = "market"
      BY ActivationFacts, BookOrders
    <2>4. QED
      BY <1>1, <2>1, <2>2, <2>3 DEF FillsBounded, IsLive
  <1>9. BookInv'
    <2>1. \A o \in book : /\ o \in Id /\ o \notin hit /\ orders[o].side \in Side
                         /\ stamp[o] \in Nat
      BY <1>3, BookOrders DEF TypeOK, BookInv
    <2>2. ASSUME NEW o \in book
          PROVE  /\ orders'[o].type = "limit" /\ stamp'[o] < clock'
                 /\ orders'[o].price \in levels'[orders'[o].side]
      <3>1. /\ orders[o].type = "limit" /\ orders[o].price \in levels[orders[o].side]
            /\ stamp[o] < clock
        BY DEF BookInv
      <3>2. orders'[o].type = "limit" /\ orders'[o].price \in levels'[orders'[o].side]
        BY <1>3, <2>1, <3>1
      <3>3. stamp'[o] = stamp[o] /\ clock \in Nat /\ clock <= clock'
        BY <1>3, <2>1 DEF TypeOK
      <3>4. QED
        BY <1>3, <2>1, <3>1, <3>2, <3>3
    <2>3. \A o \in hit : /\ orders'[o].type = "limit" /\ stamp'[o] < clock'
                        /\ orders'[o].price \in levels'[orders'[o].side]
      BY <1>3, ActivationFacts, BookOrders DEF hit
    <2>4. \A o \in stopOrders' : /\ orders'[o].type = "stop-limit" /\ orders'[o].stopPrice # 0
                                /\ o \notin book'
      BY <1>3, BookOrders DEF BookInv, TypeOK
    <2>5. QED
      BY <1>3, <2>2, <2>3, <2>4 DEF BookInv
  <1>10. TakerInv'
    <2>1. /\ taker' \notin book' \cup stopOrders' /\ orders'[taker'].type \in {"limit", "market"}
          /\ status'[taker'] \in Live \cup {"filled"}
          /\ status'[taker'] = "filled" => filled'[taker'] = orders'[taker'].quantity
      BY <1>1, <1>3, <1>4, <1>5, ActivationFacts DEF TakerInv, Live, hit
    <2>2. arrived' <= clock'
      BY <1>1, <1>3 DEF TakerInv, TypeOK
    <2>3. \A o \in book' : stamp'[o] >= arrived' => orders'[o].stopPrice # 0
      <3>1. \A o \in book : o \in Id /\ o \notin hit
        BY <1>3, BookOrders DEF TypeOK, BookInv
      <3>2. QED
        BY <1>1, <1>3, <3>1, ActivationFacts, BookOrders DEF TakerInv, hit
    <2>4. \A o \in 1..(nextId - 1) : status'[o] \in Live /\ orders'[o].type = "market" => o = taker
      BY <1>6, ActivationFacts, BookOrders DEF TakerInv, IsLive
    <2>5. QED
      BY <1>1, <2>1, <2>2, <2>3, <2>4 DEF TakerInv, IsLive
  <1>11. SweepInv'
    <2>1. at' \in Prices /\ CanMatch(taker, at)' /\ \A p \in todo' : Better(orders[taker].side, at, p)'
      BY <1>1, <1>4, ActivationFacts DEF SweepInv, CanMatch
    <2>2. \A x \in Id : Eligible(x)' /\ x # taker => Eligible(x)
      BY <1>1, <1>4, <1>6, ActivationFacts DEF Eligible, IsLive
    <2>3. \A x \in visited' : Eligible(x)' => TakerDone'
      <3>1. \A x \in visited : x \in Id /\ x # taker
        BY <1>4, BookOrders DEF TypeOK
      <3>2. Eligible(m)' => TakerDone'
        BY <1>1, <1>4, <1>5, ActivationFacts DEF Eligible, IsLive, Live, TakerDone
      <3>3. QED
        BY <1>1, <2>2, <3>1, <3>2 DEF SweepInv
    <2>4. \A x \in book' : Owed(x)' => TakerDone' \/ orders'[x].price \in todo' \cup {at'}
      <3>1. ASSUME NEW x \in hit PROVE ~Owed(x)'
        <4>1. stamp'[x] = clock
          BY ActivationFacts DEF hit
        <4>2. ~(clock < arrived)
          BY <1>1 DEF TakerInv, TypeOK
        <4>3. QED
          BY <1>1, <4>1, <4>2 DEF Owed
      <3>2. ASSUME NEW x \in book, Owed(x)' PROVE orders'[x].price \in todo' \cup {at'}
        <4>1. x \in Id /\ x # taker /\ x \notin hit
          BY <1>3, <1>4, BookOrders DEF TypeOK, BookInv
        <4>2. Owed(x)
          BY <1>1, <1>4, <2>2, <3>2, <4>1, ActivationFacts DEF Owed, MakerSide, hit
        <4>3. QED
          BY <1>1, <4>1, <4>2, ActivationFacts DEF SweepInv
      <3>3. QED
        BY <1>3, <3>1, <3>2
    <2>5. QED
      BY <1>1, <2>1, <2>3, <2>4 DEF SweepInv
  <1>12. BookUncrossed'
    <2> SUFFICES ASSUME NEW b \in book', NEW a \in book', Crossing(b, a)', IsLive(b)', IsLive(a)'
                 PROVE  orders'[b].stopPrice # 0 \/ orders'[a].stopPrice # 0
      BY DEF BookUncrossed
    <2>1. \A x \in book : x \in Id /\ x # taker
      BY <1>4, BookOrders DEF TypeOK
    <2>2. CASE b \in hit \/ a \in hit
      BY <1>3, <2>2, ActivationFacts, BookOrders DEF hit
    <2>3. CASE b \in book /\ a \in book
      BY <1>6, <2>1, <2>3, ActivationFacts DEF BookUncrossed, Crossing, IsLive
    <2>4. QED
      BY <1>3, <2>2, <2>3
  <1>13. QED
    BY <1>7, <1>8, <1>9, <1>10, <1>11, <1>12
-----------------------------------------------------------------------------
\* Every step keeps the inductive invariant.
THEOREM StepInv == EngineInv /\ [Next]_vars => EngineInv'
  <1> SUFFICES ASSUME EngineInv, [Next]_vars PROVE EngineInv'
    OBVIOUS
  <1>1. ASSUME NEW r \in Requests, PlaceOrder(r) PROVE EngineInv'
    <2>1. /\ r \in Request /\ r.type # "stop-limit" /\ StartMatch(r) /\ phase = "idle"
          /\ UNCHANGED <<seedStep, seedMid>>
      BY <1>1, Constants DEF PlaceOrder, Idle, seedVars
    <2>2. QED
      BY <2>1, StartMatchInv DEF EngineInv, TypeOK
  <1>2. ASSUME NEW r \in Requests, PlaceStop(r) \/ PlaceStopThrows(r) PROVE EngineInv'
    BY <1>2, ParkInv, Constants
  <1>3. ASSUME NEW q \in Quantities, SeedPlace(q) PROVE EngineInv'
    <2> DEFINE r == SeedRequest(seedStep, q)
    <2>1. /\ StartMatch(r) /\ phase = "idle" /\ seedStep \in 1..(2 * SeedLevels)
          /\ seedStep' = seedStep + 1 /\ seedMid' = seedMid
      BY <1>3 DEF SeedPlace
    <2>2. seedMid \in SeedMids /\ seedMid # 0
      BY <2>1, Constants DEF EngineInv, TypeOK
    <2>3. r \in Request /\ r.type # "stop-limit"
      BY <2>1, <2>2, SeedRequestType DEF EngineInv, SeedRequest
    <2>4. /\ seedStep' \in 0..(2 * SeedLevels + 1) /\ seedMid' \in SeedMids \cup {0}
          /\ seedStep' = 0 <=> seedMid' = 0
      BY <2>1, <2>2, Constants
    <2> HIDE DEF r
    <2>5. QED
      BY <2>1, <2>3, <2>4, StartMatchInv
  <1>4. CASE MatchStep
    BY <1>4, EnterLevelInv, EndSweepInv, CloseLevelInv, SkipMakerInv, FillInv, EmitTradeInv,
       RestRemainderInv, FinishInv DEF MatchStep
  <1>5. CASE UNCHANGED vars
    <2>1. UNCHANGED <<nextId, orders, filled, status, book, stamp, clock, levels, stopOrders,
            lastPrice, trades, phase, taker, todo, at, visited, newTrades, arrived, seedStep,
            seedMid>>
      BY <1>5 DEF vars, bookVars, callVars, seedVars
    <2>2. TypeOK' /\ FillsBounded' /\ BookInv' /\ TakerInv' /\ BookUncrossed'
      BY <2>1 DEF EngineInv, TypeOK, FillsBounded, BookInv, TakerInv, BookUncrossed, IsLive, Crossing
    <2>3. SweepInv'
      BY <2>1 DEF EngineInv, SweepInv, Owed, Eligible, IsLive, MakerSide, TakerDone, CanMatch
    <2>4. QED
      BY <2>2, <2>3 DEF EngineInv
  <1>6. QED
    BY <1>1, <1>2, <1>3, <1>4, <1>5, CancelOrderInv, SeedInv DEF Next, SeedStep, Call

\* The inductive invariant holds in every reachable state.
THEOREM Invariance == Spec => []EngineInv
  <1>1. QED
    BY InitInv, StepInv, PTL DEF Spec

\* Every variable keeps its shape, whatever the requests.
THEOREM TypeCorrect == Spec => []TypeOK
  <1>1. EngineInv => TypeOK
    BY DEF EngineInv
  <1>2. QED
    BY <1>1, Invariance, PTL

\* No order is filled beyond its quantity.
THEOREM FillsCorrect == Spec => []FillsBounded
  <1>1. EngineInv => FillsBounded
    BY DEF EngineInv
  <1>2. QED
    BY <1>1, Invariance, PTL

\* The book is never crossed by two traders' limit orders.
THEOREM NeverCrossed == Spec => []BookUncrossed
  <1>1. EngineInv => BookUncrossed
    BY DEF EngineInv
  <1>2. QED
    BY <1>1, Invariance, PTL

\* What ArrivedPriority says of one step.
ServesInOrder ==
  IsFill => \A x \in book : Eligible(x) /\ stamp[x] < arrived => ~Precedes(x, FilledMaker)

\* A step of the engine serves the makers the taker found in price-time order.
LEMMA StepPriority == EngineInv /\ [Next]_vars => [ServesInOrder]_vars
  <1> SUFFICES ASSUME EngineInv, Next, IsFill,
                      NEW x \in book, Eligible(x), stamp[x] < arrived
               PROVE  ~Precedes(x, FilledMaker)
    BY DEF ServesInOrder
  <1> USE DEF EngineInv
  <1>1. newTrades \in Seq(TradeRecord) /\ Len(newTrades) \in Nat
    BY DEF TypeOK
  <1>2. newTrades' # newTrades /\ (newTrades # <<>> => newTrades' # Tail(newTrades))
    <2>1. newTrades # <<>> => Len(Tail(newTrades)) = Len(newTrades) - 1
      BY <1>1
    <2>2. QED
      BY <1>1, <2>1 DEF IsFill
  <1>3. PICK m \in Id : Fill(m)
    BY <1>2 DEF Next, MatchStep, SeedStep, Call, EnterLevel, EndSweep, CloseLevel, SkipMaker,
       EmitTrade, RestRemainder, CloseMarket, FinishFilled, Return, SeedEnd, SeedPlace, StartMatch,
       PlaceOrder, PlaceStop, PlaceStopThrows, CancelOrder, SeedStart, callVars
  <1>4. FilledMaker = m
    <2>1. newTrades' = Append(newTrades, [price |-> at, quantity |-> FillQty(m),
                            side |-> orders[taker].side, maker |-> m, taker |-> taker])
      BY <1>3 DEF Fill
    <2>2. QED
      BY <1>1, <2>1 DEF FilledMaker
  <1>5. /\ phase = "level" /\ ~TakerDone /\ IsNextMaker(m)
        /\ m \in book /\ orders[m].side = MakerSide /\ orders[m].price = at
    BY <1>3 DEF Fill, IsNextMaker, Level
  <1> SUFFICES ASSUME Precedes(x, m) PROVE FALSE
    BY <1>4
  <1>6. Owed(x) /\ orders[x].price \in todo \cup {at}
    BY <1>5 DEF Precedes, Owed, SweepInv
  <1>7. orders[x].price \in Nat /\ at \in Nat
    BY <1>5, BookOrders DEF TypeOK
  <1>8. orders[x].price = at /\ Before(x, m)
    BY <1>5, <1>6, <1>7 DEF SweepInv, Precedes, Better
  <1>9. x \in Level(MakerSide, at) \ visited
    BY <1>5, <1>6, <1>8 DEF SweepInv, Owed, Level
  <1>10. /\ x \in Nat /\ m \in Nat /\ stamp[x] \in Nat /\ stamp[m] \in Nat
    BY <1>5, BookOrders, Constants DEF TypeOK, Id
  <1>11. x # m => Before(m, x)
    BY <1>5, <1>9 DEF IsNextMaker
  <1>12. QED
    BY <1>8, <1>10, <1>11 DEF Before

\* Price-time priority among the makers the taker found, for every run.
THEOREM PriorityKept == Spec => ArrivedPriority
  <1>1. [ServesInOrder]_vars =>
          [IsFill => \A x \in book : Eligible(x) /\ stamp[x] < arrived
                                     => ~Precedes(x, FilledMaker)]_vars
    BY DEF ServesInOrder
  <1>2. QED
    BY <1>1, Invariance, StepPriority, PTL DEF Spec, ArrivedPriority

(***************************************************************************)
(* The matching engine implements Market, for every set of traders,        *)
(* prices, sizes and requests: what a call does step by step, with parked  *)
(* and activated stop orders, is an accepted order, a trade, an order that *)
(* leaves, or nothing the market sees.                                     *)
(***************************************************************************)
\* The engine as the market sees it (the mapping of TheMarket).
Placed == 1..(nextId - 1)
Terms == [o \in Placed |-> [side |-> orders[o].side, price |-> orders[o].price,
                            quantity |-> orders[o].quantity]]
Fills == [o \in Placed |-> filled[o]]
Alive == {o \in Placed : IsLive(o)}

\* An empty engine is an empty market.
LEMMA MarketInit == Init => TheMarket!Init
  <1> SUFFICES ASSUME Init PROVE TheMarket!Init
    OBVIOUS
  <1>1. Placed = {}
    BY DEF Init, Placed
  <1>2. DOMAIN Terms = {} /\ Fills = [o \in DOMAIN Terms |-> 0] /\ Alive = {}
    BY <1>1 DEF Terms, Fills, Alive
  <1>3. QED
    BY <1>2 DEF TheMarket!Init, Terms, Fills, Alive, Placed

\* A step that changes neither terms nor fills and revives no order is one of the
\* market: an order leaves, or nothing happens.
LEMMA MarketRetire ==
  ASSUME TypeOK, nextId' = nextId, filled' = filled,
         \A o \in Placed : /\ orders'[o].side = orders[o].side
                           /\ orders'[o].price = orders[o].price
                           /\ orders'[o].quantity = orders[o].quantity
                           /\ IsLive(o)' => IsLive(o)
  PROVE  TheMarket!Next
  <1>1. Placed' = Placed
    BY DEF Placed
  <1>2. Terms' = Terms /\ Fills' = Fills
    BY <1>1 DEF Terms, Fills, Placed
  <1>3. Alive' \subseteq Alive
    BY <1>1 DEF Alive
  <1>4. TheMarket!Retire
    BY <1>2, <1>3 DEF TheMarket!Retire, Terms, Fills, Alive, Placed
  <1>5. QED
    BY <1>4 DEF TheMarket!Next

\* An order that is recorded is accepted by the market.
LEMMA MarketAccept ==
  ASSUME EngineInv, NEW r \in Request, Record(r), phase = "idle"
  PROVE  TheMarket!Next
  <1>1. /\ nextId' = nextId + 1 /\ nextId \in Nat /\ nextId > 0
        /\ \A o \in Placed : /\ orders'[o] = orders[o] /\ filled'[o] = filled[o]
                             /\ status'[o] = status[o]
        /\ filled'[nextId] = 0 /\ status'[nextId] = "open"
    BY RecordInv, Constants DEF Placed, Id
  <1>2. Placed' = Placed \cup {nextId} /\ nextId \notin Placed
    BY <1>1 DEF Placed
  <1>3. /\ DOMAIN Terms = Placed /\ DOMAIN Terms' = Placed'
        /\ \A o \in Placed : Terms'[o] = Terms[o]
    BY <1>1, <1>2 DEF Terms
  <1>4. Fills' = [o \in DOMAIN Terms' |-> IF o = nextId THEN 0 ELSE Fills[o]]
    BY <1>1, <1>2, <1>3 DEF Fills
  <1>5. Alive' = Alive \cup {nextId}
    BY <1>1, <1>2 DEF Alive, IsLive, Live
  <1>6. TheMarket!Accept
    BY <1>2, <1>3, <1>4, <1>5 DEF TheMarket!Accept, Terms, Fills, Alive, Placed
  <1>7. QED
    BY <1>6 DEF TheMarket!Next

\* The two orders of a fill, as the market sees them.
LEMMA TradedOrders ==
  ASSUME EngineInv, NEW m \in Id, Fill(m)
  PROVE  /\ Placed' = Placed /\ Terms' = Terms
         /\ m \in Alive /\ taker \in Alive /\ m # taker
         /\ Terms[m].side = Opposite(Terms[taker].side) /\ Terms[taker].side \in Side
         /\ ~Better(Terms[taker].side, Terms[taker].price, Terms[m].price)
         /\ Terms[taker].price \in Nat /\ Terms[m].price \in Nat
         /\ FillQty(m) \in Nat /\ FillQty(m) > 0
         /\ \A o \in Placed : Fills[o] \in Nat
         /\ Fills' = [o \in Placed |-> IF o \in {m, taker} THEN Fills[o] + FillQty(m)
                                       ELSE Fills[o]]
         /\ \A o \in {m, taker} : Fills'[o] <= Terms[o].quantity
         /\ Alive' = Alive \ {o \in {m, taker} : Fills'[o] = Terms[o].quantity}
  <1> USE DEF EngineInv
  <1> DEFINE q == FillQty(m)
  <1>1. /\ phase = "level" /\ ~TakerDone /\ nextId' = nextId
    BY DEF Fill
  <1>2. /\ taker \in Placed /\ m \in Placed /\ m # taker
        /\ \A o \in Placed : o \in Id /\ orders[o].quantity \in Nat /\ filled[o] \in Nat
                             /\ orders[o].price \in Nat
        /\ orders[taker].side \in Side
    BY <1>1, TakerExists, FillFacts, BookOrders DEF Placed
  <1>3. /\ q \in Nat /\ q > 0
        /\ filled'[m] = filled[m] + q /\ filled'[taker] = filled[taker] + q
        /\ status'[m] = StatusAfter(m) /\ status'[taker] = StatusAfter(taker)
        /\ \A o \in Placed : o \notin {m, taker} => filled'[o] = filled[o] /\ status'[o] = status[o]
        /\ q <= orders[m].quantity - filled[m] /\ q <= orders[taker].quantity - filled[taker]
    BY <1>2, FillFacts DEF Remaining
  <1>4. /\ orders[m].side = MakerSide /\ orders[m].price = at /\ CanMatch(taker, at)
        /\ IsLive(m)
    BY <1>1, FillFacts DEF SweepInv
  <1>5. IsLive(taker)
    BY <1>1, <1>2 DEF TakerInv, TakerDone, IsLive
  <1>6. \A o \in Placed : /\ orders'[o].side = orders[o].side /\ orders'[o].price = orders[o].price
                          /\ orders'[o].quantity = orders[o].quantity
    BY <1>2, ActivationFacts
  <1> HIDE DEF q
  <1>7. Placed' = Placed /\ Terms' = Terms
    BY <1>1, <1>6 DEF Placed, Terms
  <1>8. /\ m \in Alive /\ taker \in Alive
        /\ Terms[m].side = Opposite(Terms[taker].side) /\ Terms[taker].side \in Side
        /\ ~Better(Terms[taker].side, Terms[taker].price, Terms[m].price)
        /\ Terms[taker].price \in Nat /\ Terms[m].price \in Nat
    BY <1>2, <1>4, <1>5 DEF Alive, Terms, MakerSide, CanMatch
  <1>9. /\ \A o \in Placed : Fills[o] \in Nat
        /\ Fills' = [o \in Placed |-> IF o \in {m, taker} THEN Fills[o] + q ELSE Fills[o]]
    BY <1>2, <1>3, <1>7 DEF Fills
  <1>10. \A o \in {m, taker} : Fills'[o] <= Terms[o].quantity /\ Fills'[o] = filled'[o]
    BY <1>2, <1>3, <1>7 DEF Fills, Terms
  <1>11. \A o \in {m, taker} : IsLive(o)' <=> Fills'[o] # Terms[o].quantity
    BY <1>2, <1>3, <1>6, <1>10 DEF StatusAfter, IsLive, Live, Terms
  <1>12. \A o \in Placed : o \notin {m, taker} => (IsLive(o)' <=> IsLive(o))
    BY <1>3 DEF IsLive
  <1>13. Alive' = Alive \ {o \in {m, taker} : Fills'[o] = Terms[o].quantity}
    BY <1>7, <1>8, <1>11, <1>12 DEF Alive
  <1>14. QED
    BY <1>2, <1>3, <1>7, <1>8, <1>9, <1>10, <1>13 DEF q

\* A fill is a trade of the market, between the taker and a maker on its other side.
LEMMA MarketTrade ==
  ASSUME EngineInv, NEW m \in Id, Fill(m)
  PROVE  TheMarket!Next
  <1> DEFINE q == FillQty(m)
  <1>1. ASSUME NEW b \in Placed, NEW s \in Placed, {b, s} = {m, taker}, b # s,
               Terms[b].side = "buy", Terms[s].side = "sell", Terms[s].price <= Terms[b].price
        PROVE  TheMarket!Next
    <2>1. /\ Fills' = [o \in Placed |-> IF o \in {b, s} THEN Fills[o] + q ELSE Fills[o]]
          /\ q \in Nat /\ q > 0 /\ \A o \in Placed : Fills[o] \in Nat
      BY <1>1, TradedOrders
    <2> HIDE DEF q
    <2>2. Fills'[b] - Fills[b] = q
      BY <2>1
    <2>3. Fills' = [Fills EXCEPT ![b] = @ + q, ![s] = @ + q]
      BY <1>1, <2>1 DEF Fills
    <2>4. /\ {b, s} \subseteq Alive
          /\ Terms' = Terms
          /\ \A o \in {b, s} : Fills'[o] <= Terms[o].quantity
          /\ Alive' = Alive \ {o \in {b, s} : Fills'[o] = Terms[o].quantity}
      BY <1>1, TradedOrders
    <2>5. TheMarket!Trade(b, s)
      BY <1>1, <2>1, <2>2, <2>3, <2>4 DEF TheMarket!Trade, Terms, Fills, Alive, Placed
    <2>6. QED
      BY <2>4, <2>5 DEF TheMarket!Next, Alive, Placed
  <1>2. m \in Placed /\ taker \in Placed /\ m # taker
    BY TradedOrders DEF Alive
  <1>3. CASE Terms[taker].side = "buy"
    <2>1. Terms[m].side = "sell" /\ Terms[m].price <= Terms[taker].price
      BY <1>3, TradedOrders DEF Opposite, Better
    <2>2. QED
      BY <1>1, <1>2, <1>3, <2>1
  <1>4. CASE Terms[taker].side = "sell"
    <2>1. Terms[m].side = "buy" /\ Terms[taker].price <= Terms[m].price
      BY <1>4, TradedOrders DEF Opposite, Better
    <2>2. QED
      BY <1>1, <1>2, <1>4, <2>1
  <1>5. QED
    BY <1>3, <1>4, TradedOrders DEF Side

\* Every step of the engine is a step of the market or leaves it alone.
LEMMA StepMarket == EngineInv /\ [Next]_vars => [TheMarket!Next]_(TheMarket!vars)
  <1> SUFFICES ASSUME EngineInv, [Next]_vars PROVE TheMarket!Next
    OBVIOUS
  <1> USE DEF EngineInv
  <1>1. ASSUME NEW r \in Requests, PlaceOrder(r) \/ PlaceStop(r) \/ PlaceStopThrows(r)
        PROVE  TheMarket!Next
    <2>1. r \in Request /\ Record(r) /\ phase = "idle"
      BY <1>1, Constants DEF PlaceOrder, PlaceStop, PlaceStopThrows, StartMatch, Idle
    <2>2. QED
      BY <2>1, MarketAccept
  <1>2. ASSUME NEW q \in Quantities, SeedPlace(q) PROVE TheMarket!Next
    <2> DEFINE r == SeedRequest(seedStep, q)
    <2>1. Record(r) /\ phase = "idle" /\ seedStep \in 1..(2 * SeedLevels)
      BY <1>2 DEF SeedPlace, StartMatch
    <2>2. seedMid \in SeedMids
      BY <2>1, Constants DEF TypeOK
    <2>3. r \in Request
      BY <2>1, <2>2, SeedRequestType
    <2> HIDE DEF r
    <2>4. QED
      BY <2>1, <2>3, MarketAccept
  <1>3. ASSUME NEW m \in Id, Fill(m) PROVE TheMarket!Next
    BY <1>3, MarketTrade
  <1>4. CASE \/ EnterLevel \/ EndSweep \/ CloseLevel \/ EmitTrade \/ RestRemainder \/ FinishFilled
             \/ (\E m \in Id : SkipMaker(m)) \/ SeedEnd \/ (\E mid \in SeedMids : SeedStart(mid))
             \/ UNCHANGED vars
    <2>1. UNCHANGED <<nextId, orders, filled, status>>
      BY <1>4 DEF EnterLevel, EndSweep, CloseLevel, EmitTrade, RestRemainder, FinishFilled, Return,
         SkipMaker, SeedEnd, SeedStart, vars
    <2>2. QED
      BY <2>1, MarketRetire DEF IsLive
  <1>5. CASE CloseMarket
    <2>1. /\ UNCHANGED <<nextId, orders, filled>> /\ taker \in Id
          /\ status' = [status EXCEPT ![taker] = IF filled[taker] > 0 THEN "filled" ELSE "cancelled"]
      BY <1>5, TakerExists DEF CloseMarket, Return
    <2>2. \A o \in Id : IsLive(o)' => IsLive(o)
      BY <2>1 DEF IsLive, Live, TypeOK
    <2>3. QED
      BY <2>1, <2>2, BookOrders, MarketRetire DEF Placed
  <1>6. ASSUME NEW o \in Id, CancelOrder(o) PROVE TheMarket!Next
    <2>1. /\ UNCHANGED <<nextId, orders, filled>> /\ status' = [status EXCEPT ![o] = "cancelled"]
      BY <1>6 DEF CancelOrder
    <2>2. \A x \in Id : IsLive(x)' => IsLive(x)
      BY <2>1 DEF IsLive, Live, TypeOK
    <2>3. QED
      BY <2>1, <2>2, BookOrders, MarketRetire DEF Placed
  <1>7. QED
    BY <1>1, <1>2, <1>3, <1>4, <1>5, <1>6 DEF Next, MatchStep, SeedStep, Call

\* The engine implements the market, whatever is parked, activated, swept or
\* cancelled on the way (placeOrder, match, checkStopOrders, cancelOrder, seed).
THEOREM EngineIsAMarket == Spec => ImplementsMarket
  <1>1. QED
    BY MarketInit, Invariance, StepMarket, PTL DEF Spec, ImplementsMarket, TheMarket!Spec

-----------------------------------------------------------------------------
(***************************************************************************)
(* Nothing is lost: fills and trades agree, and every live order is held   *)
(* once.                                                                   *)
(***************************************************************************)
\* What a trade filled of an order.
Share(t, o) == IF o \in {t.maker, t.taker} THEN t.quantity ELSE 0
Shares(s, o) == [i \in DOMAIN s |-> Share(s[i], o)]

\* The fills of a sequence of trades, when one is put at either end, whatever else a
\* trade says.
LEMMA TradedMoreOf ==
  ASSUME NEW R, \A x \in R : x.quantity \in Nat, NEW s \in Seq(R), NEW t \in R, NEW o
  PROVE  /\ Traded(s, o) \in Nat /\ Share(t, o) \in Nat
         /\ Traded(Append(s, t), o) = Traded(s, o) + Share(t, o)
         /\ Traded(<<t>> \o s, o) = Traded(s, o) + Share(t, o)
  <1> DEFINE n == Len(s)
             w == Shares(s, o)
             v == Shares(Append(s, t), o)
             u == Shares(<<t>> \o s, o)
  <1>1. n \in Nat /\ DOMAIN s = 1..n /\ Share(t, o) \in Nat /\ \A i \in 1..n : s[i] \in R
    <2>1. n \in Nat /\ DOMAIN s = 1..n /\ \A i \in 1..n : s[i] \in R
      OBVIOUS
    <2>2. Share(t, o) \in Nat
      BY DEF Share
    <2>3. QED
      BY <2>1, <2>2
  <1>2. /\ DOMAIN Append(s, t) = 1..(n + 1) /\ Append(s, t)[n + 1] = t
        /\ \A i \in 1..n : Append(s, t)[i] = s[i]
    OBVIOUS
  <1>3. /\ DOMAIN (<<t>> \o s) = 1..(n + 1) /\ (<<t>> \o s)[1] = t
        /\ \A i \in 1..n : (<<t>> \o s)[i + 1] = s[i]
    OBVIOUS
  <1>4. \A i \in 1..n : Share(s[i], o) \in Nat
    BY <1>1 DEF Share
  <1>5. /\ \A i \in 1..n : w[i] = Share(s[i], o) /\ v[i] = w[i] /\ u[i + 1] = w[i]
        /\ v[n + 1] = Share(t, o) /\ u[1] = Share(t, o)
    <2>1. \A i \in 1..n : i \in 1..(n + 1) /\ i + 1 \in 1..(n + 1)
      BY <1>1
    <2>2. n + 1 \in 1..(n + 1) /\ 1 \in 1..(n + 1)
      BY <1>1
    <2>3. QED
      BY <1>1, <1>2, <1>3, <2>1, <2>2 DEF Shares
  <1>6. Traded(s, o) = SumFunctionOnSet(w, 1..n)
    BY <1>1 DEF Traded, Shares, Share
  <1>7. Traded(Append(s, t), o) = SumFunctionOnSet(v, 1..(n + 1))
    BY <1>2 DEF Traded, Shares, Share
  <1>8. Traded(<<t>> \o s, o) = SumFunctionOnSet(u, 1..(n + 1))
    BY <1>3 DEF Traded, Shares, Share
  <1> HIDE DEF n, w, v, u
  <1>9. /\ IntOn(w, 1..n) /\ NatOn(w, 1..n) /\ SameOn(v, w, 1..n)
        /\ IntOn(v, 1..(n + 1)) /\ IntOn(u, 1..(n + 1))
    <2>1. IntOn(w, 1..n) /\ NatOn(w, 1..n) /\ SameOn(v, w, 1..n)
      BY <1>4, <1>5 DEF IntOn, NatOn, SameOn
    <2>2. \A i \in 1..(n + 1) : i \in 1..n \/ i = n + 1
      BY <1>1
    <2>3. IntOn(v, 1..(n + 1))
      <3>1. \A i \in 1..n : v[i] \in Int
        BY <1>4, <1>5
      <3>2. v[n + 1] \in Int
        BY <1>1, <1>5
      <3>3. QED
        BY <2>2, <3>1, <3>2 DEF IntOn
    <2>4. \A i \in 1..(n + 1) : i = 1 \/ (i - 1 \in 1..n /\ i = (i - 1) + 1)
      BY <1>1
    <2>5. IntOn(u, 1..(n + 1))
      <3> SUFFICES ASSUME NEW i \in 1..(n + 1) PROVE u[i] \in Int
        BY DEF IntOn
      <3>1. CASE i = 1
        BY <1>1, <1>5, <3>1
      <3>2. CASE i # 1
        <4>1. i - 1 \in 1..n /\ u[(i - 1) + 1] = w[i - 1] /\ w[i - 1] \in Nat /\ (i - 1) + 1 = i
          BY <1>1, <1>4, <1>5, <2>4, <3>2
        <4>2. QED
          BY <4>1
      <3>3. QED
        BY <3>1, <3>2
    <2>6. QED
      BY <2>1, <2>3, <2>5
  <1>10. SumFunctionOnSet(v, 1..(n + 1)) = SumFunctionOnSet(w, 1..n) + v[n + 1]
    BY <1>1, <1>9, SumNext
  <1>11. SumFunctionOnSet(u, 1..(n + 1)) = u[1] + SumFunctionOnSet(w, 1..n)
    BY <1>1, <1>5, <1>9, SumShift
  <1>12. SumFunctionOnSet(w, 1..n) \in Nat
    <2>1. IsFiniteSet(1..n)
      BY <1>1, FS_Interval
    <2>2. QED
      BY <1>9, <2>1, SumNat
  <1>13. QED
    BY <1>1, <1>5, <1>6, <1>7, <1>8, <1>10, <1>11, <1>12

\* The same for the trades of the engine.
LEMMA TradedMore ==
  ASSUME NEW s \in Seq(TradeRecord), NEW t \in TradeRecord, NEW o
  PROVE  /\ Traded(s, o) \in Nat /\ Share(t, o) \in Nat
         /\ Traded(Append(s, t), o) = Traded(s, o) + Share(t, o)
         /\ Traded(<<t>> \o s, o) = Traded(s, o) + Share(t, o)
  <1>1. \A x \in TradeRecord : x.quantity \in Nat
    BY DEF TradeRecord
  <1>2. QED
    BY <1>1, TradedMoreOf

\* An order that is in none of the trades was not filled by them.
LEMMA TradedNone ==
  ASSUME NEW R, NEW s \in Seq(R), NEW o, \A i \in DOMAIN s : o \notin {s[i].maker, s[i].taker}
  PROVE  Traded(s, o) = 0
  <1> DEFINE w == Shares(s, o)
  <1>1. DOMAIN s = 1..Len(s) /\ Len(s) \in Nat
    OBVIOUS
  <1>2. IsFiniteSet(DOMAIN s)
    BY <1>1, FS_Interval
  <1>3. \A i \in DOMAIN s : w[i] = 0
    BY DEF Shares, Share
  <1>4. Traded(s, o) = SumFunctionOnSet(w, DOMAIN s)
    BY DEF Traded, Shares, Share
  <1> HIDE DEF w
  <1>5. QED
    BY <1>2, <1>3, <1>4, SumZero

\* A trade of two orders that exist, at the maker's price, which the taker accepts.
ToldBy(t, ord, n) ==
  /\ t \in TradeRecord /\ t.maker \in 1..n /\ t.taker \in 1..n
  /\ t.price = ord[t.maker].price
  /\ IF t.side = "buy" THEN t.price <= ord[t.taker].price ELSE t.price >= ord[t.taker].price
TradesTold == \A s \in {newTrades, trades} : \A i \in DOMAIN s : ToldBy(s[i], orders, nextId - 1)
FillsTold == \A o \in Placed : filled[o] = Traded(newTrades, o) + Traded(trades, o)

\* Every live order but the taker is held once; what is held and dead is a stop order that
\* was cancelled, or a maker of the level that is being swept.
HeldInv ==
  /\ \A o \in Placed : o # taker /\ IsLive(o) =>
       \/ Orphan(o) /\ o \notin book \cup stopOrders
       \/ ~Orphan(o) /\ (o \in book <=> o \notin stopOrders)
  /\ \A o \in book : \/ IsLive(o) \/ (status[o] = "cancelled" /\ orders[o].stopPrice # 0)
                     \/ (phase = "level" /\ o \in Level(MakerSide, at))
  /\ \A o \in stopOrders : IsLive(o) \/ status[o] = "cancelled"
  /\ \A s \in Side : IsFiniteSet(levels[s])

LossIInv == TradesTold /\ FillsTold /\ HeldInv

\* A trade that was told stays true while prices stay and orders are added.
LEMMA ToldKeeps ==
  ASSUME NEW t, NEW ord, NEW ord2, NEW n \in Nat, NEW n2 \in Nat, n <= n2, ToldBy(t, ord, n),
         \A o \in 1..n : ord2[o].price = ord[o].price
  PROVE  ToldBy(t, ord2, n2)
  <1>1. t.maker \in 1..n2 /\ t.taker \in 1..n2
    BY DEF ToldBy
  <1>2. QED
    BY <1>1 DEF ToldBy

\* A step that tells nothing and fills nothing.
LEMMA ToldQuiet ==
  ASSUME TypeOK, TradesTold, FillsTold, UNCHANGED <<nextId, newTrades, trades, filled>>,
         \A o \in Placed : orders'[o].price = orders[o].price
  PROVE  TradesTold' /\ FillsTold'
  <1>1. nextId - 1 \in Nat /\ nextId - 1 <= nextId - 1
    BY Constants DEF TypeOK
  <1>2. \A t : ToldBy(t, orders, nextId - 1) => ToldBy(t, orders', nextId - 1)
    BY <1>1, ToldKeeps DEF Placed
  <1>3. QED
    BY <1>2 DEF TradesTold, FillsTold, Placed

\* The record of a new order: nothing was traded for it.
LEMMA ToldRecord ==
  ASSUME EngineInv, TradesTold, FillsTold, NEW r \in Request, Record(r), phase = "idle",
         UNCHANGED <<newTrades, trades>>
  PROVE  TradesTold' /\ FillsTold'
  <1>1. /\ nextId - 1 \in Nat /\ nextId' - 1 \in Nat /\ nextId - 1 <= nextId' - 1
        /\ nextId \notin Placed /\ nextId' - 1 = nextId
        /\ \A o \in Placed' : o \in Placed \/ o = nextId
        /\ \A o \in Placed : orders'[o] = orders[o] /\ filled'[o] = filled[o]
        /\ filled'[nextId] = 0
    <2>1. /\ nextId' = nextId + 1 /\ nextId \in Nat /\ nextId >= 1
          /\ \A o \in Placed : orders'[o] = orders[o] /\ filled'[o] = filled[o]
          /\ filled'[nextId] = 0
          /\ \A o \in Placed' : o \in Placed \/ o = nextId
      BY RecordInv, Constants DEF Id, Placed
    <2>2. QED
      BY <2>1 DEF Placed
  <1>2. \A t : ToldBy(t, orders, nextId - 1) => ToldBy(t, orders', nextId' - 1)
    BY <1>1, ToldKeeps DEF Placed
  <1>3. TradesTold'
    BY <1>2 DEF TradesTold
  <1>4. \A s \in {newTrades, trades} : Traded(s, nextId) = 0
    <2> SUFFICES ASSUME NEW s \in {newTrades, trades} PROVE Traded(s, nextId) = 0
      OBVIOUS
    <2>1. s \in Seq(TradeRecord)
      BY DEF EngineInv, TypeOK
    <2>2. \A i \in DOMAIN s : nextId \notin {s[i].maker, s[i].taker}
      BY <1>1 DEF TradesTold, ToldBy, Placed
    <2>3. QED
      BY <2>1, <2>2, TradedNone
  <1>5. FillsTold'
    BY <1>1, <1>4 DEF FillsTold
  <1>6. QED
    BY <1>3, <1>5

\* A trade that is handed out moves from one list to the other.
LEMMA ToldEmit ==
  ASSUME EngineInv, TradesTold, FillsTold, EmitTrade
  PROVE  TradesTold' /\ FillsTold'
  <1> DEFINE h == Head(newTrades)
             rest == Tail(newTrades)
  <1>1. /\ newTrades # <<>> /\ newTrades \in Seq(TradeRecord) /\ trades \in Seq(TradeRecord)
        /\ trades' = <<h>> \o trades /\ newTrades' = rest
        /\ UNCHANGED <<nextId, orders, filled>>
    BY DEF EmitTrade, EngineInv, TypeOK
  <1>2. h \in TradeRecord /\ rest \in Seq(TradeRecord) /\ newTrades = <<h>> \o rest
    BY <1>1
  <1>3. ToldBy(h, orders, nextId - 1) /\ \A i \in DOMAIN rest : ToldBy(rest[i], orders, nextId - 1)
    <2>1. 1 \in DOMAIN newTrades /\ h = newTrades[1]
      BY <1>1
    <2>2. \A i \in DOMAIN rest : i + 1 \in DOMAIN newTrades /\ rest[i] = newTrades[i + 1]
      BY <1>1
    <2> HIDE DEF h, rest
    <2>3. QED
      BY <2>1, <2>2 DEF TradesTold
  <1> HIDE DEF h, rest
  <1>4. \A i \in DOMAIN trades' : ToldBy(trades'[i], orders, nextId - 1)
    <2>1. \A i \in DOMAIN trades' : trades'[i] = h \/ \E j \in DOMAIN trades : trades'[i] = trades[j]
      <3> SUFFICES ASSUME NEW i \in DOMAIN trades', i # 1
                   PROVE  \E j \in DOMAIN trades : trades'[i] = trades[j]
        BY <1>1
      <3>1. i - 1 \in DOMAIN trades /\ trades'[i] = trades[i - 1]
        BY <1>1, <1>2
      <3>2. QED
        BY <3>1
    <2>2. QED
      BY <1>3, <2>1 DEF TradesTold
  <1>5. TradesTold'
    BY <1>1, <1>3, <1>4 DEF TradesTold
  <1>6. ASSUME NEW o \in Placed
        PROVE  Traded(newTrades', o) + Traded(trades', o) = Traded(newTrades, o) + Traded(trades, o)
    <2>1. /\ Traded(newTrades, o) = Traded(rest, o) + Share(h, o)
          /\ Traded(rest, o) \in Nat /\ Share(h, o) \in Nat
      BY <1>2, TradedMore
    <2>2. Traded(trades', o) = Traded(trades, o) + Share(h, o) /\ Traded(trades, o) \in Nat
      BY <1>1, <1>2, TradedMore
    <2>3. Traded(newTrades', o) = Traded(rest, o)
      BY <1>1
    <2>4. QED
      BY <2>1, <2>2, <2>3
  <1>7. FillsTold'
    BY <1>1, <1>6 DEF FillsTold, Placed
  <1>8. QED
    BY <1>5, <1>7

\* A fill is told to both orders.
LEMMA ToldFill ==
  ASSUME EngineInv, TradesTold, FillsTold, NEW m \in Id, Fill(m)
  PROVE  TradesTold' /\ FillsTold'
  <1> DEFINE q == FillQty(m)
             t == [price |-> at, quantity |-> q, side |-> orders[taker].side,
                   maker |-> m, taker |-> taker]
  <1>1. /\ m \in Placed /\ taker \in Placed /\ m # taker /\ q \in Nat /\ q > 0
        /\ m \in Id /\ taker \in Id /\ orders[m].price = at /\ phase = "level"
        /\ filled'[m] = filled[m] + q /\ filled'[taker] = filled[taker] + q
        /\ \A o \in Id : o # m /\ o # taker => filled'[o] = filled[o]
    <2>1. phase = "level"
      BY DEF Fill
    <2>2. QED
      BY <2>1, FillFacts, TakerExists DEF EngineInv, Placed
  <1>2. /\ newTrades' = Append(newTrades, t) /\ UNCHANGED <<nextId, trades>>
    BY DEF Fill
  <1>3. at \in Prices /\ CanMatch(taker, at) /\ orders[taker].side \in Side
    BY <1>1, TakerExists DEF EngineInv, SweepInv
  <1>4. t \in TradeRecord
    BY <1>1, <1>3 DEF TradeRecord
  <1>5. /\ \A o \in Placed : orders'[o].price = orders[o].price
        /\ nextId - 1 \in Nat /\ nextId - 1 <= nextId - 1
    <2>1. \A o \in Id : orders'[o].price = orders[o].price
      BY ActivationFacts
    <2>2. \A o \in Placed : o \in Id
      BY BookOrders DEF EngineInv, Placed
    <2>3. QED
      BY <2>1, <2>2, Constants DEF EngineInv, TypeOK
  <1>6. \A x : ToldBy(x, orders, nextId - 1) => ToldBy(x, orders', nextId - 1)
    BY <1>5, ToldKeeps DEF Placed
  <1>7. ToldBy(t, orders, nextId - 1)
    <2>1. orders[taker].price \in Nat /\ at \in Nat
      BY <1>1, <1>3, TakerExists, Constants DEF EngineInv
    <2>2. IF t.side = "buy" THEN t.price <= orders[t.taker].price ELSE t.price >= orders[t.taker].price
      BY <1>3, <2>1 DEF CanMatch, Better, Side
    <2>3. QED
      BY <1>1, <1>4, <2>2 DEF ToldBy, Placed
  <1>8. newTrades \in Seq(TradeRecord) /\ trades \in Seq(TradeRecord)
    BY DEF EngineInv, TypeOK
  <1> HIDE DEF t
  <1>9. TradesTold'
    <2>1. \A i \in DOMAIN newTrades' : newTrades'[i] = t \/ \E j \in DOMAIN newTrades : newTrades'[i] = newTrades[j]
      BY <1>2, <1>4, <1>8
    <2>2. QED
      BY <1>2, <1>6, <1>7, <2>1 DEF TradesTold
  <1>10. ASSUME NEW o \in Placed
         PROVE  /\ Traded(newTrades', o) = Traded(newTrades, o) + Share(t, o)
                /\ Traded(newTrades, o) \in Nat /\ Traded(trades, o) \in Nat
    BY <1>2, <1>4, <1>8, TradedMore
  <1>11. /\ Share(t, m) = q /\ Share(t, taker) = q
         /\ \A o : o # m /\ o # taker => Share(t, o) = 0
    BY DEF Share, t
  <1> HIDE DEF q
  <1>12. \A o \in Placed : filled'[o] = filled[o] + Share(t, o)
    <2>1. \A o \in Placed : o \in Id /\ filled[o] \in Nat
      BY BookOrders DEF EngineInv, Placed
    <2>2. QED
      BY <1>1, <1>11, <2>1
  <1>13. FillsTold'
    <2>1. \A o \in Placed : Share(t, o) \in Nat
      BY <1>1, <1>11
    <2>2. \A o \in Placed : filled[o] = Traded(newTrades, o) + Traded(trades, o)
      BY DEF FillsTold
    <2>3. \A o \in Placed : filled'[o] = Traded(newTrades', o) + Traded(trades, o)
      BY <1>10, <1>12, <2>1, <2>2
    <2>4. QED
      BY <1>2, <2>3 DEF FillsTold, Placed
  <1>14. QED
    BY <1>9, <1>13

-----------------------------------------------------------------------------
\* A step that holds what was held, revives nothing and ends no sweep of a level.
LEMMA HeldQuiet ==
  ASSUME HeldInv,
         UNCHANGED <<nextId, orders, status, book, stopOrders, levels, taker, at>>,
         phase' = "level" \/ phase # "level"
  PROVE  HeldInv'
  BY DEF HeldInv, Placed, IsLive, Orphan, Level, MakerSide

\* The record of a new order, which becomes the taker, is parked, or is an orphan.
LEMMA HeldRecord ==
  ASSUME EngineInv, HeldInv, NEW r \in Request, Record(r), phase = "idle",
         UNCHANGED <<book, levels>>,
         \/ taker' = nextId /\ stopOrders' = stopOrders /\ phase' = "sweep"
         \/ /\ taker' = taker /\ phase' = phase /\ r.type = "stop-limit"
            /\ IF r.stopPrice = 0 THEN stopOrders' = stopOrders ELSE stopOrders' = stopOrders \cup {nextId}
  PROVE  HeldInv'
  <1>1. /\ nextId \notin book \cup stopOrders /\ book \cup stopOrders \subseteq Placed
        /\ \A o \in Placed' : o \in Placed \/ o = nextId
        /\ \A o \in Placed : o # nextId /\ orders'[o] = orders[o] /\ status'[o] = status[o]
        /\ orders'[nextId].type = r.type /\ orders'[nextId].stopPrice = r.stopPrice
        /\ status'[nextId] = "open"
    BY RecordInv DEF Placed
  <1>2. taker = 0 /\ taker \notin Placed
    BY DEF EngineInv, TypeOK, Placed
  <1>3. ASSUME NEW o \in Placed', o # taker', IsLive(o)'
        PROVE  \/ Orphan(o)' /\ o \notin book' \cup stopOrders'
               \/ ~Orphan(o)' /\ (o \in book' <=> o \notin stopOrders')
    <2>1. CASE o \in Placed
      <3>1. IsLive(o) /\ (Orphan(o)' <=> Orphan(o)) /\ o # taker /\ o # nextId
        BY <1>1, <1>2, <1>3, <2>1 DEF IsLive, Orphan
      <3>2. QED
        BY <2>1, <3>1 DEF HeldInv
    <2>2. CASE o = nextId
      BY <1>1, <1>3, <2>2 DEF Orphan
    <2>3. QED
      BY <1>1, <1>3, <2>1, <2>2
  <1>4. \A o \in book' : IsLive(o)' \/ (status'[o] = "cancelled" /\ orders'[o].stopPrice # 0)
    BY <1>1 DEF HeldInv, IsLive
  <1>5. \A o \in stopOrders' : IsLive(o)' \/ status'[o] = "cancelled"
    BY <1>1 DEF HeldInv, IsLive, Live
  <1>6. QED
    BY <1>3, <1>4, <1>5 DEF HeldInv

\* Prices join the keys of a Map one at a time, or a few orders' together.
LEMMA LevelsPush ==
  ASSUME \A s \in Side : IsFiniteSet(levels[s]), NEW S, IsFiniteSet(S), Push(S)
  PROVE  \A s \in Side : IsFiniteSet(levels'[s])
  <1> SUFFICES ASSUME NEW s \in Side PROVE IsFiniteSet(levels'[s])
    OBVIOUS
  <1> DEFINE T == {x \in S : orders[x].side = s}
             P == {orders[o].price : o \in T}
  <1>1. IsFiniteSet(T)
    BY FS_Subset
  <1>2. IsFiniteSet(P)
    <2>1. \E f : f = [o \in T |-> orders[o].price]
      OBVIOUS
    <2>2. PICK f : f = [o \in T |-> orders[o].price]
      BY <2>1
    <2>3. f \in Surjection(T, P)
      BY <2>2 DEF Surjection
    <2> HIDE DEF T, P
    <2>4. QED
      BY <1>1, <2>3, FS_Surjection
  <1>3. levels'[s] = levels[s] \cup P
    BY DEF Push
  <1> HIDE DEF P
  <1>4. QED
    BY <1>2, <1>3, FS_Union

\* Sets of orders are finite.
LEMMA FiniteOrders == \A S \in SUBSET Id : IsFiniteSet(S)
  <1>1. IsFiniteSet(Id)
    BY Constants, FS_Interval DEF Id
  <1>2. QED
    BY <1>1, FS_Subset

\* A fill: the maker may be full, its level is being swept; activated stops move to the book.
LEMMA HeldFill ==
  ASSUME EngineInv, HeldInv, NEW m \in Id, Fill(m), NEW hit, hit = Triggered(lastPrice, at)
  PROVE  HeldInv'
  <1>1. /\ m \in book /\ m # taker /\ m \in Placed /\ orders[m].side = MakerSide
        /\ orders[m].price = at
        /\ \A o \in Id : o # m /\ o # taker => status'[o] = status[o]
        /\ status'[m] \in {"filled", "partial"}
    <2>1. status'[m] = StatusAfter(m)
      BY FillFacts
    <2>2. QED
      BY <2>1, FillFacts DEF Placed, StatusAfter
  <1>2. /\ hit \subseteq stopOrders /\ hit \subseteq Placed /\ stopOrders' = stopOrders \ hit
        /\ book' = book \cup hit
        /\ \A o \in Id : /\ orders'[o].side = orders[o].side /\ orders'[o].price = orders[o].price
                         /\ orders'[o].stopPrice = orders[o].stopPrice
                         /\ orders'[o].type = IF o \in hit THEN "limit" ELSE orders[o].type
        /\ \A o \in hit : orders[o].stopPrice # 0
    BY ActivationFacts DEF Placed
  <1>3. /\ UNCHANGED <<nextId, phase, taker, at>> /\ phase = "level" /\ Push(hit)
    BY DEF Fill, CheckStopOrders
  <1>4. /\ taker \notin book \cup stopOrders /\ taker \in Id
        /\ \A o \in stopOrders : o \notin book
        /\ \A o \in Placed : o \in Id
        /\ book \subseteq Placed /\ stopOrders \subseteq Placed
    BY <1>3, TakerExists, BookOrders DEF EngineInv, TypeOK, TakerInv, BookInv, Placed
  <1>5. \A o \in Level(MakerSide, at) : o \in Level(MakerSide, at)'
    BY <1>2, <1>3, <1>4 DEF Level, MakerSide
  <1>6. \A o \in Placed : o # taker => (Orphan(o)' <=> Orphan(o))
    BY <1>2, <1>4 DEF Orphan
  <1>7. m \in Level(MakerSide, at)
    BY <1>1 DEF Level
  <1>8. ASSUME NEW o \in Placed', o # taker', IsLive(o)'
        PROVE  \/ Orphan(o)' /\ o \notin book' \cup stopOrders'
               \/ ~Orphan(o)' /\ (o \in book' <=> o \notin stopOrders')
    <2>1. o \in Placed /\ o # taker
      BY <1>3, <1>8 DEF Placed
    <2>2. IsLive(o)
      BY <1>1, <1>4, <1>8, <2>1, FillFacts DEF IsLive
    <2>3. \/ Orphan(o) /\ o \notin book \cup stopOrders
          \/ ~Orphan(o) /\ (o \in book <=> o \notin stopOrders)
      BY <2>1, <2>2 DEF HeldInv
    <2>4. QED
      BY <1>2, <1>4, <1>6, <2>1, <2>3
  <1>9. ASSUME NEW o \in book'
        PROVE  \/ IsLive(o)' \/ (status'[o] = "cancelled" /\ orders'[o].stopPrice # 0)
               \/ (phase' = "level" /\ o \in Level(MakerSide, at)')
    <2>1. CASE o = m
      BY <1>3, <1>5, <1>7, <2>1
    <2>2. CASE o # m
      <3>1. o # taker /\ o \in Id /\ status'[o] = status[o] /\ orders'[o].stopPrice = orders[o].stopPrice
        BY <1>1, <1>2, <1>4, <2>2, <1>9
      <3>2. CASE o \in book
        BY <1>3, <1>5, <3>1, <3>2 DEF HeldInv, IsLive
      <3>3. CASE o \in hit
        BY <1>2, <3>1, <3>3 DEF HeldInv, IsLive
      <3>4. QED
        BY <1>2, <1>9, <3>2, <3>3
    <2>3. QED
      BY <2>1, <2>2
  <1>10. \A o \in stopOrders' : IsLive(o)' \/ status'[o] = "cancelled"
    <2>1. \A o \in stopOrders : o # m /\ o # taker /\ o \in Id
      BY <1>1, <1>4
    <2>2. QED
      BY <1>1, <1>2, <2>1 DEF HeldInv, IsLive
  <1>11. \A s \in Side : IsFiniteSet(levels'[s])
    <2>1. IsFiniteSet(hit)
      BY <1>2, <1>4, FiniteOrders
    <2>2. QED
      BY <1>3, <2>1, LevelsPush DEF HeldInv
  <1>12. QED
    BY <1>8, <1>9, <1>10, <1>11 DEF HeldInv

\* The end of a level: its dead makers leave the book.
LEMMA HeldClose ==
  ASSUME EngineInv, HeldInv, CloseLevel
  PROVE  HeldInv'
  <1> DEFINE dead == {o \in Level(MakerSide, at) : ~IsLive(o)}
  <1>1. /\ book' = book \ dead /\ phase' = "sweep"
        /\ UNCHANGED <<nextId, orders, status, stopOrders, taker>>
    BY DEF CloseLevel
  <1>2. \A o \in Placed : IsLive(o) => o \notin dead
    OBVIOUS
  <1>3. \A s \in Side : IsFiniteSet(levels'[s])
    <2>1. levels \in [Side -> SUBSET Prices]
      BY DEF EngineInv, TypeOK
    <2>2. \A s \in Side : levels'[s] \in SUBSET levels[s]
      BY <2>1 DEF CloseLevel
    <2>3. QED
      BY <2>2, FS_Subset DEF HeldInv
  <1>4. \A o \in book' : IsLive(o) \/ (status[o] = "cancelled" /\ orders[o].stopPrice # 0)
    BY <1>1 DEF HeldInv
  <1> HIDE DEF dead
  <1>5. QED
    BY <1>1, <1>2, <1>3, <1>4 DEF HeldInv, Placed, IsLive, Orphan

\* The end of a call: a live limit order is pushed, a market order is closed.
LEMMA HeldReturn ==
  ASSUME EngineInv, HeldInv, RestRemainder \/ CloseMarket \/ FinishFilled
  PROVE  HeldInv'
  <1>1. /\ Return /\ phase = "emit" /\ phase' = "idle" /\ taker' = 0
        /\ UNCHANGED <<nextId, orders, stopOrders, at>>
    BY DEF RestRemainder, CloseMarket, FinishFilled, Return
  <1>2. /\ taker \in Placed /\ taker \in Id /\ taker \notin book \cup stopOrders /\ taker # 0
        /\ book \cup stopOrders \subseteq Id
        /\ orders[taker].type \in {"limit", "market"} /\ 0 \notin Placed
    BY <1>1, TakerExists, BookOrders DEF EngineInv, TypeOK, TakerInv, Placed, Id
  <1>3. ~Orphan(taker)
    BY <1>2 DEF Orphan
  <1>4. CASE RestRemainder
    <2>1. UNCHANGED status /\ IsLive(taker) /\ Push({taker}) /\ book' = book \cup {taker}
      BY <1>4 DEF RestRemainder, Push
    <2>2. \A s \in Side : IsFiniteSet(levels'[s])
      BY <2>1, FS_Singleton, LevelsPush DEF HeldInv
    <2>3. QED
      BY <1>1, <1>2, <1>3, <2>1, <2>2 DEF HeldInv, Placed, IsLive, Orphan
  <1>5. CASE CloseMarket \/ FinishFilled
    <2>1. /\ UNCHANGED <<book, levels>> /\ \A o \in Id : o # taker => status'[o] = status[o]
          /\ status'[taker] \notin Live
      <3>1. CASE CloseMarket
        <4>1. UNCHANGED <<book, levels>> /\ \A o \in Id : o # taker => status'[o] = status[o]
          BY <3>1 DEF CloseMarket, bookVars
        <4>2. status'[taker] \in {"filled", "cancelled"}
          BY <1>2, <3>1 DEF CloseMarket, EngineInv, TypeOK
        <4>3. QED
          BY <4>1, <4>2 DEF Live
      <3>2. CASE FinishFilled
        BY <1>1, <3>2 DEF FinishFilled, bookVars, IsLive
      <3>3. QED
        BY <1>5, <3>1, <3>2
    <2>2. ASSUME NEW o \in Placed', o # taker', IsLive(o)'
          PROVE  \/ Orphan(o)' /\ o \notin book' \cup stopOrders'
                 \/ ~Orphan(o)' /\ (o \in book' <=> o \notin stopOrders')
      <3>1. o \in Placed /\ o \in Id
        BY <1>1, <2>2, BookOrders DEF Placed, EngineInv
      <3>2. o # taker
        BY <1>1, <2>1, <2>2 DEF IsLive
      <3>3. IsLive(o) /\ (Orphan(o)' <=> Orphan(o))
        BY <1>1, <2>1, <2>2, <3>1, <3>2 DEF IsLive, Orphan
      <3>4. QED
        BY <1>1, <2>1, <3>1, <3>2, <3>3 DEF HeldInv
    <2>3. \A o \in book \cup stopOrders : status'[o] = status[o]
      BY <1>2, <2>1
    <2>4. QED
      BY <1>1, <2>1, <2>2, <2>3 DEF HeldInv, IsLive
  <1>6. QED
    BY <1>4, <1>5

\* A cancelled order leaves the book; one that is parked stays parked.
LEMMA HeldCancel ==
  ASSUME EngineInv, HeldInv, NEW x \in Id, CancelOrder(x)
  PROVE  HeldInv'
  <1>1. /\ phase = "idle" /\ status' = [status EXCEPT ![x] = "cancelled"] /\ book' = book \ {x}
        /\ levels' = [levels EXCEPT ![orders[x].side] = @ \cup {orders[x].price}]
        /\ UNCHANGED <<nextId, orders, stopOrders, phase, taker, at>>
    BY DEF CancelOrder, Idle, callVars
  <1>2. /\ status'[x] = "cancelled" /\ \A o \in Id : o # x => status'[o] = status[o]
        /\ book \cup stopOrders \subseteq Id /\ \A o \in Placed : o \in Id
    BY <1>1, BookOrders DEF EngineInv, TypeOK, Placed
  <1>3. ~IsLive(x)'
    BY <1>2 DEF IsLive, Live
  <1>4. \A s \in Side : IsFiniteSet(levels'[s])
    <2> SUFFICES ASSUME NEW s \in Side PROVE IsFiniteSet(levels'[s])
      OBVIOUS
    <2>1. levels'[s] = levels[s] \/ levels'[s] = levels[s] \cup {orders[x].price}
      BY <1>1 DEF EngineInv, TypeOK
    <2>2. IsFiniteSet(levels[s])
      BY DEF HeldInv
    <2>3. IsFiniteSet(levels[s] \cup {orders[x].price})
      BY <2>2, FS_AddElement
    <2>4. QED
      BY <2>1, <2>2, <2>3
  <1>5. ASSUME NEW o \in Placed', o # taker', IsLive(o)'
        PROVE  \/ Orphan(o)' /\ o \notin book' \cup stopOrders'
               \/ ~Orphan(o)' /\ (o \in book' <=> o \notin stopOrders')
    <2>1. o \in Placed /\ o # x /\ o # taker
      BY <1>1, <1>3, <1>5 DEF Placed
    <2>2. IsLive(o) /\ (Orphan(o)' <=> Orphan(o))
      BY <1>1, <1>2, <1>5, <2>1 DEF IsLive, Orphan
    <2>3. QED
      BY <1>1, <2>1, <2>2 DEF HeldInv
  <1>6. \A o \in book' : IsLive(o)' \/ (status'[o] = "cancelled" /\ orders'[o].stopPrice # 0)
    BY <1>1, <1>2 DEF HeldInv, IsLive
  <1>7. \A o \in stopOrders' : IsLive(o)' \/ status'[o] = "cancelled"
    BY <1>1, <1>2 DEF HeldInv, IsLive
  <1>8. QED
    BY <1>4, <1>5, <1>6, <1>7 DEF HeldInv

-----------------------------------------------------------------------------
\* Between calls the orders that are held are the ones a snapshot has to tell.
LEMMA SnapshotFollows ==
  ASSUME EngineInv, HeldInv
  PROVE  HeldOnce /\ SnapshotTells
  <1>1. SUFFICES ASSUME phase = "idle"
                 PROVE  HeldOnce /\ SnapshotTells
    BY DEF HeldOnce, SnapshotTells
  <1>2. /\ taker \notin Placed /\ book \subseteq Placed /\ stopOrders \subseteq Placed
        /\ \A o \in book : o \notin stopOrders /\ orders[o].type = "limit"
                           /\ orders[o].price \in levels[orders[o].side]
        /\ \A o \in Placed : o \in Id /\ orders[o].side \in Side
    BY <1>1, BookOrders DEF EngineInv, TypeOK, BookInv, Placed
  <1>3. HeldOnce
    BY <1>1, <1>2 DEF HeldOnce, HeldInv, Placed
  <1> DEFINE left == [o \in Id |-> Remaining(o)]
             rest(S, p) == {o \in S : orders[o].price = p}
             openOf(s) == {o \in Placed \ stopOrders : orders[o].side = s /\ IsLive(o) /\ ~Orphan(o)}
             phantomOf(s) == {o \in book : orders[o].side = s /\ ~IsLive(o)}
             heldOf(s, p) == {o \in book : orders[o].side = s /\ orders[o].price = p}
  <1>4. left = [o \in Id |-> orders[o].quantity - filled[o]]
    BY DEF Remaining
  <1>5. \A s \in Side : openOf(s) \cup phantomOf(s) = {o \in book : orders[o].side = s}
    BY <1>2 DEF HeldInv, Orphan
  <1>6. \A s, p : rest(openOf(s) \cup phantomOf(s), p) = heldOf(s, p) \/ s \notin Side
    BY <1>5
  <1>7. \A s, p : LevelQuantity(s, p) = SumFunctionOnSet(left, heldOf(s, p))
    BY DEF LevelQuantity
  <1>8. NatOn(left, book) /\ \A o \in book : IsLive(o) => left[o] > 0
    <2> SUFFICES ASSUME NEW o \in book PROVE left[o] \in Nat /\ (IsLive(o) => left[o] > 0)
      BY DEF NatOn
    <2>1. /\ o \in Id /\ filled[o] \in Nat /\ orders[o].quantity \in Nat
          /\ filled[o] <= orders[o].quantity /\ (IsLive(o) => filled[o] < orders[o].quantity)
      BY <1>2, BookOrders DEF EngineInv, FillsBounded, Placed
    <2>2. left[o] = orders[o].quantity - filled[o]
      BY <1>4, <2>1
    <2> HIDE DEF left
    <2>3. QED
      BY <2>1, <2>2
  <1>9. ASSUME NEW s \in Side, NEW o \in openOf(s)
        PROVE  o \in heldOf(s, orders[o].price) /\ LevelQuantity(s, orders[o].price) > 0
    <2> DEFINE S == heldOf(s, orders[o].price)
    <2>1. o \in book /\ IsLive(o) /\ o \in S
      BY <1>5, <1>9
    <2>2. IsFiniteSet(S) /\ NatOn(left, S)
      <3>1. S \in SUBSET Id /\ S \subseteq book
        BY <1>2
      <3>2. QED
        BY <1>8, <3>1, FiniteOrders DEF NatOn
    <2>3. LevelQuantity(s, orders[o].price) = SumFunctionOnSet(left, S)
      BY <1>7
    <2> HIDE DEF S, left
    <2>4. left[o] <= SumFunctionOnSet(left, S)
      BY <2>1, <2>2, SumOfOne
    <2>5. SumFunctionOnSet(left, S) \in Nat
      BY <2>2, SumNat
    <2>6. left[o] \in Nat /\ left[o] > 0
      BY <1>8, <2>1 DEF NatOn
    <2>7. LevelQuantity(s, orders[o].price) > 0
      BY <2>3, <2>4, <2>5, <2>6
    <2>8. QED
      BY <2>1, <2>7 DEF S
  <1>10. ASSUME NEW side \in Side, NEW depth \in 1..3
         PROVE  LET snap == getSnapshot(side, depth)
                IN /\ \A p \in DOMAIN snap :
                        snap[p] = SumFunctionOnSet(left, rest(openOf(side) \cup phantomOf(side), p))
                   /\ Cardinality(levels[side]) <= depth =>
                        {orders[o].price : o \in openOf(side)} \subseteq DOMAIN snap
    <2> DEFINE ahead(p) == {x \in levels[side] : IF side = "buy" THEN x > p ELSE x < p}
               shown == {p \in levels[side] : Cardinality(ahead(p)) < depth /\ LevelQuantity(side, p) > 0}
    <2>1. getSnapshot(side, depth) = [p \in shown |-> LevelQuantity(side, p)]
      BY DEF getSnapshot
    <2>2. \A p \in shown : LevelQuantity(side, p)
                           = SumFunctionOnSet(left, rest(openOf(side) \cup phantomOf(side), p))
      BY <1>6, <1>7
    <2>3. ASSUME Cardinality(levels[side]) <= depth, NEW o \in openOf(side)
          PROVE  orders[o].price \in shown
      <3> DEFINE p == orders[o].price
      <3>1. p \in levels[side] /\ LevelQuantity(side, p) > 0
        BY <1>2, <1>9
      <3>2. p \notin ahead(p) /\ ahead(p) \subseteq levels[side] /\ p \in Nat
        <4>1. p \in Nat
          BY <3>1, Constants DEF EngineInv, TypeOK
        <4>2. QED
          BY <4>1
      <3>3. IsFiniteSet(levels[side])
        BY DEF HeldInv
      <3> HIDE DEF p, ahead
      <3>4. Cardinality(ahead(p)) < Cardinality(levels[side])
        <4>1. /\ IsFiniteSet(ahead(p)) /\ Cardinality(ahead(p)) <= Cardinality(levels[side])
              /\ Cardinality(ahead(p)) = Cardinality(levels[side]) => levels[side] = ahead(p)
          BY <3>2, <3>3, FS_Subset
        <4>2. levels[side] # ahead(p)
          BY <3>1, <3>2
        <4>3. Cardinality(ahead(p)) \in Nat /\ Cardinality(levels[side]) \in Nat
          BY <3>3, <4>1, FS_CardinalityType
        <4>4. QED
          BY <4>1, <4>2, <4>3
      <3>5. Cardinality(ahead(p)) < depth
        <4>1. Cardinality(ahead(p)) \in Nat /\ Cardinality(levels[side]) \in Nat
          BY <3>2, <3>3, FS_Subset, FS_CardinalityType
        <4>2. QED
          BY <2>3, <3>4, <4>1
      <3>6. QED
        BY <3>1, <3>5 DEF p, ahead
    <2> HIDE DEF shown, left
    <2>4. QED
      BY <2>1, <2>2, <2>3
  <1>11. SnapshotTells
    <2> HIDE DEF left
    <2>1. QED
      BY <1>4, <1>10 DEF SnapshotTells, Placed
  <1>12. QED
    BY <1>3, <1>11

\* NothingLost follows.
LEMMA LossParts == EngineInv /\ LossIInv => NothingLost
  <1> SUFFICES ASSUME EngineInv, LossIInv PROVE NothingLost
    OBVIOUS
  <1>1. FilledIsTraded
    BY DEF LossIInv, TradesTold, FillsTold, ToldBy, FilledIsTraded, Placed
  <1>2. QED
    BY <1>1, SnapshotFollows DEF LossIInv, NothingLost

\* An empty engine has lost nothing.
LEMMA LossInit == Init => LossIInv
  <1> SUFFICES ASSUME Init PROVE LossIInv
    OBVIOUS
  <1>1. Placed = {} /\ trades = <<>> /\ newTrades = <<>> /\ book = {} /\ stopOrders = {}
        /\ levels = [s \in Side |-> {}]
    BY DEF Init, Placed
  <1>2. \A s \in Side : IsFiniteSet(levels[s])
    BY <1>1, FS_EmptySet
  <1>3. QED
    BY <1>1, <1>2 DEF LossIInv, TradesTold, FillsTold, HeldInv

\* A placement that starts a match.
LEMMA LossStart ==
  ASSUME EngineInv, LossIInv, NEW r \in Request, StartMatch(r), phase = "idle"
  PROVE  LossIInv'
  <1>1. /\ Record(r) /\ taker' = nextId /\ phase' = "sweep"
        /\ UNCHANGED <<book, levels, stopOrders, newTrades, trades>>
    BY DEF StartMatch, bookVars
  <1>2. QED
    BY <1>1, ToldRecord, HeldRecord DEF LossIInv

\* Every step keeps fills, trades and holdings together.
LEMMA StepLoss == EngineInv /\ LossIInv /\ [Next]_vars => LossIInv'
  <1> SUFFICES ASSUME EngineInv, LossIInv, [Next]_vars PROVE LossIInv'
    OBVIOUS
  <1>1. TypeOK /\ TradesTold /\ FillsTold /\ HeldInv
    BY DEF EngineInv, LossIInv
  <1>2. ASSUME NEW r \in Requests, PlaceOrder(r) PROVE LossIInv'
    BY <1>2, LossStart, Constants DEF PlaceOrder, Idle
  <1>3. ASSUME NEW q \in Quantities, SeedPlace(q) PROVE LossIInv'
    <2>1. StartMatch(SeedRequest(seedStep, q)) /\ phase = "idle" /\ seedStep \in 1..(2 * SeedLevels)
      BY <1>3 DEF SeedPlace
    <2>2. seedMid \in SeedMids
      BY <1>1, <2>1, Constants DEF TypeOK
    <2>3. SeedRequest(seedStep, q) \in Request
      BY <1>1, <2>1, <2>2, SeedRequestType
    <2>4. QED
      BY <2>1, <2>3, LossStart
  <1>4. ASSUME NEW r \in Requests, PlaceStop(r) \/ PlaceStopThrows(r) PROVE LossIInv'
    <2>1. /\ r \in Request /\ Record(r) /\ phase = "idle" /\ r.type = "stop-limit"
          /\ IF r.stopPrice = 0 THEN stopOrders' = stopOrders ELSE stopOrders' = stopOrders \cup {nextId}
          /\ UNCHANGED <<book, levels, newTrades, trades, taker, phase>>
      BY <1>4, Constants DEF PlaceStop, PlaceStopThrows, Idle, bookVars, callVars
    <2>2. QED
      BY <1>1, <2>1, ToldRecord, HeldRecord DEF LossIInv
  <1>5. ASSUME UNCHANGED <<nextId, orders, filled, status, book, stopOrders, levels, taker>>,
               UNCHANGED <<newTrades, trades>>, UNCHANGED at \/ phase # "level",
               phase' = "level" \/ phase # "level"
        PROVE  LossIInv'
    <2>1. TradesTold' /\ FillsTold'
      BY <1>1, <1>5, ToldQuiet
    <2>2. HeldInv'
      BY <1>1, <1>5 DEF HeldInv, Placed, IsLive, Orphan, Level, MakerSide
    <2>3. QED
      BY <2>1, <2>2 DEF LossIInv
  <1>6. CASE EnterLevel \/ EndSweep \/ \E m \in Id : SkipMaker(m)
    <2>1. /\ UNCHANGED <<nextId, orders, filled, status, book, stopOrders, levels, taker>>
          /\ UNCHANGED <<newTrades, trades>>
          /\ UNCHANGED at \/ phase # "level"
          /\ phase' = "level" \/ phase # "level"
      BY <1>6 DEF EnterLevel, EndSweep, SkipMaker, bookVars
    <2>2. QED
      BY <1>5, <2>1
  <1>7. CASE SeedEnd \/ (\E mid \in SeedMids : SeedStart(mid)) \/ UNCHANGED vars
    <2>1. /\ UNCHANGED <<nextId, orders, filled, status, book, stopOrders, levels, taker>>
          /\ UNCHANGED <<newTrades, trades, at, phase>>
      BY <1>7 DEF SeedEnd, SeedStart, vars, bookVars, callVars
    <2>2. QED
      BY <1>5, <2>1
  <1>8. ASSUME NEW m \in Id, Fill(m) PROVE LossIInv'
    BY <1>1, <1>8, ToldFill, HeldFill DEF LossIInv
  <1>9. CASE CloseLevel
    <2>1. UNCHANGED <<nextId, newTrades, trades, filled, orders>>
      BY <1>9 DEF CloseLevel
    <2>2. QED
      BY <1>1, <1>9, <2>1, ToldQuiet, HeldClose DEF LossIInv
  <1>10. CASE EmitTrade
    <2>1. /\ UNCHANGED <<nextId, orders, status, book, stopOrders, levels, taker, at, phase>>
      BY <1>10 DEF EmitTrade, bookVars
    <2>2. HeldInv'
      BY <1>1, <2>1, HeldQuiet
    <2>3. QED
      BY <1>1, <1>10, <2>2, ToldEmit DEF LossIInv
  <1>11. CASE RestRemainder \/ CloseMarket \/ FinishFilled
    <2>1. UNCHANGED <<nextId, newTrades, trades, filled, orders>>
      BY <1>11 DEF RestRemainder, CloseMarket, FinishFilled, Return
    <2>2. QED
      BY <1>1, <1>11, <2>1, ToldQuiet, HeldReturn DEF LossIInv
  <1>12. ASSUME NEW o \in Id, CancelOrder(o) PROVE LossIInv'
    <2>1. UNCHANGED <<nextId, newTrades, trades, filled, orders>>
      BY <1>12 DEF CancelOrder, callVars
    <2>2. QED
      BY <1>1, <1>12, <2>1, ToldQuiet, HeldCancel DEF LossIInv
  <1>13. QED
    BY <1>2, <1>3, <1>4, <1>6, <1>7, <1>8, <1>9, <1>10, <1>11, <1>12
       DEF Next, MatchStep, SeedStep, Call

\* Nothing of an order is lost (match, checkStopOrders, cancelOrder, getSnapshot): what is
\* filled was traded, every live order is held once, and a snapshot tells what is left.
THEOREM NothingIsLost == Spec => []NothingLost
  <1>1. QED
    BY Invariance, LossInit, StepLoss, LossParts, PTL DEF Spec
-----------------------------------------------------------------------------
(***************************************************************************)
(* What a call may still have to do.                                       *)
(***************************************************************************)
EndsInv == EngineInv /\ LossIInv /\ IsFiniteSet(todo)

\* The snapshot of the prices is finite.
LEMMA StepEnds == EndsInv /\ [Next]_vars => EndsInv'
  <1> SUFFICES ASSUME EndsInv, [Next]_vars PROVE EndsInv'
    OBVIOUS
  <1>1. EngineInv' /\ LossIInv'
    BY StepInv, StepLoss DEF EndsInv
  <1>2. \A side \in Side : IsFiniteSet(levels[side])
    BY DEF EndsInv, LossIInv, HeldInv
  <1>3. ASSUME NEW r, StartMatch(r), r.side \in Side PROVE IsFiniteSet(todo')
    <2>1. todo' = levels[Opposite(r.side)] /\ Opposite(r.side) \in Side
      BY <1>3 DEF StartMatch, Opposite, Side
    <2>2. QED
      BY <1>2, <2>1
  <1>4. ASSUME NEW r \in Requests, PlaceOrder(r) PROVE IsFiniteSet(todo')
    BY <1>3, <1>4, Constants DEF PlaceOrder, Request
  <1>5. ASSUME NEW q \in Quantities, SeedPlace(q) PROVE IsFiniteSet(todo')
    BY <1>3, <1>5 DEF SeedPlace, SeedRequest, Side
  <1>6. CASE EnterLevel
    <2>1. todo' \subseteq todo
      BY <1>6 DEF EnterLevel
    <2>2. QED
      BY <1>1, <2>1, FS_Subset DEF EndsInv
  <1>7. CASE RestRemainder \/ CloseMarket \/ FinishFilled
    <2>1. todo' = {}
      BY <1>7 DEF RestRemainder, CloseMarket, FinishFilled, Return
    <2>2. QED
      BY <1>1, <2>1, FS_EmptySet DEF EndsInv
  <1>8. CASE UNCHANGED todo
    BY <1>1, <1>8 DEF EndsInv
  <1>9. CASE EndSweep \/ CloseLevel \/ EmitTrade \/ \E m \in Id : SkipMaker(m) \/ Fill(m)
    BY <1>8, <1>9 DEF EndSweep, CloseLevel, EmitTrade, SkipMaker, Fill
  <1>10. CASE \/ \E r \in Requests : PlaceStop(r) \/ PlaceStopThrows(r)
              \/ \E o \in Id : CancelOrder(o)
              \/ \E mid \in SeedMids : SeedStart(mid)
              \/ SeedEnd
    BY <1>8, <1>10 DEF PlaceStop, PlaceStopThrows, CancelOrder, SeedStart, SeedEnd, callVars
  <1>11. CASE UNCHANGED vars
    BY <1>8, <1>11 DEF vars, callVars
  <1>12. QED
    BY <1>1, <1>4, <1>5, <1>6, <1>7, <1>9, <1>10, <1>11 DEF EndsInv, Next, MatchStep, SeedStep, Call

\* What a call may still have to do: the trades it has to tell; while it sweeps, the
\* prices it has not entered, each with a turn for every order there may be; and in
\* a level, the orders that were not passed yet, each of which may add a trade.
LevelCost == 2 * MaxOrders + 2
CallLeft ==
  IF phase = "idle" THEN 0
  ELSE IF phase = "emit" THEN 1 + Len(newTrades)
  ELSE IF phase = "sweep" THEN 2 + Len(newTrades) + Cardinality(todo) * LevelCost
  ELSE 3 + Len(newTrades) + Cardinality(todo) * LevelCost + 2 * Cardinality(Id \ visited)

\* Every step of a call leaves less to do, although a sweep walks over arrays on
\* which the stop orders it activates are pushed: a call ends after at most as many
\* steps as CallLeft says.
CallsEnd == [][phase # "idle" => CallLeft' \in Nat /\ CallLeft' < CallLeft]_vars

\* In a call that has begun there is something to do: a first price to enter or none
\* that is accepted, a next maker or none.
CallGoesOn ==
  /\ phase = "sweep" => \/ TakerDone \/ \A p \in todo : ~CanMatch(taker, p)
                        \/ \E p \in todo : IsFirst(p, todo) /\ CanMatch(taker, p)
  /\ phase = "level" => \/ TakerDone \/ Level(MakerSide, at) \subseteq visited
                        \/ \E m \in Id : IsNextMaker(m)

\* The parts of CallLeft are numbers.
LEMMA PartsAreNumbers ==
  ASSUME EndsInv
  PROVE  /\ Len(newTrades) \in Nat /\ LevelCost \in Nat
         /\ Cardinality(todo) \in Nat /\ Cardinality(todo) * LevelCost \in Nat
         /\ IsFiniteSet(Id \ visited) /\ Cardinality(Id \ visited) \in 0..MaxOrders
  <1>1. Len(newTrades) \in Nat
    BY DEF EndsInv, EngineInv, TypeOK
  <1>2. LevelCost \in Nat /\ Cardinality(todo) \in Nat
    BY Constants, FS_CardinalityType DEF LevelCost, EndsInv
  <1>3. Cardinality(todo) * LevelCost \in Nat
    BY <1>2
  <1>4. IsFiniteSet(Id) /\ Cardinality(Id) = MaxOrders
    <2>1. IsFiniteSet(1..MaxOrders) /\ Cardinality(1..MaxOrders) = IF 1 > MaxOrders THEN 0 ELSE MaxOrders - 1 + 1
      BY Constants, FS_Interval
    <2>2. QED
      BY <2>1, Constants DEF Id
  <1>5. IsFiniteSet(Id \ visited) /\ Cardinality(Id \ visited) <= Cardinality(Id)
    BY <1>4, FS_Subset
  <1>6. Cardinality(Id \ visited) \in Nat
    BY <1>5, FS_CardinalityType
  <1>7. QED
    BY <1>1, <1>2, <1>3, <1>4, <1>5, <1>6

\* A price that is entered costs a level.
LEMMA EnterDescends ==
  ASSUME EndsInv, EndsInv', EnterLevel PROVE CallLeft' \in Nat /\ CallLeft' < CallLeft
  <1> DEFINE c == Cardinality(todo)
             d == Cardinality(todo')
             k == LevelCost
             n == Len(newTrades)
             u == Cardinality(Id \ visited)
  <1>1. PICK p \in todo : todo' = todo \ {p}
    BY DEF EnterLevel
  <1>2. d = c - 1
    BY <1>1, FS_RemoveElement DEF EndsInv
  <1>3. /\ n \in Nat /\ k \in Nat /\ c \in Nat /\ c * k \in Nat /\ u \in 0..MaxOrders
        /\ k = 2 * MaxOrders + 2 /\ MaxOrders \in Nat
    BY PartsAreNumbers, Constants DEF LevelCost
  <1>4. d \in Nat
    BY <1>1, FS_Subset, FS_CardinalityType DEF EndsInv
  <1>5. phase = "sweep" /\ phase' = "level" /\ UNCHANGED <<visited, newTrades>>
    BY DEF EnterLevel
  <1>6. CallLeft = 2 + n + c * k /\ CallLeft' = 3 + n + d * k + 2 * u
    BY <1>5 DEF CallLeft, LevelCost
  <1> HIDE DEF c, d, k, n, u
  <1>7. d * k = c * k - k /\ d * k \in Nat
    BY <1>2, <1>3, <1>4
  <1>8. QED
    BY <1>3, <1>6, <1>7

\* A maker that is passed is not passed again, and adds at most one trade.
LEMMA TurnDescends ==
  ASSUME EndsInv, NEW m \in Id, SkipMaker(m) \/ Fill(m) PROVE CallLeft' \in Nat /\ CallLeft' < CallLeft
  <1> DEFINE e == Cardinality(todo) * LevelCost
             n == Len(newTrades)
             n1 == Len(newTrades')
             u == Cardinality(Id \ visited)
             u1 == Cardinality(Id \ visited')
  <1>1. m \in Id \ visited /\ visited' = visited \cup {m} /\ phase = "level" /\ UNCHANGED <<phase, todo>>
    BY DEF SkipMaker, Fill, IsNextMaker
  <1>2. n \in Nat /\ e \in Nat /\ IsFiniteSet(Id \ visited) /\ u \in Nat
    BY PartsAreNumbers
  <1>3. u1 = u - 1 /\ u1 \in Nat
    <2>1. Id \ visited' = (Id \ visited) \ {m}
      BY <1>1
    <2>2. IsFiniteSet(Id \ visited')
      BY <1>2, <2>1, FS_Subset
    <2>3. QED
      BY <1>1, <1>2, <2>1, <2>2, FS_RemoveElement, FS_CardinalityType
  <1>4. n1 \in {n, n + 1}
    <2>1. newTrades \in Seq(TradeRecord)
      BY DEF EndsInv, EngineInv, TypeOK
    <2>2. CASE SkipMaker(m)
      BY <2>2 DEF SkipMaker
    <2>3. CASE Fill(m)
      <3>1. \E t : newTrades' = Append(newTrades, t)
        BY <2>3 DEF Fill
      <3>2. QED
        BY <2>1, <3>1
    <2>4. QED
      BY <2>2, <2>3
  <1>5. CallLeft = 3 + n + e + 2 * u /\ CallLeft' = 3 + n1 + e + 2 * u1
    BY <1>1 DEF CallLeft, LevelCost
  <1> HIDE DEF e, n, n1, u, u1
  <1>6. QED
    BY <1>2, <1>3, <1>4, <1>5

\* A step of a call leaves less to do.
LEMMA StepDescends ==
  ASSUME EndsInv, [Next]_vars
  PROVE  [phase # "idle" => CallLeft' \in Nat /\ CallLeft' < CallLeft]_vars
  <1> SUFFICES ASSUME Next, phase # "idle" PROVE CallLeft' \in Nat /\ CallLeft' < CallLeft
    OBVIOUS
  <1> DEFINE e == Cardinality(todo) * LevelCost
             n == Len(newTrades)
             u == Cardinality(Id \ visited)
  <1>1. n \in Nat /\ e \in Nat /\ u \in Nat /\ newTrades \in Seq(TradeRecord)
    BY PartsAreNumbers DEF EndsInv, EngineInv, TypeOK
  <1>2. MatchStep
    <2>1. ~SeedStep
      BY DEF SeedStep, SeedEnd, SeedPlace
    <2>2. ~Call
      BY DEF Call, PlaceOrder, PlaceStop, PlaceStopThrows, CancelOrder, SeedStart, Idle
    <2>3. QED
      BY <2>1, <2>2 DEF Next
  <1>3. CASE EnterLevel
    BY <1>3, StepEnds, EnterDescends
  <1>4. ASSUME NEW m \in Id, SkipMaker(m) \/ Fill(m) PROVE CallLeft' \in Nat /\ CallLeft' < CallLeft
    BY <1>4, TurnDescends
  <1>5. CASE EndSweep
    <2>1. CallLeft = 2 + n + e /\ CallLeft' = 1 + n
      BY <1>5 DEF EndSweep, CallLeft
    <2> HIDE DEF n, e
    <2>2. QED
      BY <1>1, <2>1
  <1>6. CASE CloseLevel
    <2>1. CallLeft = 3 + n + e + 2 * u /\ CallLeft' = 2 + n + e
      BY <1>6 DEF CloseLevel, CallLeft, LevelCost
    <2> HIDE DEF n, e, u
    <2>2. QED
      BY <1>1, <2>1
  <1>7. CASE EmitTrade
    <2>1. newTrades # <<>> /\ newTrades' = Tail(newTrades) /\ CallLeft = 1 + n /\ CallLeft' = 1 + Len(newTrades')
      BY <1>7 DEF EmitTrade, CallLeft
    <2>2. Len(newTrades') = n - 1 /\ n > 0
      BY <1>1, <2>1
    <2> HIDE DEF n
    <2>3. QED
      BY <1>1, <2>1, <2>2
  <1>8. CASE RestRemainder \/ CloseMarket \/ FinishFilled
    <2>1. CallLeft = 1 + n /\ CallLeft' = 0
      BY <1>8 DEF RestRemainder, CloseMarket, FinishFilled, Return, CallLeft
    <2> HIDE DEF n
    <2>2. QED
      BY <1>1, <2>1
  <1>9. QED
    BY <1>2, <1>3, <1>4, <1>5, <1>6, <1>7, <1>8 DEF MatchStep

\* Of the prices a taker accepts the first in its order is there, and accepted too.
LEMMA FirstPrice ==
  ASSUME EndsInv, phase = "sweep", NEW p \in todo, CanMatch(taker, p)
  PROVE  \E q \in todo : IsFirst(q, todo) /\ CanMatch(taker, q)
  <1>1. IsFiniteSet(todo) /\ todo \subseteq Int /\ todo # {} /\ p \in Int
    BY Constants DEF EndsInv, EngineInv, TypeOK
  <1>2. orders[taker].price \in Int
    BY TakerExists DEF EndsInv, EngineInv
  <1>3. /\ Max(todo) \in todo /\ Max(todo) \in Int /\ \A y \in todo : y <= Max(todo)
        /\ Min(todo) \in todo /\ Min(todo) \in Int /\ \A y \in todo : Min(todo) <= y
    BY <1>1, MaxMin
  <1> DEFINE low == Min(todo)
             high == Max(todo)
  <1> HIDE DEF low, high
  <1>4. /\ high \in todo /\ high \in Int /\ \A y \in todo : y \in Int /\ y <= high
        /\ low \in todo /\ low \in Int /\ \A y \in todo : y \in Int /\ low <= y
    BY <1>1, <1>3 DEF low, high
  <1>5. CASE orders[taker].side = "buy"
    <2>1. IsFirst(low, todo)
      BY <1>4, <1>5 DEF IsFirst, Better
    <2>2. CanMatch(taker, low)
      BY <1>1, <1>2, <1>4, <1>5 DEF CanMatch, Better
    <2>3. QED
      BY <1>4, <2>1, <2>2
  <1>6. CASE orders[taker].side # "buy"
    <2>1. IsFirst(high, todo)
      BY <1>4, <1>6 DEF IsFirst, Better
    <2>2. CanMatch(taker, high)
      BY <1>1, <1>2, <1>4, <1>6 DEF CanMatch, Better
    <2>3. QED
      BY <1>4, <2>1, <2>2
  <1>7. QED
    BY <1>5, <1>6

\* Of the orders of a level that were not passed one was pushed first.
LEMMA NextMaker ==
  ASSUME EndsInv, phase = "level", ~(Level(MakerSide, at) \subseteq visited)
  PROVE  \E m \in Id : IsNextMaker(m)
  <1> DEFINE rest == Level(MakerSide, at) \ visited
             stamps == {stamp[x] : x \in rest}
             first == Min(stamps)
             least == {x \in rest : stamp[x] = first}
             m == Min(least)
  <1>1. rest \subseteq Id /\ rest # {} /\ IsFiniteSet(rest) /\ \A x \in rest : stamp[x] \in Int
    <2>1. rest \subseteq book /\ book \subseteq 1..(nextId - 1)
      BY DEF Level, EndsInv, EngineInv, TypeOK
    <2>2. \A x \in book : x \in Id /\ stamp[x] \in Int
      BY <2>1, BookOrders DEF EndsInv, EngineInv
    <2>3. rest \subseteq Id /\ rest # {} /\ \A x \in rest : stamp[x] \in Int
      BY <2>1, <2>2
    <2>4. IsFiniteSet(rest)
      BY <2>3, FiniteOrders
    <2>5. QED
      BY <2>3, <2>4
  <1> HIDE DEF rest
  <1>2. IsFiniteSet(stamps) /\ stamps \subseteq Int /\ stamps # {}
    <2>1. \E f : f = [x \in rest |-> stamp[x]]
      OBVIOUS
    <2>2. PICK f : f = [x \in rest |-> stamp[x]]
      BY <2>1
    <2>3. f \in Surjection(rest, stamps)
      BY <2>2 DEF Surjection
    <2>4. stamps \subseteq Int /\ stamps # {}
      BY <1>1
    <2> HIDE DEF stamps
    <2>5. QED
      BY <1>1, <2>3, <2>4, FS_Surjection
  <1>3. first \in stamps /\ \A y \in stamps : first <= y
    BY <1>2, MaxMin
  <1> HIDE DEF first
  <1>4. least # {} /\ least \subseteq rest /\ \A x \in rest : first <= stamp[x]
    BY <1>3
  <1>5. IsFiniteSet(least) /\ least \subseteq Int
    <2> HIDE DEF least
    <2>1. IsFiniteSet(least)
      BY <1>1, <1>4, FS_Subset
    <2>2. QED
      BY <1>1, <1>4, <2>1 DEF Id
  <1>6. m \in least /\ \A y \in least : m <= y
    BY <1>4, <1>5, MaxMin
  <1> HIDE DEF m
  <1>7. m \in rest /\ m \in Int /\ stamp[m] = first /\ first \in Int
    BY <1>1, <1>4, <1>5, <1>6
  <1>8. \A x \in rest \ {m} : Before(m, x)
    <2> SUFFICES ASSUME NEW x \in rest \ {m} PROVE Before(m, x)
      OBVIOUS
    <2>1. x \in Int /\ stamp[x] \in Int /\ first <= stamp[x] /\ (stamp[x] = first => m <= x)
      BY <1>1, <1>4, <1>6 DEF Id
    <2>2. QED
      BY <1>7, <2>1 DEF Before
  <1>9. QED
    BY <1>1, <1>7, <1>8 DEF IsNextMaker, rest

\* At first nothing is under way.
LEMMA EndsStarts == Init => EndsInv
  <1>1. Init => IsFiniteSet(todo)
    BY FS_EmptySet DEF Init
  <1>2. QED
    BY <1>1, InitInv, LossInit DEF EndsInv

\* The walk of match() over arrays that checkStopOrders extends, and the loop of
\* placeOrder over the trades, end: every step leaves less to do.
THEOREM CallsComeToAnEnd == Spec => CallsEnd
  <1>1. QED
    BY EndsStarts, StepEnds, StepDescends, PTL DEF Spec, CallsEnd

\* A call that has begun is never stuck: the next price and the next maker are there
\* as long as the loops go on.
THEOREM CallsGoOn == Spec => []CallGoesOn
  <1>1. EndsInv => CallGoesOn
    BY FirstPrice, NextMaker DEF CallGoesOn
  <1>2. QED
    BY <1>1, EndsStarts, StepEnds, PTL DEF Spec
=============================================================================
