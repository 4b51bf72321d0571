------------------------ MODULE OrderBookService_proofs ------------------------
(***************************************************************************)
(* Proofs about OrderBookService: what a user was told survives every      *)
(* crash, and the two records of an order agree, for every number of       *)
(* orders, crashes and traders.                                            *)
(***************************************************************************)
EXTENDS OrderBookService, MatchingEngine_proofs

ApiRecord == [filled: Nat, status: Live \cup {"filled", "cancelled", "absent"}]
ApiTrade == [maker: 0..MaxUids, taker: 0..MaxUids, quantity: Nat \ {0}]

\* Every variable of the service has its shape.
Shapes ==
  /\ nextUid \in 1..(MaxUids + 1) /\ crashes \in Nat
  /\ terms \in [Uid -> [order: Request \cup {NoOrder}, p2pOrigin: BOOLEAN]]
  /\ api \in [Uid -> ApiRecord] /\ diskOrders \in [Uid -> ApiRecord]
  /\ uuidToMeId \in [Uid -> 0..(nextId - 1)]
  /\ pending \in 0..MaxUids /\ placing \in 0..MaxUids /\ pending < nextUid /\ placing < nextUid
  /\ diskTrades \in Seq(ApiTrade)
  /\ owed = <<>> \/ \E t \in ApiTrade : owed = <<t>>
  /\ mode \in {"load", "seed", "serve"} /\ reloading \in SUBSET Uid

\* An engine that was never asked for a stop order that can be parked: an order that is live
\* is in the book, which serves in the order of the ids.
Quiet ==
  /\ stopOrders = {} /\ \A o \in Placed : orders[o].stopPrice = 0
  /\ \A o \in Placed : IsLive(o) /\ o # taker /\ orders[o].type # "stop-limit" => o \in book
  /\ \A a, b \in book : a < b => stamp[a] < stamp[b]
  /\ phase # "idle" => taker = nextId - 1
  /\ phase = "idle" => newTrades = <<>>
  /\ \A i \in DOMAIN newTrades : newTrades[i].taker = taker /\ newTrades[i].maker \in Placed \ {taker}

\* Nothing is known of an id that was not drawn.
Undrawn ==
  \A u \in Uid : u >= nextUid =>
    /\ terms[u] = NoTerms /\ api[u] = Absent /\ diskOrders[u] = Absent /\ uuidToMeId[u] = 0
    /\ Traded(diskTrades, u) = 0 /\ Traded(owed, u) = 0

\* What runs in which mode.
CallInv ==
  /\ placing # 0 => phase # "idle" /\ uuidToMeId[placing] = 0
  /\ phase # "idle" => (placing = 0 <=> mode = "seed")
  /\ mode = "serve" /\ phase # "idle" => pending = placing /\ api[placing] = Absent
  /\ mode # "serve" => pending = 0
  /\ owed # <<>> => phase = "emit" /\ mode # "load"
  /\ mode = "load" => seedStep = 0
  /\ mode # "load" => reloading = {}

\* Ids of the engine are given in the order of the ids of the API, also by a reload.
TurnInv ==
  /\ \A u, v \in Uid : u < v /\ uuidToMeId[u] # 0 /\ uuidToMeId[v] # 0 => uuidToMeId[u] < uuidToMeId[v]
  /\ \A u \in Uid : uuidToMeId[u] # 0 => uuidToMeId[u] # taker
  /\ \A u \in Uid : uuidToMeId[u] # 0 /\ placing # 0 => u < placing
  /\ \A v \in reloading : /\ uuidToMeId[v] = 0 /\ v # placing /\ api[v].status \in Live
                          /\ placing < v
                          /\ \A u \in Uid : uuidToMeId[u] # 0 => u < v

\* Terms of the API and of the engine.
SameTerms(t, e) ==
  /\ t.side = e.side /\ t.trader = e.trader /\ t.type = e.type
  /\ t.type # "market" => t.price = e.price

\* The record r of an order with terms t, and the engine's: its terms e, what it filled, its
\* status, and what it traded that the service was not told yet.
LinkOf(r, t, e, f, st, told) ==
  /\ SameTerms(t, e) /\ r.status # "absent"
  /\ r.filled + (e.quantity - f) + told = t.quantity
  /\ r.status \in Live => st \in Live \cup {"filled"}
  /\ r.status \notin Live => st \notin Live /\ told = 0
Linked(u, m) == LinkOf(api[u], terms[u].order, orders[m], filled[m], status[m], Traded(newTrades, m))
LinkInv ==
  /\ \A u \in Uid : uuidToMeId[u] # 0 => Linked(u, uuidToMeId[u])
  /\ placing # 0 => /\ terms[placing].order \in Request
                    /\ SameTerms(terms[placing].order, orders[taker])
                    /\ api[placing].filled + orders[taker].quantity = terms[placing].order.quantity

\* What a record can be, on file or not.
Sane(r, t) ==
  /\ r.status = "absent" => r = Absent
  /\ r.status # "absent" => t.order \in Request /\ r.filled <= t.order.quantity
  /\ r.status \in Live => r.filled < t.order.quantity /\ t.order.type = "limit"
\* The record r of an order, the one on file, and whether it is one of a user.
Stored(r, d, user) ==
  /\ d # Absent => user /\ r = d
  /\ r # Absent /\ user => d # Absent
StoreInv == \A u \in Uid : Sane(api[u], terms[u]) /\ Stored(api[u], diskOrders[u], IsUserOrder(u))

\* Open orders on file never cross.
TermsCross(b, a) ==
  b.side = "buy" /\ a.side = "sell" /\ b.price >= a.price /\ b.trader # a.trader
FileUncrossed ==
  \A u, v \in Uid : diskOrders[u].status \in Live /\ diskOrders[v].status \in Live
                      => ~TermsCross(terms[u].order, terms[v].order)

\* A live order is in the engine, or on its way there.
HomeInv ==
  \A u \in Uid : api[u].status \in Live =>
    uuidToMeId[u] # 0 \/ (mode = "load" /\ (u \in reloading \/ u = placing))

\* While the store is loaded the engine has fresh limit orders of the file, and no trade.
LoadInv ==
  mode = "load" =>
    /\ api = diskOrders /\ newTrades = <<>> /\ trades = <<>>
    /\ placing # 0 => api[placing].status \in Live
    /\ \A o \in Placed : /\ filled[o] = 0 /\ status[o] = "open" /\ orders[o].type = "limit"
                         /\ o # taker => \E u \in Uid : uuidToMeId[u] = o

\* The trades on file of a stored order, and those of the order that is being placed.
CoverInv ==
  /\ \A u \in Uid : diskOrders[u] # Absent =>
       /\ Traded(diskTrades, u) + Traded(owed, u) <= diskOrders[u].filled
       /\ crashes = 0 => Traded(diskTrades, u) + Traded(owed, u) = diskOrders[u].filled
  /\ placing # 0 /\ mode = "serve" /\ IsUserOrder(placing) =>
       Traded(diskTrades, placing) + Traded(owed, placing) + Traded(newTrades, taker) = filled[taker]

Accounts == TurnInv /\ LinkInv /\ StoreInv /\ FileUncrossed /\ HomeInv
Bookkeeping == Shapes /\ Undrawn /\ CallInv /\ LoadInv /\ Accounts /\ CoverInv
ServiceIInv == EngineInv /\ Quiet /\ Bookkeeping

-----------------------------------------------------------------------------
\* A step that keeps the orders and the times they were pushed at, and drops from the book
\* only what is dead.
LEMMA QuietKeeps ==
  ASSUME Quiet, UNCHANGED <<nextId, orders, stopOrders, stamp, newTrades>>, book' \subseteq book,
         phase' = "idle" <=> phase = "idle", taker' = taker,
         \A o \in Placed : status'[o] \in Live /\ o # taker => IsLive(o) /\ (o \in book => o \in book')
  PROVE  Quiet'
  <1>1. \A o \in Placed : IsLive(o)' <=> status'[o] \in Live
    BY DEF IsLive
  <1>2. QED
    BY <1>1 DEF Quiet, Placed

\* A trade is handed out.
LEMMA QuietEmit ==
  ASSUME Quiet, EmitTrade, EngineInv
  PROVE  Quiet'
  <1>1. /\ newTrades # <<>> /\ newTrades \in Seq(TradeRecord) /\ newTrades' = Tail(newTrades)
        /\ phase = "emit" /\ phase' = phase
        /\ UNCHANGED <<nextId, orders, stopOrders, stamp, book, status, taker>>
    BY DEF EmitTrade, EngineInv, TypeOK, bookVars
  <1>2. \A i \in DOMAIN newTrades' : i + 1 \in DOMAIN newTrades /\ newTrades'[i] = newTrades[i + 1]
    BY <1>1
  <1>3. QED
    BY <1>1, <1>2 DEF Quiet, Placed, IsLive

\* A fill parks and activates nothing, when there is nothing to activate.
LEMMA QuietFill ==
  ASSUME Quiet, EngineInv, NEW m \in Id, Fill(m)
  PROVE  /\ Quiet' /\ orders' = orders
         /\ UNCHANGED <<nextId, trades, taker, seedStep>> /\ phase = "level" /\ phase' = "level"
         /\ m \in Placed \ {taker} /\ taker \in Placed /\ IsLive(m)
         /\ \E t \in TradeRecord : /\ t.maker = m /\ t.taker = taker /\ t.quantity = FillQty(m)
                                   /\ newTrades' = Append(newTrades, t)
  <1> DEFINE t == [price |-> at, quantity |-> FillQty(m), side |-> orders[taker].side,
                   maker |-> m, taker |-> taker]
  <1>1. /\ UNCHANGED <<nextId, trades, taker, seedStep>> /\ phase = "level" /\ phase' = "level"
        /\ newTrades' = Append(newTrades, t)
    BY DEF Fill, seedVars
  <1>2. /\ m \in Placed \ {taker} /\ taker \in Placed /\ IsLive(m) /\ m \in book
        /\ FillQty(m) \in Nat /\ FillQty(m) > 0
        /\ taker \in Id /\ orders[taker].side \in Side
    BY <1>1, FillFacts, TakerExists DEF EngineInv, Placed
  <1>3. \A h : h = Triggered(lastPrice, at) => h = {}
    BY DEF Triggered, Quiet
  <1>4. stopOrders' = stopOrders /\ orders' = orders /\ book' = book /\ stamp' = stamp
    <2>1. /\ stopOrders' = stopOrders \ {} /\ book' = book \cup {}
          /\ orders' = [o \in Id |-> IF o \in {} THEN Order(orders[o], "limit", orders[o].price)
                                     ELSE orders[o]]
          /\ stamp' = [o \in Id |-> IF o \in {} THEN clock ELSE stamp[o]]
      BY <1>3 DEF Fill, CheckStopOrders, Push
    <2>2. orders \in [Id -> OrderRecord \cup {NoOrder}] /\ stamp \in [Id -> Nat]
      BY DEF EngineInv, TypeOK
    <2>3. QED
      BY <2>1, <2>2
  <1>5. t \in TradeRecord
    BY <1>1, <1>2 DEF TradeRecord, EngineInv, SweepInv
  <1>6. newTrades \in Seq(TradeRecord)
    BY DEF EngineInv, TypeOK
  <1>7. \A i \in DOMAIN newTrades' : newTrades'[i] = t \/ (i \in DOMAIN newTrades /\ newTrades'[i] = newTrades[i])
    BY <1>1, <1>5, <1>6
  <1>8. \A o \in Placed : o # taker /\ status'[o] \in Live => IsLive(o)
    BY <1>2, FillFacts, BookOrders DEF EngineInv, IsLive, Placed
  <1>9. Quiet'
    <2>1. \A o \in Placed : IsLive(o)' <=> status'[o] \in Live
      BY DEF IsLive
    <2>2. t.maker = m /\ t.taker = taker
      OBVIOUS
    <2> HIDE DEF t
    <2>3. QED
      BY <1>1, <1>2, <1>4, <1>7, <1>8, <2>1, <2>2 DEF Quiet, Placed
  <1>10. t.maker = m /\ t.taker = taker /\ t.quantity = FillQty(m)
    OBVIOUS
  <1> HIDE DEF t
  <1>11. QED
    BY <1>1, <1>2, <1>4, <1>5, <1>9, <1>10

\* A new order that is matched at once.
LEMMA QuietStart ==
  ASSUME Quiet, EngineInv, NEW r \in Request, r.stopPrice = 0, StartMatch(r), phase = "idle"
  PROVE  /\ Quiet' /\ taker' = nextId /\ nextId' = nextId + 1 /\ phase' = "sweep" /\ nextId \in Id
         /\ nextId \notin Placed /\ Placed' = Placed \cup {nextId} /\ nextId \in Nat /\ nextId > 0
         /\ orders'[nextId] = Order(r, r.type, PriceOf(r)) /\ orders'[nextId] # NoOrder
         /\ filled'[nextId] = 0 /\ status'[nextId] = "open"
         /\ newTrades = <<>> /\ newTrades' = <<>> /\ trades' = trades
         /\ \A o \in Placed : /\ orders'[o] = orders[o] /\ filled'[o] = filled[o]
                              /\ status'[o] = status[o]
  <1>1. /\ Record(r) /\ taker' = nextId /\ phase' = "sweep"
        /\ UNCHANGED <<book, stamp, stopOrders, newTrades, trades>>
    BY DEF StartMatch, bookVars
  <1>2. newTrades = <<>> /\ taker = 0
    BY DEF Quiet, EngineInv, TypeOK
  <1>3. /\ nextId \in Id /\ nextId' = nextId + 1 /\ book \subseteq Placed
        /\ \A o \in Placed : /\ orders'[o] = orders[o] /\ filled'[o] = filled[o]
                             /\ status'[o] = status[o] /\ o # nextId
        /\ filled'[nextId] = 0 /\ status'[nextId] = "open"
        /\ orders'[nextId].stopPrice = r.stopPrice
        /\ \A o \in Id : orders'[o] = NoOrder <=> o >= nextId'
    BY <1>1, RecordInv DEF Placed
  <1>4. nextId \in Nat /\ nextId > 0
    BY DEF EngineInv, TypeOK
  <1>5. Placed' = Placed \cup {nextId} /\ nextId \notin Placed
    BY <1>3, <1>4 DEF Placed
  <1>6. orders'[nextId] = Order(r, r.type, PriceOf(r))
    BY <1>1, <1>3 DEF Record, EngineInv, TypeOK
  <1>7. orders'[nextId] # NoOrder
    BY <1>3, <1>4
  <1>8. \A o \in Placed' : IsLive(o)' <=> status'[o] \in Live
    BY DEF IsLive
  <1>9. Quiet'
    <2>1. stopOrders' = {} /\ \A o \in Placed' : orders'[o].stopPrice = 0
      BY <1>1, <1>3, <1>5 DEF Quiet
    <2>2. \A o \in Placed' : IsLive(o)' /\ o # taker' /\ orders'[o].type # "stop-limit" => o \in book'
      <3>1. \A o \in Placed : o # taker
        BY <1>2 DEF Placed
      <3>2. \A o \in Placed : IsLive(o) /\ orders[o].type # "stop-limit" => o \in book
        BY <3>1 DEF Quiet
      <3>3. QED
        BY <1>1, <1>3, <1>5, <1>8, <3>2 DEF IsLive
    <2>3. \A a, b \in book' : a < b => stamp'[a] < stamp'[b]
      BY <1>1 DEF Quiet
    <2>4. taker' = nextId' - 1 /\ \A i \in DOMAIN newTrades' : FALSE
      BY <1>1, <1>2, <1>3, <1>4
    <2>5. QED
      BY <1>1, <2>1, <2>2, <2>3, <2>4 DEF Quiet
  <1>10. QED
    BY <1>1, <1>2, <1>3, <1>4, <1>5, <1>6, <1>7, <1>9

\* A call that throws leaves an order in no list.
LEMMA QuietThrow ==
  ASSUME Quiet, EngineInv, NEW r \in Request, PlaceStopThrows(r)
  PROVE  /\ Quiet' /\ nextId \notin Placed /\ Placed' = Placed \cup {nextId} /\ nextId' = nextId + 1
         /\ phase = "idle"
         /\ \A o \in Placed : /\ orders'[o] = orders[o] /\ filled'[o] = filled[o]
                              /\ status'[o] = status[o]
         /\ UNCHANGED <<newTrades, trades, phase, taker, seedStep, seedMid>>
  <1>1. /\ Record(r) /\ r.type = "stop-limit" /\ r.stopPrice = 0 /\ phase = "idle"
        /\ UNCHANGED <<book, stamp, stopOrders, newTrades, trades, phase, taker, seedStep, seedMid>>
    BY DEF PlaceStopThrows, Idle, bookVars, callVars, seedVars
  <1>2. newTrades = <<>> /\ taker = 0
    BY <1>1 DEF Quiet, EngineInv, TypeOK
  <1>3. /\ nextId \in Id /\ nextId' = nextId + 1
        /\ \A o \in Placed : /\ orders'[o] = orders[o] /\ filled'[o] = filled[o]
                             /\ status'[o] = status[o] /\ o # nextId
        /\ orders'[nextId].stopPrice = 0 /\ orders'[nextId].type = "stop-limit"
    BY <1>1, RecordInv DEF Placed
  <1>4. nextId \in Nat /\ nextId > 0
    BY DEF EngineInv, TypeOK
  <1>5. Placed' = Placed \cup {nextId} /\ nextId \notin Placed
    BY <1>3, <1>4 DEF Placed
  <1>6. \A o \in Placed' : IsLive(o)' <=> status'[o] \in Live
    BY DEF IsLive
  <1>7. Quiet'
    <2>1. stopOrders' = {} /\ \A o \in Placed' : orders'[o].stopPrice = 0
      BY <1>1, <1>3, <1>5 DEF Quiet
    <2>2. \A o \in Placed' : IsLive(o)' /\ o # taker' /\ orders'[o].type # "stop-limit" => o \in book'
      BY <1>1, <1>3, <1>5, <1>6 DEF IsLive, Quiet
    <2>3. \A a, b \in book' : a < b => stamp'[a] < stamp'[b]
      BY <1>1 DEF Quiet
    <2>4. QED
      BY <1>1, <1>2, <2>1, <2>2, <2>3 DEF Quiet
  <1>8. QED
    BY <1>1, <1>3, <1>5, <1>7

\* What an ending call leaves of its order: a rest in the book, behind all others, or nothing.
LEMMA QuietReturn ==
  ASSUME Quiet, EngineInv, RestRemainder \/ CloseMarket \/ FinishFilled
  PROVE  /\ Quiet' /\ phase = "emit" /\ phase' = "idle" /\ taker' = 0 /\ newTrades = <<>>
         /\ UNCHANGED <<nextId, orders, filled, trades, newTrades, seedStep>>
         /\ \A o \in Placed : o # taker => status'[o] = status[o]
         /\ status'[taker] \in Live => /\ orders[taker].type = "limit" /\ taker \in book'
                                       /\ status'[taker] = status[taker] /\ book \subseteq book'
         /\ orders[taker].type = "limit" => status'[taker] = status[taker]
         /\ status'[taker] \in Live \cup {"filled", "cancelled"}
         /\ taker \in Placed /\ taker # 0
  <1>1. Return
    BY DEF RestRemainder, CloseMarket, FinishFilled
  <1>2. /\ phase = "emit" /\ phase' = "idle" /\ taker' = 0 /\ newTrades = <<>>
        /\ UNCHANGED <<nextId, orders, filled, trades, newTrades, seedStep, stopOrders>>
    BY <1>1, ReturnKeeps DEF Return
  <1>3. /\ taker \in Placed /\ taker \in Id /\ taker # 0 /\ taker = nextId - 1 /\ taker \notin book
        /\ orders[taker].type \in {"limit", "market"} /\ status[taker] \in Live \cup {"filled"}
    BY <1>2, TakerExists DEF EngineInv, TakerInv, Quiet, Placed
  <1>4. status \in [Id -> {"none", "open", "partial", "filled", "cancelled"}] /\ Placed \subseteq Id
    BY BookOrders DEF EngineInv, TypeOK, Placed
  <1>5. \/ /\ IsLive(taker) /\ orders[taker].type # "market" /\ status' = status
           /\ book' = book \cup {taker}
           /\ stamp' = [o \in Id |-> IF o \in {taker} THEN clock ELSE stamp[o]]
        \/ /\ IsLive(taker) /\ orders[taker].type = "market"
           /\ status' = [status EXCEPT ![taker] = IF filled[taker] > 0 THEN "filled" ELSE "cancelled"]
           /\ book' = book /\ stamp' = stamp
        \/ ~IsLive(taker) /\ status' = status /\ book' = book /\ stamp' = stamp
    BY <1>3 DEF RestRemainder, CloseMarket, FinishFilled, Push, bookVars
  <1>6. /\ \A o \in Placed : o # taker => status'[o] = status[o]
        /\ orders[taker].type = "limit" => status'[taker] = status[taker]
    BY <1>3, <1>4, <1>5
  <1>7. status'[taker] \in Live => /\ orders[taker].type = "limit" /\ taker \in book'
                                   /\ status'[taker] = status[taker] /\ book \subseteq book'
    BY <1>3, <1>4, <1>5 DEF IsLive, Live
  <1>8. status'[taker] \in Live \cup {"filled", "cancelled"}
    BY <1>3, <1>4, <1>5
  <1>9. \A o \in Placed : IsLive(o)' <=> status'[o] \in Live
    BY DEF IsLive
  <1>10. Quiet'
    <2>1. \A o \in Placed : IsLive(o)' /\ orders[o].type # "stop-limit" => o \in book'
      BY <1>3, <1>5, <1>6, <1>7, <1>9 DEF Quiet, IsLive
    <2>2. \A a, b \in book' : a < b => stamp'[a] < stamp'[b]
      <3>1. CASE book' = book /\ stamp' = stamp
        BY <3>1 DEF Quiet
      <3>2. CASE /\ book' = book \cup {taker}
                 /\ stamp' = [o \in Id |-> IF o \in {taker} THEN clock ELSE stamp[o]]
        <4>1. \A a \in book : a \in Id /\ a < taker /\ stamp[a] < clock /\ a # taker
          <5>1. \A a \in book : a \in Placed
            BY DEF EngineInv, TypeOK, Placed
          <5>2. nextId \in Nat
            BY DEF EngineInv, TypeOK
          <5>3. QED
            BY <1>3, <1>4, <5>1, <5>2 DEF EngineInv, BookInv, Placed
        <4>2. stamp'[taker] = clock /\ \A a \in book : stamp'[a] = stamp[a]
          BY <1>3, <3>2, <4>1
        <4>3. \A a, b \in book : a < b => stamp[a] < stamp[b]
          BY DEF Quiet
        <4>4. SUFFICES ASSUME NEW a \in book', NEW b \in book', a < b PROVE stamp'[a] < stamp'[b]
          OBVIOUS
        <4>5. taker \in Nat /\ \A c \in book : c \in Nat
          BY <1>3, <1>4, <4>1 DEF Id
        <4>6. CASE a = taker
          <5>1. b = taker \/ b < taker
            BY <3>2, <4>1
          <5>2. QED
            BY <4>4, <4>5, <4>6, <5>1, <3>2
        <4>7. CASE a # taker
          BY <3>2, <4>1, <4>2, <4>3, <4>4, <4>7
        <4>8. QED
          BY <4>6, <4>7
      <3>3. QED
        BY <1>5, <3>1, <3>2
    <2>3. QED
      BY <1>2, <2>1, <2>2 DEF Quiet, Placed
  <1>11. QED
    BY <1>2, <1>3, <1>6, <1>7, <1>8, <1>10

\* A new engine.
LEMMA QuietNew ==
  ASSUME NewEngine
  PROVE  Quiet' /\ Placed' = {} /\ newTrades' = <<>> /\ trades' = <<>> /\ phase' = "idle" /\ seedStep' = 0
  BY DEF NewEngine, Quiet, Placed

-----------------------------------------------------------------------------
\* What the constants of the service give.
LEMMA ServiceConstants ==
  /\ MaxUids \in Nat /\ MarketMaker \notin Bots
  /\ \A q \in Quantities : 1..q \subseteq Quantities
  /\ \A r \in Requests : r \in Request /\ (r.type # "stop-limit" => r.stopPrice = 0)
  BY ServiceAssumption, EngineAssumption

\* A step of the engine that the service has no record of.
LEMMA Calm ==
  ASSUME ServiceIInv, UNCHANGED serviceVars,
         UNCHANGED <<nextId, orders, filled, status, newTrades, trades, taker>>,
         mode = "load" => seedStep' = 0, phase' = "idle" <=> phase = "idle",
         phase = "emit" => phase' = "emit"
  PROVE  Bookkeeping'
  <1>1. UNCHANGED <<nextUid, terms, api, uuidToMeId, pending, apiTrades, owed, mode, reloading,
                    placing, diskOrders, diskTrades, crashes>>
    BY DEF serviceVars, memory, disk
  <1>2. Shapes' /\ Undrawn' /\ CallInv' /\ LoadInv'
    BY <1>1 DEF ServiceIInv, Bookkeeping, Shapes, Undrawn, CallInv, LoadInv, Placed
  <1>3. TurnInv' /\ FileUncrossed' /\ HomeInv'
    BY <1>1 DEF ServiceIInv, Bookkeeping, Accounts, TurnInv, FileUncrossed, HomeInv
  <1>4. StoreInv'
    BY <1>1 DEF ServiceIInv, Bookkeeping, Accounts, StoreInv, IsUserOrder
  <1>5. LinkInv'
    BY <1>1 DEF ServiceIInv, Bookkeeping, Accounts, LinkInv, Linked
  <1>6. CoverInv'
    BY <1>1 DEF ServiceIInv, Bookkeeping, CoverInv, IsUserOrder
  <1>7. QED
    BY <1>2, <1>3, <1>4, <1>5, <1>6 DEF Bookkeeping, Accounts

\* An order that was recorded, as the invariants know it.
LEMMA Recorded ==
  ASSUME ServiceIInv, NEW u \in Uid, api[u].status \in Live
  PROVE  /\ terms[u].order \in Request /\ terms[u].order.type = "limit"
         /\ terms[u].order.price \in Nat /\ terms[u].order.quantity \in Nat
         /\ api[u].filled \in Nat /\ api[u].filled < terms[u].order.quantity
         /\ u < nextUid
  <1>1. Sane(api[u], terms[u]) /\ api[u] \in ApiRecord
    BY DEF ServiceIInv, Bookkeeping, Accounts, StoreInv, Shapes
  <1>2. /\ terms[u].order \in Request /\ terms[u].order.type = "limit"
        /\ api[u].filled \in Nat /\ api[u].filled < terms[u].order.quantity
    BY <1>1 DEF Sane, ApiRecord, Live
  <1>3. terms[u].order.price \in Nat /\ terms[u].order.quantity \in Nat
    BY <1>2, Constants DEF Request
  <1>4. u < nextUid
    <2>1. nextUid \in Nat /\ u \in Nat
      BY DEF ServiceIInv, Bookkeeping, Shapes, Uid
    <2>2. u >= nextUid => api[u] = Absent
      BY DEF ServiceIInv, Bookkeeping, Undrawn
    <2>3. QED
      BY <2>1, <2>2 DEF Absent, Live
  <1>5. QED
    BY <1>2, <1>3, <1>4

\* An order of the API and its order in the engine.
LEMMA Mapped ==
  ASSUME ServiceIInv, NEW u \in Uid, NEW m, m = uuidToMeId[u], m # 0
  PROVE  /\ m \in Placed /\ m \in Id /\ m # taker /\ Linked(u, m) /\ u < nextUid
         /\ api[u] \in ApiRecord /\ api[u].filled \in Nat /\ Traded(newTrades, m) \in Nat
         /\ orders[m] \in OrderRecord /\ orders[m].quantity \in Nat /\ filled[m] \in Nat
         /\ filled[m] <= orders[m].quantity
         /\ \A v \in Uid : uuidToMeId[v] = m => v = u
  <1>1. m \in Placed /\ u \in Nat /\ nextUid \in Nat
    BY DEF ServiceIInv, Bookkeeping, Shapes, Placed, Uid
  <1>2. m \in Id /\ orders[m] \in OrderRecord /\ orders[m].quantity \in Nat /\ filled[m] \in Nat
        /\ filled[m] <= orders[m].quantity
    BY <1>1, BookOrders DEF ServiceIInv, EngineInv, FillsBounded, Placed
  <1>3. m # taker /\ Linked(u, m)
    BY DEF ServiceIInv, Bookkeeping, Accounts, TurnInv, LinkInv
  <1>4. u < nextUid
    BY <1>1 DEF ServiceIInv, Bookkeeping, Undrawn
  <1>5. api[u] \in ApiRecord /\ api[u].filled \in Nat
    BY DEF ServiceIInv, Bookkeeping, Shapes, ApiRecord
  <1>6. Traded(newTrades, m) \in Nat
    <2>1. \E t : t \in TradeRecord
      <3>1. PICK mid : mid \in SeedMids
        BY ServiceAssumption
      <3>2. mid \in Prices
        BY <3>1, Constants
      <3>3. [price |-> mid, quantity |-> 1, side |-> "buy", maker |-> m, taker |-> m] \in TradeRecord
        BY <1>2, <3>2 DEF TradeRecord, Side
      <3>4. QED
        BY <3>3
    <2>2. newTrades \in Seq(TradeRecord)
      BY DEF ServiceIInv, EngineInv, TypeOK
    <2>3. QED
      BY <2>1, <2>2, TradedMore
  <1>7. \A v \in Uid : uuidToMeId[v] = m => v = u
    <2> SUFFICES ASSUME NEW v \in Uid, uuidToMeId[v] = m, v # u PROVE FALSE
      OBVIOUS
    <2>1. u < v \/ v < u
      BY DEF Uid
    <2>2. m \in Nat
      BY <1>2 DEF Id
    <2>3. u < v => uuidToMeId[u] < uuidToMeId[v]
      BY DEF ServiceIInv, Bookkeeping, Accounts, TurnInv
    <2>4. v < u => uuidToMeId[v] < uuidToMeId[u]
      BY DEF ServiceIInv, Bookkeeping, Accounts, TurnInv
    <2>5. QED
      BY <2>1, <2>2, <2>3, <2>4
  <1>8. QED
    BY <1>1, <1>2, <1>3, <1>4, <1>5, <1>6, <1>7

\* Once nothing is left to be told, the two records agree on what is live and what is left of it.
LEMMA RecordsAgree ==
  ASSUME ServiceIInv, NEW u \in Uid, NEW m, m = uuidToMeId[u], m # 0, newTrades = <<>>
  PROVE  /\ api[u].status \in Live <=> IsLive(m)
         /\ Remaining(m) = terms[u].order.quantity - api[u].filled
         /\ IsLive(m) => /\ m \in book /\ orders[m].price = terms[u].order.price
                         /\ orders[m].side = terms[u].order.side
                         /\ orders[m].trader = terms[u].order.trader
  <1>1. /\ LinkOf(api[u], terms[u].order, orders[m], filled[m], status[m], Traded(newTrades, m))
        /\ m \in Placed /\ m # taker /\ m \in 1..(nextId - 1)
        /\ api[u].filled \in Nat /\ orders[m].quantity \in Nat /\ filled[m] \in Nat
    BY Mapped DEF Linked, Placed
  <1>2. Traded(newTrades, m) = 0
    <2>1. newTrades \in Seq(TradeRecord) /\ \A i \in DOMAIN newTrades : m \notin {newTrades[i].maker, newTrades[i].taker}
      BY DEF ServiceIInv, EngineInv, TypeOK
    <2>2. QED
      BY <2>1, TradedNone
  <1>3. Remaining(m) = terms[u].order.quantity - api[u].filled
    BY <1>1, <1>2 DEF LinkOf, Remaining
  <1>4. IsLive(m) => api[u].status \in Live
    BY <1>1 DEF LinkOf, IsLive
  <1>5. api[u].status \in Live => IsLive(m)
    <2> SUFFICES ASSUME api[u].status \in Live PROVE IsLive(m)
      OBVIOUS
    <2>1. terms[u].order.type = "limit" /\ api[u].filled < terms[u].order.quantity /\ terms[u].order.quantity \in Nat
      BY Recorded
    <2>2. status[m] \in Live \cup {"filled"} /\ orders[m].type = "limit" /\ filled[m] # orders[m].quantity
      BY <1>1, <1>2, <2>1 DEF LinkOf, SameTerms
    <2>3. status[m] # "filled"
      BY <1>1, <2>2 DEF ServiceIInv, EngineInv, FillsBounded
    <2>4. QED
      BY <2>2, <2>3 DEF IsLive
  <1>6. ASSUME IsLive(m)
        PROVE  /\ m \in book /\ orders[m].price = terms[u].order.price
               /\ orders[m].side = terms[u].order.side /\ orders[m].trader = terms[u].order.trader
    <2>1. terms[u].order.type = "limit"
      BY <1>4, <1>6, Recorded
    <2>2. /\ orders[m].type = "limit" /\ orders[m].price = terms[u].order.price
          /\ orders[m].side = terms[u].order.side /\ orders[m].trader = terms[u].order.trader
      BY <1>1, <2>1 DEF LinkOf, SameTerms
    <2>3. m \in book
      BY <1>1, <1>6, <2>2 DEF ServiceIInv, Quiet
    <2>4. QED
      BY <2>2, <2>3
  <1>7. QED
    BY <1>3, <1>4, <1>5, <1>6

\* The trades on file, and the one on its way there, add up.
LEMMA CountsAreNat ==
  ASSUME Shapes, NEW o
  PROVE  /\ Traded(diskTrades, o) \in Nat /\ Traded(owed, o) \in Nat /\ Traded(<<>>, o) = 0
         /\ owed \in Seq(ApiTrade) /\ \A x \in ApiTrade : x.quantity \in Nat
         /\ \A x \in ApiTrade : /\ Traded(<<x>>, o) = Share(x, o) /\ Share(x, o) \in Nat
                                /\ Traded(Append(diskTrades, x), o) = Traded(diskTrades, o) + Share(x, o)
  <1>1. diskTrades \in Seq(ApiTrade)
    BY DEF Shapes
  <1>2. <<>> \in Seq(ApiTrade) /\ \A x \in ApiTrade : <<x>> = Append(<<>>, x)
    OBVIOUS
  <1>3. owed \in Seq(ApiTrade)
    <2>1. CASE owed = <<>>
      BY <2>1, <1>2
    <2>2. CASE owed # <<>>
      <3>1. PICK x \in ApiTrade : owed = <<x>>
        BY <2>2 DEF Shapes
      <3>2. <<x>> \in Seq(ApiTrade)
        OBVIOUS
      <3>3. QED
        BY <3>1, <3>2
    <2>3. QED
      BY <2>1, <2>2
  <1>4. \A x \in ApiTrade : x.quantity \in Nat
    BY DEF ApiTrade
  <1>5. [maker |-> 0, taker |-> 0, quantity |-> 1] \in ApiTrade
    BY ServiceConstants DEF ApiTrade
  <1>6. \A s \in Seq(ApiTrade), x \in ApiTrade :
          Traded(s, o) \in Nat /\ Share(x, o) \in Nat /\ Traded(Append(s, x), o) = Traded(s, o) + Share(x, o)
    BY <1>4, TradedMoreOf
  <1>7. Traded(<<>>, o) = 0
    <2>1. \A i \in DOMAIN <<>> : FALSE
      OBVIOUS
    <2>2. \A i \in DOMAIN <<>> : o \notin {<<>>[i].maker, <<>>[i].taker}
      BY <2>1
    <2>3. QED
      BY <1>2, <2>2, TradedNone
  <1>8. ASSUME NEW x \in ApiTrade PROVE Traded(<<x>>, o) = Share(x, o)
    <2>1. Traded(Append(<<>>, x), o) = Traded(<<>>, o) + Share(x, o) /\ Share(x, o) \in Nat
      BY <1>2, <1>6
    <2>2. <<x>> = Append(<<>>, x)
      BY <1>2
    <2>3. QED
      BY <1>7, <2>1, <2>2
  <1>9. QED
    BY <1>1, <1>3, <1>4, <1>5, <1>6, <1>7, <1>8

\* What a share in a trade is.
LEMMA ShareOf ==
  ASSUME NEW t, NEW o
  PROVE  /\ o = t.maker \/ o = t.taker => Share(t, o) = t.quantity
         /\ o # t.maker /\ o # t.taker => Share(t, o) = 0
  BY DEF Share

\* The orders of the file never cross, so placing them again fills nothing.
LEMMA NoFillOnLoad ==
  ASSUME ServiceIInv, NEW m \in Id, Fill(m)
  PROVE  mode # "load"
  <1> SUFFICES ASSUME mode = "load" PROVE FALSE
    OBVIOUS
  <1>1. /\ phase = "level" /\ Eligible(m) /\ orders[m].side = MakerSide /\ orders[m].price = at
        /\ m \in Placed /\ m # taker
    BY QuietFill DEF Fill, IsNextMaker, Level, ServiceIInv
  <1>2. PICK u \in Uid : uuidToMeId[u] = m
    BY <1>1 DEF ServiceIInv, Bookkeeping, LoadInv
  <1>3. m # 0
    BY DEF Id
  <1>4. LinkOf(api[u], terms[u].order, orders[m], filled[m], status[m], Traded(newTrades, m))
    BY <1>2, <1>3, Mapped DEF Linked
  <1>5. api[u].status \in Live
    BY <1>1, <1>4 DEF LinkOf, Eligible, IsLive
  <1>6. /\ placing # 0 /\ placing \in Uid /\ api[placing].status \in Live
        /\ SameTerms(terms[placing].order, orders[taker])
    <2>1. placing # 0
      BY <1>1 DEF ServiceIInv, Bookkeeping, CallInv
    <2>2. placing \in Uid
      BY <2>1, ServiceConstants DEF ServiceIInv, Bookkeeping, Shapes, Uid
    <2>3. QED
      BY <2>1, <2>2 DEF ServiceIInv, Bookkeeping, LoadInv, Accounts, LinkInv
  <1>7. ~TermsCross(terms[u].order, terms[placing].order) /\ ~TermsCross(terms[placing].order, terms[u].order)
    BY <1>5, <1>6 DEF ServiceIInv, Bookkeeping, LoadInv, Accounts, FileUncrossed
  <1>8. terms[u].order.type = "limit" /\ terms[placing].order.type = "limit"
    BY <1>5, <1>6, Recorded
  <1>9. /\ terms[u].order.side = Opposite(orders[taker].side) /\ terms[u].order.price = at
        /\ terms[placing].order.side = orders[taker].side
        /\ terms[placing].order.price = orders[taker].price
        /\ terms[u].order.trader # terms[placing].order.trader
    BY <1>1, <1>4, <1>6, <1>8 DEF LinkOf, SameTerms, Eligible, MakerSide
  <1>10. /\ ~Better(orders[taker].side, orders[taker].price, at) /\ at \in Nat
         /\ orders[taker].price \in Nat /\ orders[taker].side \in Side
    BY <1>1, TakerExists, Constants DEF ServiceIInv, EngineInv, SweepInv, CanMatch
  <1>11. QED
    BY <1>7, <1>9, <1>10 DEF TermsCross, Better, Opposite, Side

\* A fill: what was traded is not told yet.
LEMMA FillBooks ==
  ASSUME ServiceIInv, NEW m \in Id, Fill(m), UNCHANGED serviceVars
  PROVE  Bookkeeping'
  <1>1. UNCHANGED <<nextUid, terms, api, uuidToMeId, pending, apiTrades, owed, mode, reloading,
                    placing, diskOrders, diskTrades, crashes>>
    BY DEF serviceVars, memory, disk
  <1>2. /\ orders' = orders /\ UNCHANGED <<nextId, trades, taker, seedStep>> /\ phase = "level"
        /\ phase' = "level" /\ m \in Placed \ {taker} /\ taker \in Placed /\ IsLive(m)
    BY QuietFill DEF ServiceIInv
  <1>3. PICK t \in TradeRecord : /\ t.maker = m /\ t.taker = taker /\ t.quantity = FillQty(m)
                                 /\ newTrades' = Append(newTrades, t)
    BY QuietFill DEF ServiceIInv
  <1>4. mode # "load"
    BY NoFillOnLoad
  <1>5. Shapes' /\ Undrawn' /\ CallInv' /\ LoadInv'
    BY <1>1, <1>2, <1>4 DEF ServiceIInv, Bookkeeping, Shapes, Undrawn, CallInv, LoadInv
  <1>6. TurnInv' /\ FileUncrossed' /\ HomeInv'
    BY <1>1, <1>2 DEF ServiceIInv, Bookkeeping, Accounts, TurnInv, FileUncrossed, HomeInv
  <1>7. StoreInv'
    BY <1>1 DEF ServiceIInv, Bookkeeping, Accounts, StoreInv, IsUserOrder
  <1>8. newTrades \in Seq(TradeRecord)
    BY DEF ServiceIInv, EngineInv, TypeOK
  <1>9. \A o : /\ Traded(newTrades', o) = Traded(newTrades, o) + Share(t, o)
               /\ Traded(newTrades, o) \in Nat
    BY <1>3, <1>8, TradedMore
  <1> DEFINE q == FillQty(m)
  <1>10. /\ q \in Nat /\ filled'[m] = filled[m] + q /\ filled'[taker] = filled[taker] + q
         /\ \A o \in Id : o # m /\ o # taker => filled'[o] = filled[o] /\ status'[o] = status[o]
         /\ status'[m] \in {"filled", "partial"}
    <2>1. status'[m] = StatusAfter(m)
      BY FillFacts DEF ServiceIInv
    <2>2. QED
      BY <2>1, FillFacts DEF ServiceIInv, StatusAfter
  <1>11. Share(t, m) = q /\ Share(t, taker) = q /\ \A o : o # m /\ o # taker => Share(t, o) = 0
    BY <1>3 DEF Share
  <1> HIDE DEF q
  <1>12. ASSUME NEW u \in Uid, uuidToMeId[u] # 0 PROVE Linked(u, uuidToMeId[u])'
    <2> DEFINE k == uuidToMeId[u]
    <2>1. /\ LinkOf(api[u], terms[u].order, orders[k], filled[k], status[k], Traded(newTrades, k))
          /\ k \in Id /\ k # taker /\ api[u].filled \in Nat /\ orders[k].quantity \in Nat
          /\ filled[k] \in Nat /\ Traded(newTrades, k) \in Nat
      BY <1>12, Mapped DEF Linked
    <2> HIDE DEF k
    <2>2. LinkOf(api[u], terms[u].order, orders[k], filled'[k], status'[k], Traded(newTrades', k))
      <3>1. CASE k # m
        <4>1. Share(t, k) = 0
          BY <1>11, <2>1, <3>1
        <4>2. Traded(newTrades', k) = Traded(newTrades, k) /\ filled'[k] = filled[k] /\ status'[k] = status[k]
          BY <1>9, <1>10, <2>1, <3>1, <4>1
        <4>3. QED
          BY <2>1, <4>2
      <3>2. CASE k = m
        <4>1. Traded(newTrades', k) = Traded(newTrades, k) + q /\ filled'[k] = filled[k] + q
              /\ status'[k] \in {"filled", "partial"} /\ status[k] \in Live
          BY <1>2, <1>9, <1>10, <1>11, <3>2 DEF IsLive
        <4>2. QED
          BY <1>10, <2>1, <4>1 DEF LinkOf, Live
      <3>3. QED
        BY <3>1, <3>2
    <2>3. QED
      BY <1>1, <1>2, <2>2 DEF Linked, k
  <1>13. LinkInv'
    BY <1>1, <1>2, <1>12 DEF ServiceIInv, Bookkeeping, Accounts, LinkInv
  <1>14. CoverInv'
    <2>1. filled[taker] \in Nat /\ Traded(newTrades', taker) = Traded(newTrades, taker) + q
      BY <1>2, <1>9, <1>11, TakerExists DEF ServiceIInv, EngineInv
    <2>2. ASSUME placing # 0, mode = "serve", IsUserOrder(placing)
          PROVE  Traded(diskTrades, placing) + Traded(owed, placing) + Traded(newTrades', taker) = filled'[taker]
      <3>1. Traded(diskTrades, placing) + Traded(owed, placing) + Traded(newTrades, taker) = filled[taker]
        BY <2>2 DEF ServiceIInv, Bookkeeping, CoverInv
      <3>2. Traded(diskTrades, placing) \in Nat /\ Traded(owed, placing) \in Nat
        BY CountsAreNat DEF ServiceIInv, Bookkeeping
      <3>3. QED
        BY <1>9, <1>10, <2>1, <3>1, <3>2
    <2>3. QED
      BY <1>1, <1>2, <2>2 DEF ServiceIInv, Bookkeeping, CoverInv, IsUserOrder
  <1>15. QED
    BY <1>5, <1>6, <1>7, <1>13, <1>14 DEF Bookkeeping, Accounts

\* A trade is told: the fill of its maker moves from the engine's list to the maker's record,
\* in memory and on file alike, and the trade waits to be recorded.
LEMMA OnTradeBooks ==
  ASSUME ServiceIInv, OnTrade
  PROVE  Bookkeeping'
  <1> DEFINE t == Head(newTrades)
             u == MeIdToUuid(t.maker)
             x == [maker |-> u, taker |-> pending, quantity |-> t.quantity]
             told == Filled(u, t.quantity)
  <1>1. /\ newTrades # <<>> /\ newTrades' = Tail(newTrades) /\ phase = "emit" /\ phase' = "emit"
        /\ owed = <<>>
        /\ UNCHANGED <<nextId, orders, filled, status, book, stopOrders, taker, seedStep>>
        /\ UNCHANGED <<nextUid, terms, uuidToMeId, pending, apiTrades, diskTrades, mode,
                       reloading, placing, crashes>>
    BY DEF OnTrade, EmitTrade, bookVars, seedVars
  <1>2. mode # "load"
    BY <1>1 DEF ServiceIInv, Bookkeeping, LoadInv
  <1>3. /\ owed' = <<x>>
        /\ u = 0 => api' = api /\ diskOrders' = diskOrders
        /\ u # 0 => /\ api' = [api EXCEPT ![u] = told]
                    /\ diskOrders' = IF terms[u].order.trader \in Bots THEN diskOrders
                                     ELSE Written(u, told)
    BY <1>2 DEF OnTrade
  <1>4. /\ t \in TradeRecord /\ newTrades' \in Seq(TradeRecord) /\ newTrades = <<t>> \o newTrades'
        /\ t.taker = taker /\ t.maker \in Placed \ {taker} /\ t.quantity \in Nat \ {0}
    <2>1. newTrades \in Seq(TradeRecord)
      BY DEF ServiceIInv, EngineInv, TypeOK
    <2>2. t \in TradeRecord /\ newTrades' \in Seq(TradeRecord) /\ newTrades = <<t>> \o newTrades'
      BY <1>1, <2>1
    <2>3. 1 \in DOMAIN newTrades /\ t = newTrades[1]
      BY <1>1, <2>1
    <2>4. t.taker = taker /\ t.maker \in Placed \ {taker}
      BY <2>3 DEF ServiceIInv, Quiet
    <2>5. QED
      BY <2>2, <2>4 DEF TradeRecord
  <1>5. \A o : /\ Traded(newTrades, o) = Traded(newTrades', o) + Share(t, o)
               /\ Traded(newTrades', o) \in Nat
    <2> HIDE DEF t
    <2>1. \A o : /\ Traded(<<t>> \o newTrades', o) = Traded(newTrades', o) + Share(t, o)
                 /\ Traded(newTrades', o) \in Nat
      BY <1>4, TradedMore
    <2>2. QED
      BY <1>4, <2>1
  <1>6. /\ \A v \in Uid : uuidToMeId[v] = t.maker => v = u
        /\ u # 0 => u \in Uid /\ uuidToMeId[u] = t.maker /\ t.maker # 0
        /\ u = 0 \/ u \in Uid
    <2>1. t.maker # 0
      BY <1>4 DEF Placed
    <2>2. CASE \E v \in Uid : uuidToMeId[v] = t.maker
      <3>1. u \in Uid /\ uuidToMeId[u] = t.maker
        BY <2>2 DEF MeIdToUuid
      <3>2. \A v \in Uid : uuidToMeId[v] = t.maker => v = u
        BY <2>1, <3>1, Mapped
      <3>3. QED
        BY <2>1, <3>1, <3>2
    <2>3. CASE ~\E v \in Uid : uuidToMeId[v] = t.maker
      BY <2>3 DEF MeIdToUuid
    <2>4. QED
      BY <2>2, <2>3
  <1>7. told = [filled |-> api[u].filled + t.quantity,
                status |-> IF api[u].filled + t.quantity >= terms[u].order.quantity
                           THEN "filled" ELSE "partial"]
    BY DEF Filled
  <1> DEFINE q == t.quantity
             k == t.maker
  <1>8. \A o : /\ o = k \/ o = taker => Share(t, o) = q
               /\ o # k /\ o # taker => Share(t, o) = 0
    BY <1>4 DEF Share
  <1>9. \A o : /\ o = u \/ o = pending => Share(x, o) = q
               /\ o # u /\ o # pending => Share(x, o) = 0
    BY DEF Share
  <1>10. x \in ApiTrade
    <2>1. u \in 0..MaxUids /\ pending \in 0..MaxUids
      BY <1>6, ServiceConstants DEF Uid, ServiceIInv, Bookkeeping, Shapes
    <2>2. QED
      BY <1>4, <2>1 DEF ApiTrade
  <1>11. \A o : Traded(owed', o) = Share(x, o) /\ Traded(owed, o) = 0 /\ Traded(diskTrades, o) \in Nat
    BY <1>1, <1>3, <1>10, CountsAreNat DEF ServiceIInv, Bookkeeping
  <1>12. ASSUME u # 0
         PROVE  /\ api[u].status \in Live /\ api[u].filled \in Nat
                /\ Linked(u, k) /\ orders[k].quantity \in Nat /\ filled[k] \in Nat
                /\ filled[k] <= orders[k].quantity /\ u < nextUid
                /\ k \in Placed /\ k # taker /\ k \in Id
    <2>1. /\ Linked(u, k) /\ orders[k].quantity \in Nat /\ filled[k] \in Nat
          /\ filled[k] <= orders[k].quantity /\ u < nextUid /\ api[u].filled \in Nat
          /\ k \in Placed /\ k # taker /\ k \in Id
      BY <1>6, <1>12, Mapped
    <2>2. Traded(newTrades, k) # 0
      BY <1>4, <1>5, <1>8
    <2>3. api[u].status \in Live
      BY <2>1, <2>2 DEF Linked, LinkOf
    <2>4. QED
      BY <2>1, <2>3
  <1> HIDE DEF t, u, x, told, q, k
  <1>13. /\ api' \in [Uid -> ApiRecord]
         /\ \A v \in Uid : v # u => api'[v] = api[v] /\ diskOrders'[v] = diskOrders[v]
         /\ u # 0 => /\ api'[u] = told
                     /\ diskOrders'[u] = IF diskOrders[u] = Absent THEN Absent ELSE told
         /\ diskOrders' \in [Uid -> ApiRecord]
    <2>1. api \in [Uid -> ApiRecord] /\ diskOrders \in [Uid -> ApiRecord]
      BY DEF ServiceIInv, Bookkeeping, Shapes
    <2>2. CASE u = 0
      BY <1>3, <2>1, <2>2
    <2>3. CASE u # 0
      <3>1. u \in Uid /\ q \in Nat /\ api[u].filled \in Nat
        BY <1>4, <1>6, <1>12, <2>3 DEF q
      <3>2. told \in ApiRecord
        BY <1>7, <3>1 DEF ApiRecord, q, Live
      <3>3. terms[u].order.trader \in Bots => diskOrders[u] = Absent
        BY <3>1 DEF ServiceIInv, Bookkeeping, Accounts, StoreInv, Stored, IsUserOrder
      <3>4. diskOrders' = IF diskOrders[u] = Absent THEN diskOrders ELSE [diskOrders EXCEPT ![u] = told]
        BY <1>3, <2>3, <3>3 DEF Written
      <3>5. QED
        BY <1>3, <2>1, <2>3, <3>1, <3>2, <3>4
    <2>4. QED
      BY <2>2, <2>3
  <1>14. Shapes'
    <2>1. \E y \in ApiTrade : owed' = <<y>>
      BY <1>3, <1>10
    <2>2. QED
      BY <1>1, <1>13, <2>1 DEF ServiceIInv, Bookkeeping, Shapes
  <1>15. Undrawn'
    <2>1. pending < nextUid /\ nextUid \in Nat /\ pending \in Nat
      BY ServiceConstants DEF ServiceIInv, Bookkeeping, Shapes
    <2>2. \A v \in Uid : v >= nextUid => v # pending /\ v # u
      BY <1>12, <2>1, <1>6 DEF Uid
    <2>3. \A v \in Uid : v >= nextUid => Share(x, v) = 0
      BY <1>9, <2>2
    <2>4. QED
      BY <1>1, <1>11, <1>13, <2>2, <2>3 DEF ServiceIInv, Bookkeeping, Undrawn
  <1>16. u = 0 \/ u # placing
    BY <1>6 DEF ServiceIInv, Bookkeeping, CallInv
  <1>17. CallInv' /\ LoadInv' /\ TurnInv'
    <2>1. mode = "serve" => placing \in Uid
      BY <1>1, ServiceConstants DEF ServiceIInv, Bookkeeping, CallInv, Shapes, Uid
    <2>2. mode = "serve" => api'[placing] = Absent /\ pending = placing
      BY <1>1, <1>13, <1>16, <2>1, ServiceConstants DEF ServiceIInv, Bookkeeping, CallInv, Uid
    <2>3. CallInv'
      BY <1>1, <1>2, <2>2 DEF ServiceIInv, Bookkeeping, CallInv
    <2>4. reloading = {}
      BY <1>2 DEF ServiceIInv, Bookkeeping, CallInv
    <2>5. TurnInv'
      BY <1>1, <2>4 DEF ServiceIInv, Bookkeeping, Accounts, TurnInv
    <2>6. QED
      BY <1>1, <1>2, <2>3, <2>5 DEF LoadInv
  <1>18. ASSUME u # 0
         PROVE  /\ LinkOf(told, terms[u].order, orders[k], filled[k], status[k], Traded(newTrades', k))
                /\ Sane(told, terms[u]) /\ told # Absent
    <2>1. /\ LinkOf(api[u], terms[u].order, orders[k], filled[k], status[k], Traded(newTrades, k))
          /\ api[u].status \in Live /\ api[u].filled \in Nat /\ orders[k].quantity \in Nat
          /\ filled[k] \in Nat /\ filled[k] <= orders[k].quantity
      BY <1>12, <1>18 DEF Linked
    <2>2. Traded(newTrades, k) = Traded(newTrades', k) + q /\ Traded(newTrades', k) \in Nat /\ q \in Nat
          /\ q > 0
      BY <1>4, <1>5, <1>8 DEF q
    <2>3. terms[u].order \in Request /\ terms[u].order.type = "limit" /\ terms[u].order.quantity \in Nat
      BY <1>6, <1>18, <2>1, Recorded
    <2>4. status[k] \in Live => filled[k] < orders[k].quantity
      BY <1>12, <1>18 DEF ServiceIInv, EngineInv, FillsBounded, IsLive, Placed
    <2>5. told = [filled |-> api[u].filled + q,
                  status |-> IF api[u].filled + q >= terms[u].order.quantity THEN "filled" ELSE "partial"]
      BY <1>7 DEF q
    <2>6. api[u].filled + q + (orders[k].quantity - filled[k]) + Traded(newTrades', k) = terms[u].order.quantity
      BY <2>1, <2>2 DEF LinkOf
    <2>7. CASE api[u].filled + q >= terms[u].order.quantity
      <3>1. told.filled = api[u].filled + q /\ told.status = "filled"
        BY <2>5, <2>7
      <3>2. /\ Traded(newTrades', k) = 0 /\ filled[k] = orders[k].quantity
            /\ api[u].filled + q <= terms[u].order.quantity
        BY <2>1, <2>2, <2>3, <2>6, <2>7
      <3>3. status[k] \notin Live
        BY <2>1, <2>4, <3>2
      <3>4. QED
        BY <2>1, <2>3, <2>6, <3>1, <3>2, <3>3 DEF LinkOf, Sane, Absent, Live
    <2>8. CASE ~(api[u].filled + q >= terms[u].order.quantity)
      <3>1. told.filled = api[u].filled + q /\ told.status = "partial"
        BY <2>5, <2>8
      <3>2. api[u].filled + q < terms[u].order.quantity
        BY <2>1, <2>2, <2>3, <2>8
      <3>3. QED
        BY <2>1, <2>2, <2>3, <2>6, <3>1, <3>2 DEF LinkOf, Sane, Absent, Live
    <2>9. QED
      BY <2>7, <2>8
  <1>19. LinkInv'
    <2>1. ASSUME NEW v \in Uid, uuidToMeId[v] # 0 PROVE Linked(v, uuidToMeId[v])'
      <3>1. CASE v = u
        <4>1. u # 0 /\ uuidToMeId[v] = k
          BY <1>6, <3>1 DEF Uid, k
        <4>2. QED
          BY <1>1, <1>13, <1>18, <3>1, <4>1 DEF Linked
      <3>2. CASE v # u
        <4> DEFINE j == uuidToMeId[v]
        <4>1. /\ LinkOf(api[v], terms[v].order, orders[j], filled[j], status[j], Traded(newTrades, j))
              /\ j # taker
          BY <2>1, Mapped DEF Linked
        <4>2. j # k
          BY <1>6, <3>2 DEF k
        <4>3. Traded(newTrades', j) = Traded(newTrades, j)
          <5>1. Share(t, j) = 0
            BY <1>8, <4>1, <4>2
          <5>2. QED
            BY <1>5, <5>1
        <4>4. api'[v] = api[v]
          BY <1>13, <3>2
        <4> HIDE DEF j
        <4>5. LinkOf(api'[v], terms[v].order, orders[j], filled[j], status[j], Traded(newTrades', j))
          BY <4>1, <4>3, <4>4
        <4>6. QED
          BY <1>1, <4>5 DEF Linked, j
      <3>3. QED
        BY <3>1, <3>2
    <2>2. placing # 0 => api'[placing] = api[placing]
      BY <1>13, <1>16, ServiceConstants DEF ServiceIInv, Bookkeeping, Shapes, Uid
    <2>3. QED
      BY <1>1, <2>1, <2>2 DEF ServiceIInv, Bookkeeping, Accounts, LinkInv
  <1>20. StoreInv'
    <2>2. ASSUME NEW v \in Uid
          PROVE  Sane(api'[v], terms[v]) /\ Stored(api'[v], diskOrders'[v], IsUserOrder(v))
      <3>1. Sane(api[v], terms[v]) /\ Stored(api[v], diskOrders[v], IsUserOrder(v))
        BY DEF ServiceIInv, Bookkeeping, Accounts, StoreInv
      <3>2. CASE v # u
        BY <1>13, <3>1, <3>2
      <3>3. CASE v = u
        <4>1. u # 0 /\ api'[v] = told /\ diskOrders'[v] = IF diskOrders[v] = Absent THEN Absent ELSE told
          BY <1>13, <3>3 DEF Uid
        <4>2. api[v] # Absent
          BY <1>12, <3>3, <4>1 DEF Live, Absent
        <4>3. QED
          BY <1>18, <3>1, <3>3, <4>1, <4>2 DEF Stored
      <3>4. QED
        BY <3>2, <3>3
    <2>3. QED
      BY <1>1, <2>2 DEF StoreInv, IsUserOrder
  <1>21. \A v \in Uid : /\ api'[v].status \in Live => api[v].status \in Live
                        /\ diskOrders'[v].status \in Live => diskOrders[v].status \in Live
    <2>1. Absent.status \notin Live
      BY DEF Absent, Live
    <2>2. u # 0 => /\ api[u].status \in Live
                   /\ diskOrders[u] # Absent => diskOrders[u] = api[u]
      BY <1>6, <1>12 DEF ServiceIInv, Bookkeeping, Accounts, StoreInv, Stored
    <2>3. \A v \in Uid : v = u => u # 0
      BY DEF Uid
    <2>4. QED
      BY <1>13, <2>1, <2>2, <2>3
  <1>22. FileUncrossed' /\ HomeInv'
    BY <1>1, <1>21 DEF ServiceIInv, Bookkeeping, Accounts, FileUncrossed, HomeInv
  <1>23. CoverInv'
    <2>1. ASSUME NEW v \in Uid, diskOrders'[v] # Absent
          PROVE  /\ Traded(diskTrades, v) + Traded(owed', v) <= diskOrders'[v].filled
                 /\ crashes = 0 => Traded(diskTrades, v) + Traded(owed', v) = diskOrders'[v].filled
      <3>1. /\ diskOrders[v] # Absent /\ diskOrders[v] = api[v]
            /\ v # u => diskOrders'[v] = diskOrders[v]
            /\ v = u => diskOrders'[v] = told /\ u # 0
        BY <1>13, <2>1 DEF ServiceIInv, Bookkeeping, Accounts, StoreInv, Stored, Uid
      <3>2. /\ Traded(diskTrades, v) + Traded(owed, v) <= api[v].filled
            /\ crashes = 0 => Traded(diskTrades, v) + Traded(owed, v) = api[v].filled
        BY <3>1 DEF ServiceIInv, Bookkeeping, CoverInv
      <3>3. v # pending
        <4>1. mode = "seed" => pending = 0
          BY DEF ServiceIInv, Bookkeeping, CallInv
        <4>2. mode = "serve" => pending = placing /\ api[placing] = Absent
          BY <1>1 DEF ServiceIInv, Bookkeeping, CallInv
        <4>3. v # 0 /\ mode \in {"seed", "serve"}
          BY <1>2 DEF ServiceIInv, Bookkeeping, Shapes, Uid
        <4>4. QED
          BY <3>1, <4>1, <4>2, <4>3
      <3>4. CASE v # u
        <4>1. Share(x, v) = 0
          BY <1>9, <3>3, <3>4
        <4>2. QED
          BY <1>11, <3>1, <3>2, <3>4, <4>1
      <3>5. CASE v = u
        <4>1. Share(x, v) = q /\ told.filled = api[v].filled + q /\ q \in Nat /\ api[v].filled \in Nat
          BY <1>4, <1>7, <1>9, <1>12, <3>1, <3>5 DEF q
        <4>2. Traded(owed', v) = q /\ Traded(owed, v) = 0 /\ Traded(diskTrades, v) \in Nat
          BY <1>11, <4>1
        <4>3. QED
          BY <3>1, <3>2, <3>5, <4>1, <4>2
      <3>6. QED
        BY <3>4, <3>5
    <2>2. ASSUME placing # 0, mode = "serve", IsUserOrder(placing)
          PROVE  Traded(diskTrades, placing) + Traded(owed', placing) + Traded(newTrades', taker) = filled[taker]
      <3>1. Traded(diskTrades, placing) + Traded(owed, placing) + Traded(newTrades, taker) = filled[taker]
        BY <2>2 DEF ServiceIInv, Bookkeeping, CoverInv
      <3>2. pending = placing
        BY <1>1, <2>2 DEF ServiceIInv, Bookkeeping, CallInv
      <3>3. /\ Traded(owed', placing) = q /\ Traded(owed, placing) = 0
            /\ Traded(diskTrades, placing) \in Nat /\ q \in Nat
        BY <1>4, <1>9, <1>11, <3>2 DEF q
      <3>4. Traded(newTrades, taker) = Traded(newTrades', taker) + q /\ Traded(newTrades', taker) \in Nat
        BY <1>5, <1>8
      <3>5. QED
        BY <3>1, <3>3, <3>4
    <2>3. QED
      BY <1>1, <2>1, <2>2 DEF CoverInv, IsUserOrder
  <1>24. QED
    BY <1>14, <1>15, <1>17, <1>19, <1>20, <1>22, <1>23 DEF Bookkeeping, Accounts

\* A trade is recorded, and written unless only bots are in it: no stored order is a bot's.
LEMMA SaveTradeBooks ==
  ASSUME ServiceIInv, SaveTrade
  PROVE  Bookkeeping'
  <1>1. /\ owed # <<>> /\ owed' = <<>>
        /\ diskTrades' = IF ConcernsUser(Head(owed)) THEN saveTrade(Head(owed)) ELSE diskTrades
        /\ UNCHANGED <<nextId, orders, filled, status, newTrades, trades, taker, seedStep, phase>>
        /\ UNCHANGED <<nextUid, terms, api, uuidToMeId, pending, diskOrders, mode, reloading,
                       placing, crashes>>
    BY DEF SaveTrade, vars, callVars, seedVars
  <1>2. PICK x \in ApiTrade : owed = <<x>>
    BY <1>1 DEF ServiceIInv, Bookkeeping, Shapes
  <1>3. Head(owed) = x
    BY <1>2
  <1>4. \A o : /\ Traded(owed, o) = Share(x, o) /\ Share(x, o) \in Nat /\ Traded(owed', o) = 0
               /\ Traded(diskTrades, o) \in Nat
               /\ Traded(Append(diskTrades, x), o) = Traded(diskTrades, o) + Share(x, o)
    BY <1>1, <1>2, CountsAreNat DEF ServiceIInv, Bookkeeping
  <1>5. \/ diskTrades' = Append(diskTrades, x)
        \/ diskTrades' = diskTrades /\ IsBot(x.maker) /\ IsBot(x.taker)
    BY <1>1, <1>3 DEF ConcernsUser, saveTrade
  <1>6. ASSUME NEW o \in Uid
        PROVE  /\ IsUserOrder(o) => Traded(diskTrades', o) + Traded(owed', o) = Traded(diskTrades, o) + Traded(owed, o)
               /\ Traded(diskTrades, o) = 0 /\ Traded(owed, o) = 0 => Traded(diskTrades', o) = 0
    <2>1. CASE diskTrades' = Append(diskTrades, x)
      BY <1>4, <2>1
    <2>2. CASE diskTrades' = diskTrades /\ IsBot(x.maker) /\ IsBot(x.taker)
      <3>1. IsUserOrder(o) => o # x.maker /\ o # x.taker
        BY <2>2 DEF IsBot, IsUserOrder, Uid
      <3>2. IsUserOrder(o) => Share(x, o) = 0
        BY <3>1 DEF Share
      <3>3. QED
        BY <1>4, <2>2, <3>2
    <2>3. QED
      BY <1>5, <2>1, <2>2
  <1>7. Shapes'
    <2>1. diskTrades \in Seq(ApiTrade)
      BY DEF ServiceIInv, Bookkeeping, Shapes
    <2>2. diskTrades' \in Seq(ApiTrade)
      BY <1>5, <2>1
    <2>3. QED
      BY <1>1, <2>2 DEF ServiceIInv, Bookkeeping, Shapes
  <1>8. Undrawn'
    BY <1>1, <1>4, <1>6 DEF ServiceIInv, Bookkeeping, Undrawn
  <1>9. CallInv' /\ LoadInv' /\ TurnInv' /\ FileUncrossed' /\ HomeInv'
    <2>1. CallInv' /\ LoadInv'
      BY <1>1 DEF ServiceIInv, Bookkeeping, CallInv, LoadInv, Placed
    <2>2. TurnInv' /\ FileUncrossed' /\ HomeInv'
      BY <1>1 DEF ServiceIInv, Bookkeeping, Accounts, TurnInv, FileUncrossed, HomeInv
    <2>3. QED
      BY <2>1, <2>2
  <1>10. LinkInv' /\ StoreInv'
    <2>1. LinkInv'
      BY <1>1 DEF ServiceIInv, Bookkeeping, Accounts, LinkInv, Linked
    <2>2. StoreInv'
      BY <1>1 DEF ServiceIInv, Bookkeeping, Accounts, StoreInv, IsUserOrder
    <2>3. QED
      BY <2>1, <2>2
  <1>11. CoverInv'
    <2>1. \A v \in Uid : diskOrders[v] # Absent => IsUserOrder(v)
      BY DEF ServiceIInv, Bookkeeping, Accounts, StoreInv, Stored
    <2>2. \A v \in Uid : diskOrders'[v] # Absent =>
            /\ Traded(diskTrades', v) + Traded(owed', v) <= diskOrders'[v].filled
            /\ crashes' = 0 => Traded(diskTrades', v) + Traded(owed', v) = diskOrders'[v].filled
      BY <1>1, <1>6, <2>1 DEF ServiceIInv, Bookkeeping, CoverInv
    <2>3. placing # 0 => placing \in Uid
      BY ServiceConstants DEF ServiceIInv, Bookkeeping, Shapes, Uid
    <2>4. ASSUME placing # 0, mode = "serve", IsUserOrder(placing)
          PROVE  Traded(diskTrades', placing) + Traded(owed', placing) + Traded(newTrades, taker) = filled[taker]
      <3>1. Traded(diskTrades, placing) + Traded(owed, placing) + Traded(newTrades, taker) = filled[taker]
        BY <2>4 DEF ServiceIInv, Bookkeeping, CoverInv
      <3>2. Traded(diskTrades', placing) + Traded(owed', placing) = Traded(diskTrades, placing) + Traded(owed, placing)
        BY <1>6, <2>3, <2>4
      <3>3. QED
        BY <3>1, <3>2
    <2>5. QED
      BY <1>1, <2>2, <2>4 DEF CoverInv, IsUserOrder
  <1>12. QED
    BY <1>7, <1>8, <1>9, <1>10, <1>11 DEF Bookkeeping, Accounts

-----------------------------------------------------------------------------
\* The engine returns to whoever placed the order.
LEMMA ReturnedBooks ==
  ASSUME ServiceIInv, EngineInv', Returned
  PROVE  Bookkeeping'
  <1> DEFINE rec == [filled |-> filled[taker], status |-> status'[taker]]
  <1>1. /\ owed = <<>> /\ owed' = <<>> /\ (RestRemainder \/ CloseMarket \/ FinishFilled)
        /\ uuidToMeId' = IF placing = 0 THEN uuidToMeId ELSE [uuidToMeId EXCEPT ![placing] = taker]
        /\ api' = IF mode = "serve" THEN [api EXCEPT ![placing] = rec] ELSE api
        /\ diskOrders' = IF mode = "serve" /\ IsUserOrder(placing)
                         THEN saveOrder(placing, rec) ELSE diskOrders
        /\ pending' = 0 /\ placing' = 0
        /\ UNCHANGED <<nextUid, terms, apiTrades, owed, diskTrades, mode, reloading, crashes>>
    BY DEF Returned
  <1>2. /\ phase = "emit" /\ phase' = "idle" /\ taker' = 0 /\ newTrades = <<>> /\ Quiet'
        /\ UNCHANGED <<nextId, orders, filled, trades, newTrades, seedStep>>
        /\ \A o \in Placed : o # taker => status'[o] = status[o]
        /\ status'[taker] \in Live => /\ orders[taker].type = "limit" /\ taker \in book'
                                      /\ status'[taker] = status[taker] /\ book \subseteq book'
        /\ orders[taker].type = "limit" => status'[taker] = status[taker]
        /\ status'[taker] \in Live \cup {"filled", "cancelled"}
        /\ taker \in Placed /\ taker # 0
    BY <1>1, QuietReturn DEF ServiceIInv
  <1>3. /\ filled[taker] \in Nat /\ orders[taker].quantity \in Nat /\ filled[taker] <= orders[taker].quantity
        /\ status'[taker] \in Live => filled[taker] < orders[taker].quantity
        /\ orders[taker].price \in Nat
    <2>1. status'[taker] \in Live => status[taker] \in Live
      BY <1>2
    <2>2. QED
      BY <1>2, <2>1, TakerExists DEF ServiceIInv, EngineInv, FillsBounded, IsLive, Placed
  <1>4. /\ rec.filled = filled[taker] /\ rec.status = status'[taker] /\ rec \in ApiRecord /\ rec # Absent
        /\ rec.status # "absent"
    BY <1>2, <1>3 DEF ApiRecord, Absent, Live
  <1> HIDE DEF rec
  <1>5. /\ placing = 0 <=> mode = "seed"
        /\ placing # 0 => placing \in Uid /\ uuidToMeId[placing] = 0 /\ placing < nextUid
        /\ mode = "serve" => api[placing] = Absent
        /\ mode \in {"load", "seed", "serve"}
        /\ placing = 0 => placing \notin Uid
    BY <1>2, ServiceConstants DEF ServiceIInv, Bookkeeping, CallInv, Shapes, Uid
  <1>6. /\ api' \in [Uid -> ApiRecord] /\ diskOrders' \in [Uid -> ApiRecord]
        /\ uuidToMeId' \in [Uid -> 0..(nextId - 1)]
        /\ \A v \in Uid : v # placing => /\ api'[v] = api[v] /\ diskOrders'[v] = diskOrders[v]
                                         /\ uuidToMeId'[v] = uuidToMeId[v]
        /\ placing # 0 => uuidToMeId'[placing] = taker
        /\ mode = "serve" => /\ api'[placing] = rec
                             /\ diskOrders'[placing] = IF IsUserOrder(placing) THEN rec ELSE Absent
        /\ mode # "serve" => api' = api /\ diskOrders' = diskOrders
    <2>1. /\ api \in [Uid -> ApiRecord] /\ diskOrders \in [Uid -> ApiRecord]
          /\ uuidToMeId \in [Uid -> 0..(nextId - 1)] /\ taker \in 0..(nextId - 1)
      BY DEF ServiceIInv, EngineInv, TypeOK, Bookkeeping, Shapes
    <2>2. mode = "serve" => diskOrders[placing] = Absent
      BY <1>5 DEF ServiceIInv, Bookkeeping, Accounts, StoreInv, Stored
    <2>3. uuidToMeId' \in [Uid -> 0..(nextId - 1)] /\ (placing # 0 => uuidToMeId'[placing] = taker)
      BY <1>1, <1>5, <2>1
    <2>4. api' \in [Uid -> ApiRecord] /\ (mode = "serve" => api'[placing] = rec)
      BY <1>1, <1>4, <1>5, <2>1
    <2>5. /\ diskOrders' \in [Uid -> ApiRecord]
          /\ mode = "serve" => diskOrders'[placing] = IF IsUserOrder(placing) THEN rec ELSE Absent
      BY <1>1, <1>4, <1>5, <2>1, <2>2 DEF saveOrder
    <2>6. \A v \in Uid : v # placing => /\ api'[v] = api[v] /\ diskOrders'[v] = diskOrders[v]
                                        /\ uuidToMeId'[v] = uuidToMeId[v]
      BY <1>1, <2>1 DEF saveOrder
    <2>7. QED
      BY <1>1, <2>3, <2>4, <2>5, <2>6
  <1>7. Shapes'
    <2>1. 0 \in 0..MaxUids /\ 0 < nextUid
      BY ServiceConstants DEF ServiceIInv, Bookkeeping, Shapes
    <2>2. QED
      BY <1>1, <1>2, <1>6, <2>1 DEF ServiceIInv, Bookkeeping, Shapes
  <1>8. Undrawn'
    <2>1. \A v \in Uid : v >= nextUid => v # placing
      BY <1>5 DEF ServiceIInv, Bookkeeping, Shapes, Uid
    <2>2. QED
      BY <1>1, <1>6, <2>1 DEF ServiceIInv, Bookkeeping, Undrawn
  <1>9. CallInv'
    BY <1>1, <1>2 DEF ServiceIInv, Bookkeeping, CallInv
  <1>10. LoadInv'
    <2> SUFFICES ASSUME mode = "load" PROVE LoadInv'
      BY <1>1 DEF LoadInv
    <2>1. /\ api = diskOrders /\ newTrades = <<>> /\ trades = <<>>
          /\ \A o \in Placed : filled[o] = 0 /\ status[o] = "open" /\ orders[o].type = "limit"
      BY DEF ServiceIInv, Bookkeeping, LoadInv
    <2>2. \A o \in Placed : status'[o] = "open"
      BY <1>2, <2>1
    <2>3. ASSUME NEW o \in Placed PROVE \E u \in Uid : uuidToMeId'[u] = o
      <3>1. CASE o = taker
        BY <1>5, <1>6, <3>1
      <3>2. CASE o # taker
        <4>1. PICK u \in Uid : uuidToMeId[u] = o
          BY <3>2 DEF ServiceIInv, Bookkeeping, LoadInv
        <4>2. u # placing
          BY <1>5, <4>1, <2>3 DEF Placed
        <4>3. QED
          BY <1>6, <4>1, <4>2
      <3>3. QED
        BY <3>1, <3>2
    <2>4. QED
      BY <1>1, <1>2, <1>6, <2>1, <2>2, <2>3 DEF LoadInv, Placed
  <1>11. TurnInv'
    <2>1. \A v \in Uid : uuidToMeId[v] # 0 => uuidToMeId[v] \in 1..(nextId - 1) /\ uuidToMeId[v] # taker
      BY DEF ServiceIInv, Bookkeeping, Shapes, Accounts, TurnInv
    <2>2. taker = nextId - 1 /\ nextId \in Nat
      BY <1>2 DEF ServiceIInv, Quiet, EngineInv, TypeOK
    <2>3. \A v \in Uid : uuidToMeId[v] # 0 => uuidToMeId[v] < taker
      BY <2>1, <2>2
    <2>4. \A v \in Uid : uuidToMeId[v] # 0 /\ placing # 0 => v < placing
      BY DEF ServiceIInv, Bookkeeping, Accounts, TurnInv
    <2>5. ASSUME NEW u \in Uid, NEW v \in Uid, u < v, uuidToMeId'[u] # 0, uuidToMeId'[v] # 0
          PROVE  uuidToMeId'[u] < uuidToMeId'[v]
      <3>1. CASE u # placing /\ v # placing
        BY <1>6, <2>5, <3>1 DEF ServiceIInv, Bookkeeping, Accounts, TurnInv
      <3>2. CASE u = placing
        <4>1. v # placing /\ placing # 0 /\ u \in Nat /\ v \in Nat
          BY <2>5, <3>2 DEF Uid
        <4>2. v < placing
          BY <1>6, <2>4, <2>5, <4>1
        <4>3. QED
          BY <2>5, <3>2, <4>1, <4>2
      <3>3. CASE v = placing /\ u # placing
        <4>1. placing # 0
          BY <3>3 DEF Uid
        <4>2. QED
          BY <1>6, <2>3, <2>5, <3>3, <4>1
      <3>4. QED
        BY <3>1, <3>2, <3>3
    <2>6. ASSUME NEW v \in reloading
          PROVE  /\ uuidToMeId'[v] = 0 /\ v # 0 /\ api'[v].status \in Live /\ 0 < v
                 /\ \A u \in Uid : uuidToMeId'[u] # 0 => u < v
      <3>1. /\ uuidToMeId[v] = 0 /\ v # placing /\ api[v].status \in Live /\ placing < v
            /\ \A u \in Uid : uuidToMeId[u] # 0 => u < v
        BY DEF ServiceIInv, Bookkeeping, Accounts, TurnInv
      <3>2. v \in Uid
        BY DEF ServiceIInv, Bookkeeping, Shapes
      <3>3. \A u \in Uid : uuidToMeId'[u] # 0 => u < v
        BY <1>6, <3>1
      <3>4. QED
        BY <1>6, <3>1, <3>2, <3>3 DEF Uid
    <2>7. QED
      BY <1>1, <1>2, <2>5, <2>6 DEF TurnInv
  <1>12. LinkInv'
    <2>1. ASSUME NEW v \in Uid, uuidToMeId'[v] # 0
          PROVE  Linked(v, uuidToMeId[v])' \/ LinkOf(api'[v], terms[v].order, orders[uuidToMeId'[v]],
                   filled[uuidToMeId'[v]], status'[uuidToMeId'[v]], Traded(newTrades, uuidToMeId'[v]))
      <3>1. CASE v # placing
        <4> DEFINE j == uuidToMeId[v]
        <4>1. /\ LinkOf(api[v], terms[v].order, orders[j], filled[j], status[j], Traded(newTrades, j))
              /\ j # taker /\ j \in Placed /\ j = uuidToMeId'[v]
          BY <1>6, <2>1, <3>1, Mapped DEF Linked
        <4> HIDE DEF j
        <4>2. status'[j] = status[j] /\ api'[v] = api[v]
          BY <1>2, <1>6, <3>1, <4>1
        <4>3. QED
          BY <4>1, <4>2
      <3>2. CASE v = placing
        <4>1. /\ placing # 0 /\ uuidToMeId'[v] = taker /\ SameTerms(terms[v].order, orders[taker])
              /\ api[v].filled + orders[taker].quantity = terms[v].order.quantity
          BY <1>5, <1>6, <3>2 DEF ServiceIInv, Bookkeeping, Accounts, LinkInv
        <4>2. Traded(newTrades, taker) = 0
          BY <1>2, CountsAreNat DEF ServiceIInv, Bookkeeping
        <4>3. CASE mode = "serve"
          <5>1. api[v].filled = 0 /\ api'[v] = rec
            BY <1>5, <1>6, <3>2, <4>3 DEF Absent
          <5>2. rec.filled + (orders[taker].quantity - filled[taker]) + 0 = terms[v].order.quantity
            BY <1>3, <1>4, <4>1, <5>1
          <5>3. LinkOf(rec, terms[v].order, orders[taker], filled[taker], status'[taker], 0)
            BY <1>4, <4>1, <5>2 DEF LinkOf
          <5>4. QED
            BY <4>1, <4>2, <5>1, <5>3
        <4>4. CASE mode = "load"
          <5>1. /\ api[v].status \in Live /\ filled[taker] = 0 /\ status'[taker] = "open"
                /\ api'[v] = api[v] /\ api[v].filled \in Nat
            <6>1. api[v].status \in Live /\ filled[taker] = 0 /\ status[taker] = "open" /\ orders[taker].type = "limit"
              BY <1>2, <3>2, <4>1, <4>4 DEF ServiceIInv, Bookkeeping, LoadInv
            <6>2. QED
              BY <1>2, <1>6, <4>4, <6>1, Recorded
          <5>2. api[v].filled + (orders[taker].quantity - filled[taker]) + 0 = terms[v].order.quantity
            BY <1>3, <4>1, <5>1
          <5>3. LinkOf(api[v], terms[v].order, orders[taker], filled[taker], status'[taker], 0)
            BY <4>1, <5>1, <5>2 DEF LinkOf, Live
          <5>4. QED
            BY <4>1, <4>2, <5>1, <5>3
        <4>5. QED
          BY <1>5, <4>1, <4>3, <4>4
      <3>3. QED
        BY <3>1, <3>2
    <2>2. \A v \in Uid : uuidToMeId'[v] # 0 => Linked(v, uuidToMeId[v])'
      BY <1>1, <1>2, <2>1 DEF Linked
    <2>3. QED
      BY <1>1, <2>2 DEF LinkInv
  <1>13. ASSUME mode = "serve"
         PROVE  /\ Sane(rec, terms[placing]) /\ placing \in Uid /\ placing # 0
                /\ SameTerms(terms[placing].order, orders[taker])
                /\ rec.status \in Live => terms[placing].order.type = "limit"
    <2>1. /\ placing # 0 /\ placing \in Uid /\ terms[placing].order \in Request
          /\ SameTerms(terms[placing].order, orders[taker])
          /\ api[placing].filled + orders[taker].quantity = terms[placing].order.quantity
          /\ api[placing].filled = 0
      BY <1>5, <1>13 DEF ServiceIInv, Bookkeeping, Accounts, LinkInv, Absent
    <2>2. rec.filled <= terms[placing].order.quantity
      BY <1>3, <1>4, <2>1
    <2>3. rec.status \in Live => /\ rec.filled < terms[placing].order.quantity
                                 /\ terms[placing].order.type = "limit"
      BY <1>2, <1>3, <1>4, <2>1 DEF SameTerms
    <2>4. QED
      BY <1>4, <2>1, <2>2, <2>3 DEF Sane
  <1>14. StoreInv'
    <2>1. ASSUME NEW v \in Uid
          PROVE  Sane(api'[v], terms[v]) /\ Stored(api'[v], diskOrders'[v], IsUserOrder(v))
      <3>1. Sane(api[v], terms[v]) /\ Stored(api[v], diskOrders[v], IsUserOrder(v))
        BY DEF ServiceIInv, Bookkeeping, Accounts, StoreInv
      <3>2. CASE v # placing \/ mode # "serve"
        BY <1>6, <3>1, <3>2
      <3>3. CASE v = placing /\ mode = "serve"
        BY <1>4, <1>6, <1>13, <3>3 DEF Stored
      <3>4. QED
        BY <3>2, <3>3
    <2>2. QED
      BY <1>1, <2>1 DEF StoreInv, IsUserOrder
  <1>15. ASSUME mode = "serve", NEW v \in Uid, v # placing, diskOrders[v].status \in Live, rec.status \in Live
         PROVE  /\ ~TermsCross(terms[v].order, terms[placing].order)
                /\ ~TermsCross(terms[placing].order, terms[v].order)
    <2>0. PICK m, k : m = uuidToMeId[v] /\ k = taker
      OBVIOUS
    <2>1. diskOrders[v] # Absent
      BY <1>15 DEF Absent, Live
    <2>2. api[v].status \in Live
      BY <1>15, <2>1 DEF ServiceIInv, Bookkeeping, Accounts, StoreInv, Stored
    <2>3. m # 0
      BY <1>15, <2>0, <2>2 DEF ServiceIInv, Bookkeeping, Accounts, HomeInv
    <2>4. IsLive(m) /\ m \in Placed /\ m # taker
      BY <1>2, <2>0, <2>2, <2>3, RecordsAgree, Mapped
    <2>5. /\ m \in book /\ orders[m].price = terms[v].order.price
          /\ orders[m].side = terms[v].order.side /\ orders[m].trader = terms[v].order.trader
      BY <1>2, <2>0, <2>3, <2>4, RecordsAgree
    <2>6. /\ m \in book' /\ k \in book' /\ status'[m] \in Live /\ status'[k] \in Live
      BY <1>2, <1>4, <1>15, <2>0, <2>4, <2>5 DEF IsLive
    <2>7. orders[m].stopPrice = 0 /\ orders[k].stopPrice = 0
      BY <1>2, <2>0, <2>4 DEF Quiet, ServiceIInv
    <2>8. ~Crossing(m, k)' /\ ~Crossing(k, m)'
      <3>1. IsLive(m)' /\ IsLive(k)' /\ orders'[m].stopPrice = 0 /\ orders'[k].stopPrice = 0
        BY <1>2, <2>6, <2>7 DEF IsLive
      <3>2. QED
        BY <2>6, <3>1 DEF EngineInv, BookUncrossed
    <2>9. /\ terms[placing].order.side = orders[k].side
          /\ terms[placing].order.trader = orders[k].trader
          /\ terms[placing].order.price = orders[k].price
      BY <1>4, <1>13, <1>15, <2>0 DEF SameTerms
    <2>10. /\ ~Crossing(m, k) /\ ~Crossing(k, m)
      BY <1>2, <2>8 DEF Crossing
    <2>11. QED
      BY <2>5, <2>9, <2>10 DEF Crossing, TermsCross
  <1>16. FileUncrossed'
    <2> SUFFICES ASSUME NEW u \in Uid, NEW v \in Uid, diskOrders'[u].status \in Live, diskOrders'[v].status \in Live
                 PROVE  ~TermsCross(terms[u].order, terms[v].order)
      BY <1>1 DEF FileUncrossed
    <2>1. \A w \in Uid : diskOrders[w] = diskOrders'[w] \/ (w = placing /\ mode = "serve")
      BY <1>6
    <2>2. mode = "serve" /\ (u = placing \/ v = placing) => rec.status \in Live
      BY <1>6 DEF Absent, Live
    <2>3. CASE (u # placing /\ v # placing) \/ mode # "serve"
      BY <2>1, <2>3 DEF ServiceIInv, Bookkeeping, Accounts, FileUncrossed
    <2>4. CASE mode = "serve" /\ u = placing /\ v # placing
      BY <1>15, <2>1, <2>2, <2>4
    <2>5. CASE mode = "serve" /\ v = placing /\ u # placing
      BY <1>15, <2>1, <2>2, <2>5
    <2>6. CASE u = v
      BY <2>6 DEF TermsCross
    <2>7. QED
      BY <2>3, <2>4, <2>5, <2>6
  <1>17. HomeInv'
    <2>1. \A v \in Uid : v = placing => uuidToMeId'[v] # 0
      BY <1>2, <1>6 DEF Uid
    <2>2. QED
      BY <1>1, <1>6, <2>1 DEF ServiceIInv, Bookkeeping, Accounts, HomeInv
  <1>18. CoverInv'
    <2>1. ASSUME NEW v \in Uid, diskOrders'[v] # Absent
          PROVE  /\ Traded(diskTrades, v) + Traded(owed, v) <= diskOrders'[v].filled
                 /\ crashes = 0 => Traded(diskTrades, v) + Traded(owed, v) = diskOrders'[v].filled
      <3>1. CASE diskOrders'[v] = diskOrders[v]
        BY <2>1, <3>1 DEF ServiceIInv, Bookkeeping, CoverInv
      <3>2. CASE v = placing /\ mode = "serve"
        <4>1. IsUserOrder(v) /\ diskOrders'[v] = rec
          BY <1>6, <2>1, <3>2
        <4>2. Traded(diskTrades, v) + Traded(owed, v) + Traded(newTrades, taker) = filled[taker]
          BY <1>13, <3>2, <4>1 DEF ServiceIInv, Bookkeeping, CoverInv
        <4>3. Traded(newTrades, taker) = 0 /\ Traded(diskTrades, v) \in Nat /\ Traded(owed, v) \in Nat
          BY <1>2, CountsAreNat DEF ServiceIInv, Bookkeeping
        <4>4. QED
          BY <1>3, <1>4, <4>1, <4>2, <4>3
      <3>3. QED
        BY <1>6, <3>1, <3>2
    <2>2. QED
      BY <1>1, <2>1 DEF CoverInv
  <1>19. QED
    BY <1>7, <1>8, <1>9, <1>10, <1>11, <1>12, <1>14, <1>16, <1>17, <1>18 DEF Bookkeeping, Accounts

-----------------------------------------------------------------------------
\* What the invariants say between calls.
LEMMA BetweenCalls ==
  ASSUME ServiceIInv, phase = "idle"
  PROVE  /\ placing = 0 /\ owed = <<>> /\ newTrades = <<>> /\ taker = 0
         /\ \A u \in Uid : u # 0 /\ u \in Nat
         /\ nextUid \in Nat /\ nextUid > 0 /\ nextId \in Nat /\ nextId > 0
         /\ \A o : Traded(<<>>, o) = 0
         /\ \A v \in Uid : uuidToMeId[v] # 0 => /\ uuidToMeId[v] \in Placed /\ uuidToMeId[v] < nextId
                                                /\ v < nextUid
  <1>1. /\ placing = 0 /\ owed = <<>> /\ newTrades = <<>> /\ taker = 0
        /\ nextUid \in Nat /\ nextUid > 0 /\ nextId \in Nat /\ nextId > 0
    BY ServiceConstants DEF ServiceIInv, Bookkeeping, CallInv, Quiet, EngineInv, TypeOK, Shapes
  <1>2. \A v \in Uid : uuidToMeId[v] # 0 => /\ uuidToMeId[v] \in Placed /\ v < nextUid
    BY Mapped
  <1>3. \A o : Traded(<<>>, o) = 0
    BY CountsAreNat DEF ServiceIInv, Bookkeeping
  <1>4. QED
    BY <1>1, <1>2, <1>3 DEF Uid, Placed

\* A call that starts leaves the links of the orders that were placed before.
LEMMA StartLinks ==
  ASSUME ServiceIInv, NEW r \in Request, r.stopPrice = 0, StartMatch(r), phase = "idle",
         NEW v \in Uid, NEW k, k = uuidToMeId[v], k # 0
  PROVE  LinkOf(api[v], terms[v].order, orders'[k], filled'[k], status'[k], Traded(newTrades', k))
  <1>1. /\ newTrades' = newTrades
        /\ \A o \in Placed : orders'[o] = orders[o] /\ filled'[o] = filled[o] /\ status'[o] = status[o]
    BY QuietStart DEF ServiceIInv
  <1>2. /\ k \in Placed
        /\ LinkOf(api[v], terms[v].order, orders[k], filled[k], status[k], Traded(newTrades, k))
    BY Mapped DEF Linked
  <1>3. QED
    BY <1>1, <1>2

\* A user places an order under a fresh id.
LEMMA PlaceBooks ==
  ASSUME ServiceIInv, NEW r \in Requests, NEW p2p \in BOOLEAN, Place(r, p2p)
  PROVE  Bookkeeping'
  <1> DEFINE t == [order |-> Order(r, r.type, r.price), p2pOrigin |-> p2p]
  <1>1. /\ mode = "serve" /\ nextUid <= MaxUids /\ nextUid' = nextUid + 1
        /\ terms' = [terms EXCEPT ![nextUid] = t]
        /\ pending' = nextUid /\ placing' = nextUid
        /\ phase = "idle" /\ r.type # "stop-limit" /\ StartMatch(r)
        /\ UNCHANGED <<api, uuidToMeId, apiTrades, owed, mode, reloading, diskOrders, diskTrades, crashes>>
        /\ seedStep' = seedStep
    BY DEF Place, PlaceOrder, Idle, disk, seedVars
  <1>2. r \in Request /\ r.stopPrice = 0
    BY <1>1, ServiceConstants
  <1>3. /\ taker' = nextId /\ nextId' = nextId + 1 /\ phase' = "sweep" /\ filled'[nextId] = 0
        /\ newTrades' = <<>> /\ orders'[nextId] = Order(r, r.type, PriceOf(r))
    BY <1>1, <1>2, QuietStart DEF ServiceIInv
  <1>4. /\ t.order \in Request /\ t \in [order: Request \cup {NoOrder}, p2pOrigin: BOOLEAN]
        /\ SameTerms(t.order, orders'[nextId]) /\ t.order.quantity = orders'[nextId].quantity
        /\ t.order.quantity \in Nat
    <2>1. t.order = [side |-> r.side, type |-> r.type, price |-> r.price, stopPrice |-> r.stopPrice,
                     quantity |-> r.quantity, trader |-> r.trader]
      BY DEF Order
    <2>2. t.order \in Request
      BY <1>2, <2>1 DEF Request
    <2>3. SameTerms(t.order, orders'[nextId]) /\ t.order.quantity = orders'[nextId].quantity
      BY <1>3, <2>1 DEF SameTerms, PriceOf, Order
    <2>4. t.order.quantity \in Nat
      BY <2>2, Constants DEF Request
    <2>5. QED
      BY <2>2, <2>3, <2>4
  <1> HIDE DEF t
  <1>5. /\ placing = 0 /\ owed = <<>> /\ newTrades = <<>>
        /\ \A u \in Uid : u # 0 /\ u \in Nat
        /\ nextUid \in Nat /\ nextUid > 0 /\ nextId \in Nat /\ nextId > 0
        /\ \A o : Traded(<<>>, o) = 0
        /\ \A v \in Uid : uuidToMeId[v] # 0 => uuidToMeId[v] < nextId /\ v < nextUid
    BY <1>1, BetweenCalls
  <1>6. /\ nextUid \in Uid /\ terms'[nextUid] = t /\ \A v \in Uid : v # nextUid => terms'[v] = terms[v]
        /\ terms' \in [Uid -> [order: Request \cup {NoOrder}, p2pOrigin: BOOLEAN]]
    <2>1. nextUid \in Uid
      BY <1>1, <1>5, ServiceConstants DEF Uid
    <2>2. QED
      BY <1>1, <1>4, <2>1 DEF ServiceIInv, Bookkeeping, Shapes
  <1>7. /\ api[nextUid] = Absent /\ diskOrders[nextUid] = Absent /\ uuidToMeId[nextUid] = 0
        /\ Traded(diskTrades, nextUid) = 0
    BY <1>5, <1>6 DEF ServiceIInv, Bookkeeping, Undrawn
  <1>8. Shapes'
    <2>1. /\ uuidToMeId' \in [Uid -> 0..(nextId' - 1)]
      <3>1. \A v \in Uid : uuidToMeId[v] \in 0..(nextId' - 1)
        BY <1>3, <1>5 DEF ServiceIInv, Bookkeeping, Shapes
      <3>2. QED
        BY <1>1, <3>1 DEF ServiceIInv, Bookkeeping, Shapes
    <2>2. nextUid' \in 1..(MaxUids + 1) /\ nextUid \in 0..MaxUids /\ nextUid < nextUid'
      BY <1>1, <1>5, ServiceConstants
    <2>3. QED
      BY <1>1, <1>6, <2>1, <2>2 DEF ServiceIInv, Bookkeeping, Shapes
  <1>9. Undrawn'
    <2>1. \A v \in Uid : v >= nextUid' => v >= nextUid /\ v # nextUid
      BY <1>1, <1>5
    <2>2. QED
      BY <1>1, <1>6, <2>1 DEF ServiceIInv, Bookkeeping, Undrawn
  <1>10. CallInv' /\ LoadInv'
    BY <1>1, <1>3, <1>5, <1>7 DEF ServiceIInv, Bookkeeping, CallInv, LoadInv
  <1>11. TurnInv'
    <2>1. reloading = {}
      BY <1>1 DEF ServiceIInv, Bookkeeping, CallInv
    <2>2. \A u \in Uid : uuidToMeId[u] # 0 => uuidToMeId[u] # nextId /\ u < nextUid
      BY <1>5 DEF ServiceIInv, Bookkeeping, Shapes
    <2>3. QED
      BY <1>1, <1>3, <2>1, <2>2 DEF ServiceIInv, Bookkeeping, Accounts, TurnInv
  <1>12. LinkInv'
    <2>1. ASSUME NEW v \in Uid, uuidToMeId[v] # 0 PROVE Linked(v, uuidToMeId[v])'
      <3>1. terms'[v] = terms[v]
        BY <1>6, <1>7, <2>1
      <3>2. QED
        BY <1>1, <1>2, <2>1, <3>1, StartLinks DEF Linked
    <2>2. api[nextUid].filled + orders'[nextId].quantity = t.order.quantity
      BY <1>4, <1>7 DEF Absent
    <2>3. QED
      BY <1>1, <1>3, <1>4, <1>6, <2>1, <2>2 DEF LinkInv
  <1>13. StoreInv'
    <2>1. \A v \in Uid : v # nextUid => (IsUserOrder(v)' <=> IsUserOrder(v))
      BY <1>6 DEF IsUserOrder
    <2>2. Sane(Absent, t)
      BY DEF Sane, Absent, Live
    <2>3. \A v \in Uid : v # nextUid => Sane(api[v], terms[v]) /\ Stored(api[v], diskOrders[v], IsUserOrder(v))
      BY DEF ServiceIInv, Bookkeeping, Accounts, StoreInv
    <2>4. ASSUME NEW v \in Uid PROVE Sane(api'[v], terms'[v]) /\ Stored(api'[v], diskOrders'[v], IsUserOrder(v)')
      <3>1. CASE v = nextUid
        BY <1>1, <1>6, <1>7, <2>2, <3>1 DEF Stored
      <3>2. CASE v # nextUid
        BY <1>1, <1>6, <2>1, <2>3, <3>2 DEF Stored
      <3>3. QED
        BY <3>1, <3>2
    <2>5. QED
      BY <2>4 DEF StoreInv
  <1>14. FileUncrossed' /\ HomeInv'
    <2>1. \A v \in Uid : diskOrders[v].status \in Live => terms'[v] = terms[v]
      BY <1>6, <1>7 DEF Absent, Live
    <2>2. FileUncrossed'
      BY <1>1, <2>1 DEF ServiceIInv, Bookkeeping, Accounts, FileUncrossed
    <2>3. HomeInv'
      BY <1>1 DEF ServiceIInv, Bookkeeping, Accounts, HomeInv
    <2>4. QED
      BY <2>2, <2>3
  <1>15. CoverInv'
    BY <1>1, <1>3, <1>5, <1>7 DEF ServiceIInv, Bookkeeping, CoverInv
  <1>16. QED
    BY <1>8, <1>9, <1>10, <1>11, <1>12, <1>13, <1>14, <1>15 DEF Bookkeeping, Accounts

\* What is placed again: the first order of the file that is left, for what is left of it.
ReloadRequest(u) ==
  [side |-> terms[u].order.side, type |-> terms[u].order.type,
   price |-> terms[u].order.price, stopPrice |-> 0,
   quantity |-> Remainder(u), trader |-> terms[u].order.trader]

\* What is reloaded first, and that it can be placed.
LEMMA ReloadFacts ==
  ASSUME ServiceIInv, ReloadNext, NEW u, u = NextToReload
  PROVE  /\ mode = "load" /\ u \in reloading /\ \A v \in reloading : u <= v
         /\ u \in Uid /\ api[u].status \in Live /\ uuidToMeId[u] = 0
         /\ ReloadRequest(u) \in Request /\ ReloadRequest(u).stopPrice = 0
         /\ ReloadRequest(u).type = "limit" /\ StartMatch(ReloadRequest(u)) /\ phase = "idle"
         /\ api[u].filled + Remainder(u) = terms[u].order.quantity
         /\ UNCHANGED <<seedStep, seedMid>>
         /\ reloading' = reloading \ {u} /\ placing' = u
         /\ UNCHANGED <<nextUid, terms, api, uuidToMeId, pending, apiTrades, owed, diskOrders,
                        diskTrades, mode, crashes>>
  <1>1. /\ mode = "load" /\ reloading # {} /\ PlaceOrder(ReloadRequest(u))
        /\ reloading' = reloading \ {u} /\ placing' = u
        /\ UNCHANGED <<nextUid, terms, api, uuidToMeId, pending, apiTrades, owed, diskOrders,
                       diskTrades, mode, crashes>>
    BY DEF ReloadNext, ReloadRequest, disk
  <1>2. reloading \in SUBSET Uid
    BY DEF ServiceIInv, Bookkeeping, Shapes
  <1>3. \E v \in reloading : \A w \in reloading : v <= w
    <2>1. PICK e \in reloading : TRUE
      BY <1>1
    <2> DEFINE G == {n \in Nat : n \in reloading => \E v \in reloading : \A w \in reloading : v <= w}
    <2>2. ASSUME NEW n \in Nat, \A m \in Nat : m < n => m \in G PROVE n \in G
      <3>1. SUFFICES ASSUME n \in reloading, ~\A w \in reloading : n <= w
                     PROVE  \E v \in reloading : \A w \in reloading : v <= w
        OBVIOUS
      <3>2. PICK w \in reloading : ~(n <= w)
        BY <3>1
      <3>3. w \in Nat /\ w < n
        BY <1>2, <3>2 DEF Uid
      <3>4. QED
        BY <2>2, <3>2, <3>3
    <2> HIDE DEF G
    <2>3. \A n \in Nat : n \in G
      BY <2>2, NatStrongInduction
    <2>4. e \in Nat
      BY <1>2, <2>1 DEF Uid
    <2>5. QED
      BY <2>1, <2>3, <2>4 DEF G
  <1>4. u \in reloading /\ \A v \in reloading : u <= v
    BY <1>3 DEF NextToReload
  <1>5. u \in Uid /\ api[u].status \in Live /\ uuidToMeId[u] = 0
    BY <1>2, <1>4 DEF ServiceIInv, Bookkeeping, Accounts, TurnInv
  <1>6. /\ terms[u].order \in Request /\ terms[u].order.type = "limit" /\ api[u].filled \in Nat
        /\ api[u].filled < terms[u].order.quantity /\ terms[u].order.quantity \in Nat
    BY <1>5, Recorded
  <1>7. diskOrders[u] = api[u]
    BY <1>1 DEF ServiceIInv, Bookkeeping, LoadInv
  <1>8. api[u].filled + Remainder(u) = terms[u].order.quantity /\ Remainder(u) \in 1..terms[u].order.quantity
    BY <1>6, <1>7 DEF Remainder
  <1>9. Remainder(u) \in Quantities
    <2>1. terms[u].order.quantity \in Quantities
      BY <1>6 DEF Request
    <2>2. QED
      BY <1>8, <2>1, ServiceConstants
  <1>10. /\ ReloadRequest(u) \in Request /\ ReloadRequest(u).stopPrice = 0
         /\ ReloadRequest(u).type = "limit"
    BY <1>6, <1>9 DEF ReloadRequest, Request
  <1>11. StartMatch(ReloadRequest(u)) /\ phase = "idle" /\ UNCHANGED <<seedStep, seedMid>>
    BY <1>1 DEF PlaceOrder, Idle, seedVars
  <1>12. QED
    BY <1>1, <1>4, <1>5, <1>8, <1>10, <1>11

\* An order of the file is placed again.
LEMMA ReloadBooks ==
  ASSUME ServiceIInv, ReloadNext
  PROVE  Bookkeeping'
  <1>1. PICK u : u = NextToReload
    OBVIOUS
  <1>2. PICK r : r = ReloadRequest(u)
    OBVIOUS
  <1>3. /\ mode = "load" /\ u \in reloading /\ \A v \in reloading : u <= v
        /\ u \in Uid /\ api[u].status \in Live /\ uuidToMeId[u] = 0
        /\ r \in Request /\ r.stopPrice = 0 /\ r.type = "limit" /\ StartMatch(r) /\ phase = "idle"
        /\ api[u].filled + Remainder(u) = terms[u].order.quantity
        /\ seedStep' = seedStep
        /\ reloading' = reloading \ {u} /\ placing' = u
        /\ UNCHANGED <<nextUid, terms, api, uuidToMeId, pending, apiTrades, owed, diskOrders,
                       diskTrades, mode, crashes>>
    BY <1>1, <1>2, ReloadFacts
  <1>4. /\ taker' = nextId /\ nextId' = nextId + 1 /\ phase' = "sweep"
        /\ Placed' = Placed \cup {nextId}
        /\ filled'[nextId] = 0 /\ status'[nextId] = "open" /\ trades' = trades
        /\ newTrades' = <<>> /\ orders'[nextId] = Order(r, r.type, PriceOf(r))
        /\ \A o \in Placed : orders'[o] = orders[o] /\ filled'[o] = filled[o] /\ status'[o] = status[o]
    BY <1>3, QuietStart DEF ServiceIInv
  <1>5. /\ placing = 0 /\ owed = <<>> /\ newTrades = <<>> /\ taker = 0
        /\ \A v \in Uid : v # 0 /\ v \in Nat
        /\ nextUid \in Nat /\ nextId \in Nat /\ nextId > 0
        /\ \A v \in Uid : uuidToMeId[v] # 0 => uuidToMeId[v] < nextId
    BY <1>3, BetweenCalls
  <1>6. /\ terms[u].order \in Request /\ terms[u].order.type = "limit" /\ u < nextUid
    BY <1>3, Recorded
  <1>7. SameTerms(terms[u].order, orders'[nextId]) /\ orders'[nextId].quantity = Remainder(u)
        /\ orders'[nextId].type = "limit"
    BY <1>2, <1>3, <1>4, <1>6 DEF SameTerms, ReloadRequest, PriceOf, Order
  <1>8. Shapes'
    <2>1. uuidToMeId' \in [Uid -> 0..(nextId' - 1)]
      <3>1. \A v \in Uid : uuidToMeId[v] \in 0..(nextId' - 1)
        BY <1>4, <1>5 DEF ServiceIInv, Bookkeeping, Shapes
      <3>2. QED
        BY <1>3, <3>1 DEF ServiceIInv, Bookkeeping, Shapes
    <2>2. u \in 0..MaxUids
      BY <1>3, ServiceConstants DEF Uid
    <2>3. QED
      BY <1>3, <1>6, <2>1, <2>2 DEF ServiceIInv, Bookkeeping, Shapes
  <1>9. Undrawn' /\ CallInv'
    BY <1>3, <1>4, <1>5 DEF ServiceIInv, Bookkeeping, Undrawn, CallInv
  <1>10. LoadInv'
    <2>1. \A o \in Placed : /\ filled[o] = 0 /\ status[o] = "open" /\ orders[o].type = "limit"
                            /\ \E w \in Uid : uuidToMeId[w] = o
      BY <1>3, <1>5 DEF ServiceIInv, Bookkeeping, LoadInv, Placed
    <2>2. api = diskOrders /\ trades = <<>>
      BY <1>3 DEF ServiceIInv, Bookkeeping, LoadInv
    <2>3. \A o \in Placed' : /\ filled'[o] = 0 /\ status'[o] = "open" /\ orders'[o].type = "limit"
                             /\ o # taker' => \E w \in Uid : uuidToMeId[w] = o
      BY <1>4, <1>7, <2>1
    <2>4. QED
      BY <1>3, <1>4, <2>2, <2>3 DEF LoadInv
  <1>11. TurnInv'
    <2>1. \A v \in reloading : /\ uuidToMeId[v] = 0 /\ api[v].status \in Live /\ v \in Uid
                               /\ \A w \in Uid : uuidToMeId[w] # 0 => w < v
      BY DEF ServiceIInv, Bookkeeping, Accounts, TurnInv, Shapes
    <2>2. \A v \in reloading' : v \in reloading /\ v # u /\ u < v
      BY <1>3, <1>5, <2>1
    <2>3. \A w \in Uid : uuidToMeId[w] # 0 => uuidToMeId[w] # nextId /\ w < u
      BY <1>3, <1>5, <2>1 DEF ServiceIInv, Bookkeeping, Shapes
    <2>4. \A v, w \in Uid : v < w /\ uuidToMeId[v] # 0 /\ uuidToMeId[w] # 0 => uuidToMeId[v] < uuidToMeId[w]
      BY DEF ServiceIInv, Bookkeeping, Accounts, TurnInv
    <2>5. QED
      BY <1>3, <1>4, <2>1, <2>2, <2>3, <2>4 DEF TurnInv
  <1>12. LinkInv'
    <2>1. ASSUME NEW v \in Uid, uuidToMeId[v] # 0 PROVE Linked(v, uuidToMeId[v])'
      BY <1>3, <2>1, StartLinks DEF Linked
    <2>2. QED
      BY <1>3, <1>4, <1>6, <1>7, <2>1 DEF LinkInv
  <1>13. StoreInv' /\ FileUncrossed' /\ HomeInv'
    <2>1. StoreInv'
      BY <1>3 DEF ServiceIInv, Bookkeeping, Accounts, StoreInv, IsUserOrder
    <2>2. FileUncrossed'
      BY <1>3 DEF ServiceIInv, Bookkeeping, Accounts, FileUncrossed
    <2>3. HomeInv'
      BY <1>3, <1>5 DEF ServiceIInv, Bookkeeping, Accounts, HomeInv
    <2>4. QED
      BY <2>1, <2>2, <2>3
  <1>14. CoverInv'
    BY <1>3 DEF ServiceIInv, Bookkeeping, CoverInv
  <1>15. QED
    BY <1>8, <1>9, <1>10, <1>11, <1>12, <1>13, <1>14 DEF Bookkeeping, Accounts

\* The seed places an order with the engine itself.
LEMMA SeedBooks ==
  ASSUME ServiceIInv, SeedGoesOn
  PROVE  Bookkeeping'
  <1>1. PICK q \in Quantities : SeedPlace(q)
    BY DEF SeedGoesOn
  <1>2. PICK r : r = SeedRequest(seedStep, q)
    OBVIOUS
  <1>3. /\ StartMatch(r) /\ phase = "idle" /\ seedStep \in 1..(2 * SeedLevels) /\ mode = "seed"
        /\ UNCHANGED <<nextUid, terms, api, uuidToMeId, pending, apiTrades, owed, mode, reloading,
                       placing, diskOrders, diskTrades, crashes>>
    BY <1>1, <1>2 DEF SeedPlace, SeedGoesOn, serviceVars, memory, disk
  <1>4. r \in Request /\ r.stopPrice = 0
    <2>1. seedMid \in SeedMids
      BY <1>3, Constants DEF ServiceIInv, EngineInv, TypeOK
    <2>2. r \in Request
      BY <1>2, <1>3, <2>1, SeedRequestType DEF ServiceIInv, EngineInv
    <2>3. QED
      BY <1>2, <2>2 DEF SeedRequest
  <1>5. /\ taker' = nextId /\ nextId' = nextId + 1 /\ phase' = "sweep" /\ newTrades' = <<>>
    BY <1>3, <1>4, QuietStart DEF ServiceIInv
  <1>6. /\ placing = 0 /\ owed = <<>> /\ nextId \in Nat /\ nextId > 0
        /\ \A v \in Uid : uuidToMeId[v] # 0 => uuidToMeId[v] < nextId
    BY <1>3, BetweenCalls
  <1>7. Shapes'
    <2>1. uuidToMeId' \in [Uid -> 0..(nextId' - 1)]
      <3>1. \A v \in Uid : uuidToMeId[v] \in 0..(nextId' - 1)
        BY <1>5, <1>6 DEF ServiceIInv, Bookkeeping, Shapes
      <3>2. QED
        BY <1>3, <3>1 DEF ServiceIInv, Bookkeeping, Shapes
    <2>2. QED
      BY <1>3, <2>1 DEF ServiceIInv, Bookkeeping, Shapes
  <1>8. Undrawn' /\ CallInv' /\ LoadInv'
    BY <1>3, <1>5, <1>6 DEF ServiceIInv, Bookkeeping, Undrawn, CallInv, LoadInv
  <1>9. TurnInv'
    <2>1. \A w \in Uid : uuidToMeId[w] # 0 => uuidToMeId[w] # nextId
      BY <1>6 DEF ServiceIInv, Bookkeeping, Shapes
    <2>2. reloading = {}
      BY <1>3 DEF ServiceIInv, Bookkeeping, CallInv
    <2>3. \A v, w \in Uid : v < w /\ uuidToMeId[v] # 0 /\ uuidToMeId[w] # 0 => uuidToMeId[v] < uuidToMeId[w]
      BY DEF ServiceIInv, Bookkeeping, Accounts, TurnInv
    <2>4. QED
      BY <1>3, <1>5, <1>6, <2>1, <2>2, <2>3 DEF TurnInv
  <1>10. LinkInv'
    <2>1. ASSUME NEW v \in Uid, uuidToMeId[v] # 0 PROVE Linked(v, uuidToMeId[v])'
      BY <1>3, <1>4, <2>1, StartLinks DEF Linked
    <2>2. QED
      BY <1>3, <1>6, <2>1 DEF LinkInv
  <1>11. StoreInv' /\ FileUncrossed' /\ HomeInv'
    <2>1. StoreInv'
      BY <1>3 DEF ServiceIInv, Bookkeeping, Accounts, StoreInv, IsUserOrder
    <2>2. FileUncrossed'
      BY <1>3 DEF ServiceIInv, Bookkeeping, Accounts, FileUncrossed
    <2>3. HomeInv'
      BY <1>3, <1>6 DEF ServiceIInv, Bookkeeping, Accounts, HomeInv
    <2>4. QED
      BY <2>1, <2>2, <2>3
  <1>12. CoverInv'
    BY <1>3, <1>6 DEF ServiceIInv, Bookkeeping, CoverInv
  <1>13. QED
    BY <1>7, <1>8, <1>9, <1>10, <1>11, <1>12 DEF Bookkeeping, Accounts

\* The call of the engine throws: an id is used up.
LEMMA ThrowBooks ==
  ASSUME ServiceIInv, NEW r \in Requests, PlaceThrows(r)
  PROVE  Bookkeeping'
  <1>1. /\ mode = "serve" /\ nextUid <= MaxUids /\ nextUid' = nextUid + 1 /\ pending' = nextUid
        /\ PlaceStopThrows(r)
        /\ UNCHANGED <<terms, api, uuidToMeId, apiTrades, owed, mode, reloading, placing, diskOrders,
                       diskTrades, crashes>>
    BY DEF PlaceThrows, disk
  <1>2. /\ nextId' = nextId + 1 /\ phase = "idle"
        /\ \A o \in Placed : /\ orders'[o] = orders[o] /\ filled'[o] = filled[o]
                             /\ status'[o] = status[o]
        /\ UNCHANGED <<newTrades, trades, phase, taker, seedStep>>
    BY <1>1, QuietThrow, ServiceConstants DEF ServiceIInv
  <1>3. /\ placing = 0 /\ owed = <<>> /\ newTrades = <<>> /\ nextUid \in Nat /\ nextUid > 0
        /\ nextId \in Nat /\ nextId > 0 /\ \A u \in Uid : u # 0 /\ u \in Nat
    BY <1>2, BetweenCalls
  <1>4. Shapes'
    <2>1. uuidToMeId' \in [Uid -> 0..(nextId' - 1)]
      <3>1. \A v \in Uid : uuidToMeId[v] \in 0..(nextId' - 1)
        BY <1>2, <1>3 DEF ServiceIInv, Bookkeeping, Shapes
      <3>2. QED
        BY <1>1, <3>1 DEF ServiceIInv, Bookkeeping, Shapes
    <2>2. nextUid' \in 1..(MaxUids + 1) /\ nextUid \in 0..MaxUids /\ nextUid < nextUid' /\ placing < nextUid'
      BY <1>1, <1>3, ServiceConstants
    <2>3. QED
      BY <1>1, <2>1, <2>2 DEF ServiceIInv, Bookkeeping, Shapes
  <1>5. Undrawn'
    <2>1. \A v \in Uid : v >= nextUid' => v >= nextUid
      BY <1>1, <1>3
    <2>2. QED
      BY <1>1, <2>1 DEF ServiceIInv, Bookkeeping, Undrawn
  <1>6. CallInv' /\ LoadInv' /\ TurnInv'
    BY <1>1, <1>2, <1>3 DEF ServiceIInv, Bookkeeping, CallInv, LoadInv, Accounts, TurnInv
  <1>7. LinkInv'
    <2>1. ASSUME NEW v \in Uid, uuidToMeId[v] # 0 PROVE Linked(v, uuidToMeId[v])'
      <3>1. PICK k : k = uuidToMeId[v]
        OBVIOUS
      <3>2. k \in Placed /\ LinkOf(api[v], terms[v].order, orders[k], filled[k], status[k], Traded(newTrades, k))
        BY <2>1, <3>1, Mapped DEF Linked
      <3>3. LinkOf(api[v], terms[v].order, orders'[k], filled'[k], status'[k], Traded(newTrades', k))
        BY <1>2, <3>2
      <3>4. QED
        BY <1>1, <3>1, <3>3 DEF Linked
    <2>2. QED
      BY <1>1, <1>3, <2>1 DEF LinkInv
  <1>8. StoreInv' /\ FileUncrossed' /\ HomeInv'
    <2>1. StoreInv'
      BY <1>1 DEF ServiceIInv, Bookkeeping, Accounts, StoreInv, IsUserOrder
    <2>2. FileUncrossed' /\ HomeInv'
      BY <1>1 DEF ServiceIInv, Bookkeeping, Accounts, FileUncrossed, HomeInv
    <2>3. QED
      BY <2>1, <2>2
  <1>9. CoverInv'
    BY <1>1, <1>3 DEF ServiceIInv, Bookkeeping, CoverInv
  <1>10. QED
    BY <1>4, <1>5, <1>6, <1>7, <1>8, <1>9 DEF Bookkeeping, Accounts

\* A cancellation ends an order in both records and on file.
LEMMA CancelBooks ==
  ASSUME ServiceIInv, NEW u \in Uid, CancelApi(u)
  PROVE  Bookkeeping'
  <1> DEFINE rec == [filled |-> api[u].filled, status |-> "cancelled"]
  <1>1. /\ mode = "serve" /\ api[u].status \in Live /\ uuidToMeId[u] # 0
        /\ CancelOrder(uuidToMeId[u])
        /\ api' = [api EXCEPT ![u] = rec]
        /\ diskOrders' = IF terms[u].order.trader \in Bots THEN diskOrders ELSE Written(u, rec)
        /\ UNCHANGED <<nextUid, terms, uuidToMeId, pending, apiTrades, owed, diskTrades, mode,
                       reloading, placing, crashes>>
    BY DEF CancelApi
  <1>2. PICK m : m = uuidToMeId[u]
    OBVIOUS
  <1>3. /\ phase = "idle" /\ phase' = phase /\ status' = [status EXCEPT ![m] = "cancelled"]
        /\ UNCHANGED <<nextId, orders, filled, newTrades, trades, taker, seedStep>>
    BY <1>1, <1>2 DEF CancelOrder, Idle, callVars, seedVars
  <1>4. /\ placing = 0 /\ owed = <<>> /\ newTrades = <<>> /\ taker = 0
        /\ \A o : Traded(newTrades, o) = 0 /\ Traded(owed, o) = 0
    BY <1>3, BetweenCalls
  <1>5. /\ m \in Placed /\ m \in Id /\ Linked(u, m) /\ api[u].filled \in Nat
        /\ \A v \in Uid : uuidToMeId[v] = m => v = u
    BY <1>1, <1>2, Mapped
  <1>6. rec.filled = api[u].filled /\ rec.status = "cancelled" /\ rec \in ApiRecord /\ rec # Absent
        /\ rec.status \notin Live
    BY <1>5 DEF ApiRecord, Absent, Live
  <1>7. Sane(rec, terms[u])
    <2>1. Sane(api[u], terms[u])
      BY DEF ServiceIInv, Bookkeeping, Accounts, StoreInv
    <2>2. QED
      BY <1>1, <1>6, <2>1 DEF Sane, Live
  <1> HIDE DEF rec
  <1>8. /\ api' \in [Uid -> ApiRecord] /\ diskOrders' \in [Uid -> ApiRecord]
        /\ api'[u] = rec /\ diskOrders'[u] = IF diskOrders[u] = Absent THEN Absent ELSE rec
        /\ \A v \in Uid : v # u => api'[v] = api[v] /\ diskOrders'[v] = diskOrders[v]
    <2>1. api \in [Uid -> ApiRecord] /\ diskOrders \in [Uid -> ApiRecord]
      BY DEF ServiceIInv, Bookkeeping, Shapes
    <2>2. terms[u].order.trader \in Bots => diskOrders[u] = Absent
      BY DEF ServiceIInv, Bookkeeping, Accounts, StoreInv, Stored, IsUserOrder
    <2>3. diskOrders' = IF diskOrders[u] = Absent THEN diskOrders ELSE [diskOrders EXCEPT ![u] = rec]
      BY <1>1, <2>2 DEF Written
    <2>4. QED
      BY <1>1, <1>6, <2>1, <2>3
  <1>9. Shapes' /\ Undrawn'
    <2>1. Shapes'
      BY <1>1, <1>3, <1>8 DEF ServiceIInv, Bookkeeping, Shapes
    <2>2. ~(u >= nextUid)
      BY <1>1 DEF ServiceIInv, Bookkeeping, Undrawn
    <2>3. Undrawn'
      BY <1>1, <1>8, <2>2 DEF ServiceIInv, Bookkeeping, Undrawn
    <2>4. QED
      BY <2>1, <2>3
  <1>10. CallInv' /\ LoadInv' /\ TurnInv'
    <2>1. CallInv' /\ LoadInv'
      BY <1>1, <1>3, <1>4 DEF ServiceIInv, Bookkeeping, CallInv, LoadInv
    <2>2. reloading = {}
      BY <1>1 DEF ServiceIInv, Bookkeeping, CallInv
    <2>3. TurnInv'
      BY <1>1, <1>3, <2>2 DEF ServiceIInv, Bookkeeping, Accounts, TurnInv
    <2>4. QED
      BY <2>1, <2>3
  <1>11. LinkInv'
    <2>1. ASSUME NEW v \in Uid, uuidToMeId[v] # 0 PROVE Linked(v, uuidToMeId[v])'
      <3>1. PICK k : k = uuidToMeId[v]
        OBVIOUS
      <3>2. k \in Id /\ LinkOf(api[v], terms[v].order, orders[k], filled[k], status[k], Traded(newTrades, k))
        BY <2>1, <3>1, Mapped DEF Linked
      <3>3. LinkOf(api'[v], terms[v].order, orders[k], filled[k], status'[k], Traded(newTrades, k))
        <4>1. status \in [Id -> {"none", "open", "partial", "filled", "cancelled"}]
          BY DEF ServiceIInv, EngineInv, TypeOK
        <4>2. CASE v = u
          <5>1. k = m /\ status'[k] = "cancelled" /\ Traded(newTrades, k) = 0 /\ api'[v] = rec
            BY <1>2, <1>3, <1>4, <1>5, <1>8, <3>1, <4>1, <4>2
          <5>2. QED
            BY <1>6, <3>2, <4>2, <5>1 DEF LinkOf, Live
        <4>3. CASE v # u
          <5>1. k # m
            BY <1>5, <3>1, <4>3
          <5>2. status'[k] = status[k]
            BY <1>3, <3>2, <4>1, <5>1
          <5>3. api'[v] = api[v]
            BY <1>8, <4>3
          <5>4. QED
            BY <3>2, <5>2, <5>3
        <4>4. QED
          BY <4>2, <4>3
      <3>4. QED
        BY <1>1, <1>3, <3>1, <3>3 DEF Linked
    <2>2. QED
      BY <1>1, <1>4, <2>1 DEF LinkInv
  <1>12. StoreInv'
    <2>1. ASSUME NEW v \in Uid
          PROVE  Sane(api'[v], terms[v]) /\ Stored(api'[v], diskOrders'[v], IsUserOrder(v))
      <3>1. Sane(api[v], terms[v]) /\ Stored(api[v], diskOrders[v], IsUserOrder(v))
        BY DEF ServiceIInv, Bookkeeping, Accounts, StoreInv
      <3>2. CASE v # u
        BY <1>8, <3>1, <3>2
      <3>3. CASE v = u
        <4>1. api[v] # Absent
          BY <1>1, <3>3 DEF Live, Absent
        <4>2. QED
          BY <1>6, <1>7, <1>8, <3>1, <3>3, <4>1 DEF Stored
      <3>4. QED
        BY <3>2, <3>3
    <2>2. QED
      BY <1>1, <2>1 DEF StoreInv, IsUserOrder
  <1>13. FileUncrossed' /\ HomeInv'
    <2>1. \A v \in Uid : /\ api'[v].status \in Live => api[v].status \in Live
                         /\ diskOrders'[v].status \in Live => diskOrders[v].status \in Live
      BY <1>6, <1>8 DEF Absent, Live
    <2>2. QED
      BY <1>1, <2>1 DEF ServiceIInv, Bookkeeping, Accounts, FileUncrossed, HomeInv
  <1>14. CoverInv'
    <2>1. ASSUME NEW v \in Uid, diskOrders'[v] # Absent
          PROVE  /\ Traded(diskTrades, v) + Traded(owed, v) <= diskOrders'[v].filled
                 /\ crashes = 0 => Traded(diskTrades, v) + Traded(owed, v) = diskOrders'[v].filled
      <3>1. diskOrders[v] # Absent /\ diskOrders'[v].filled = diskOrders[v].filled
        <4>1. diskOrders[u] # Absent => diskOrders[u] = api[u]
          BY DEF ServiceIInv, Bookkeeping, Accounts, StoreInv, Stored
        <4>2. QED
          BY <1>6, <1>8, <2>1, <4>1
      <3>2. QED
        BY <3>1 DEF ServiceIInv, Bookkeeping, CoverInv
    <2>2. QED
      BY <1>1, <1>4, <2>1 DEF CoverInv
  <1>15. QED
    BY <1>9, <1>10, <1>11, <1>12, <1>13, <1>14 DEF Bookkeeping, Accounts

\* The start goes on to its next part.
LEMMA ModeBooks ==
  ASSUME ServiceIInv, SeedBegins \/ SeedEnds
  PROVE  Bookkeeping'
  <1>1. /\ phase = "idle" /\ mode' \in {"seed", "serve"} /\ mode # "serve"
        /\ mode = "load" => reloading = {} /\ mode' = "seed"
        /\ mode' = "serve" => mode = "seed"
        /\ UNCHANGED <<nextId, orders, filled, status, newTrades, trades, taker, phase>>
        /\ UNCHANGED <<nextUid, terms, api, uuidToMeId, pending, apiTrades, owed, reloading, placing,
                       diskOrders, diskTrades, crashes>>
    BY DEF SeedBegins, SeedEnds, SeedStart, SeedEnd, Idle, callVars, disk
  <1>2. placing = 0 /\ owed = <<>> /\ taker = 0
    BY <1>1, BetweenCalls
  <1>3. reloading = {} /\ pending = 0
    BY <1>1 DEF ServiceIInv, Bookkeeping, CallInv
  <1>4. Shapes' /\ Undrawn' /\ CallInv' /\ LoadInv'
    <2>1. Shapes'
      BY <1>1 DEF ServiceIInv, Bookkeeping, Shapes
    <2>2. Undrawn'
      BY <1>1 DEF ServiceIInv, Bookkeeping, Undrawn
    <2>3. CallInv'
      BY <1>1, <1>2, <1>3 DEF CallInv
    <2>4. LoadInv'
      BY <1>1 DEF LoadInv
    <2>5. QED
      BY <2>1, <2>2, <2>3, <2>4
  <1>5. TurnInv' /\ FileUncrossed' /\ HomeInv'
    <2>1. TurnInv' /\ FileUncrossed'
      BY <1>1, <1>2, <1>3 DEF ServiceIInv, Bookkeeping, Accounts, TurnInv, FileUncrossed
    <2>2. \A u \in Uid : u # placing
      BY <1>2 DEF Uid
    <2>3. HomeInv'
      BY <1>1, <1>3, <2>2 DEF ServiceIInv, Bookkeeping, Accounts, HomeInv
    <2>4. QED
      BY <2>1, <2>3
  <1>6. StoreInv' /\ LinkInv'
    <2>1. StoreInv'
      BY <1>1 DEF ServiceIInv, Bookkeeping, Accounts, StoreInv, IsUserOrder
    <2>2. LinkInv'
      BY <1>1, <1>2 DEF ServiceIInv, Bookkeeping, Accounts, LinkInv, Linked
    <2>3. QED
      BY <2>1, <2>2
  <1>7. CoverInv'
    BY <1>1, <1>2 DEF ServiceIInv, Bookkeeping, CoverInv
  <1>8. QED
    BY <1>4, <1>5, <1>6, <1>7 DEF Bookkeeping, Accounts

\* A crash at any point: what is on file is what is known afterwards, and its open orders
\* are on their way.
LEMMA CrashBooks ==
  ASSUME ServiceIInv, Crash
  PROVE  Bookkeeping'
  <1>1. /\ NewEngine /\ api' = diskOrders /\ uuidToMeId' = [u \in Uid |-> 0]
        /\ pending' = 0 /\ owed' = <<>> /\ placing' = 0 /\ mode' = "load" /\ reloading' = Reloadable
        /\ crashes' = crashes + 1
        /\ UNCHANGED <<nextUid, terms, diskOrders, diskTrades>>
    BY DEF Crash, disk
  <1>2. Placed' = {} /\ newTrades' = <<>> /\ trades' = <<>> /\ phase' = "idle" /\ seedStep' = 0
        /\ taker' = 0 /\ nextId' = 1
    BY <1>1, QuietNew DEF NewEngine
  <1>3. /\ crashes \in Nat /\ nextUid \in Nat /\ nextUid > 0 /\ 0 \in 0..MaxUids
        /\ \A o : Traded(<<>>, o) = 0 /\ Traded(owed, o) \in Nat /\ Traded(diskTrades, o) \in Nat
        /\ diskOrders \in [Uid -> ApiRecord]
    BY ServiceConstants, CountsAreNat DEF ServiceIInv, Bookkeeping, Shapes
  <1>4. \A v \in Uid : diskOrders[v] # Absent => IsUserOrder(v) /\ diskOrders[v] = api[v]
    BY DEF ServiceIInv, Bookkeeping, Accounts, StoreInv, Stored
  <1>5. Reloadable \subseteq Uid /\ \A v \in Uid : v \in Reloadable <=> diskOrders[v].status \in Live
    <2>1. ASSUME NEW v \in Uid, diskOrders[v].status \in Live PROVE Remainder(v) > 0
      <3>1. diskOrders[v] = api[v]
        BY <1>4, <2>1 DEF Absent, Live
      <3>2. /\ api[v].filled \in Nat /\ terms[v].order.quantity \in Nat
            /\ api[v].filled < terms[v].order.quantity
        BY <2>1, <3>1, Recorded
      <3>3. QED
        BY <3>1, <3>2 DEF Remainder
    <2>2. QED
      BY <2>1 DEF Reloadable
  <1>6. Shapes'
    <2>1. uuidToMeId' \in [Uid -> 0..(nextId' - 1)]
      BY <1>1, <1>2
    <2>2. QED
      BY <1>1, <1>3, <1>5, <2>1 DEF ServiceIInv, Bookkeeping, Shapes
  <1>7. Undrawn'
    BY <1>1, <1>3 DEF ServiceIInv, Bookkeeping, Undrawn
  <1>8. CallInv' /\ LoadInv'
    BY <1>1, <1>2 DEF CallInv, LoadInv
  <1>9. TurnInv'
    BY <1>1, <1>5 DEF TurnInv, Uid
  <1>10. LinkInv' /\ HomeInv'
    BY <1>1, <1>5 DEF LinkInv, HomeInv
  <1>11. StoreInv'
    <2>1. ASSUME NEW v \in Uid
          PROVE  Sane(diskOrders[v], terms[v]) /\ Stored(diskOrders[v], diskOrders[v], IsUserOrder(v))
      <3>1. Sane(api[v], terms[v])
        BY DEF ServiceIInv, Bookkeeping, Accounts, StoreInv
      <3>2. Sane(Absent, terms[v])
        BY DEF Sane, Absent, Live
      <3>3. QED
        BY <1>4, <3>1, <3>2 DEF Stored
    <2>2. QED
      BY <1>1, <2>1 DEF StoreInv, IsUserOrder
  <1>12. FileUncrossed'
    BY <1>1 DEF ServiceIInv, Bookkeeping, Accounts, FileUncrossed
  <1>13. CoverInv'
    <2>1. ASSUME NEW v \in Uid, diskOrders[v] # Absent
          PROVE  Traded(diskTrades, v) + Traded(<<>>, v) <= diskOrders[v].filled
      <3>1. Traded(diskTrades, v) + Traded(owed, v) <= diskOrders[v].filled /\ diskOrders[v].filled \in Nat
        BY <1>3, <2>1 DEF ServiceIInv, Bookkeeping, CoverInv, ApiRecord
      <3>2. Traded(<<>>, v) = 0 /\ Traded(owed, v) \in Nat /\ Traded(diskTrades, v) \in Nat
        BY <1>3
      <3>3. QED
        BY <3>1, <3>2
    <2>2. crashes' # 0
      BY <1>1, <1>3
    <2>3. QED
      BY <1>1, <2>1, <2>2 DEF CoverInv
  <1>14. QED
    BY <1>6, <1>7, <1>8, <1>9, <1>10, <1>11, <1>12, <1>13 DEF Bookkeeping, Accounts

-----------------------------------------------------------------------------
\* A new engine satisfies what an engine does.
LEMMA NewInv == NewEngine => EngineInv'
  <1>1. NewEngine => Init'
    BY DEF NewEngine, Init
  <1>2. Init' => EngineInv'
    BY InitInv, PTL
  <1>3. QED
    BY <1>1, <1>2

\* A step that leaves the orders of the engine alone, but may drop dead ones from the book.
LEMMA QuietMove ==
  ASSUME ServiceIInv, EnterLevel \/ EndSweep \/ CloseLevel \/ (\E m \in Id : SkipMaker(m))
  PROVE  /\ Quiet' /\ UNCHANGED <<nextId, orders, filled, status, newTrades, trades, taker, seedStep>>
         /\ phase \in {"sweep", "level"} /\ phase' \in {"sweep", "level", "emit"}
  <1>1. /\ UNCHANGED <<nextId, orders, filled, status, newTrades, trades, taker, seedStep, stopOrders, stamp>>
        /\ phase \in {"sweep", "level"} /\ phase' \in {"sweep", "level", "emit"}
        /\ book' \subseteq book /\ \A o \in book : o \in book' \/ ~IsLive(o)
    BY DEF EnterLevel, EndSweep, CloseLevel, SkipMaker, bookVars, seedVars
  <1>2. Quiet
    BY DEF ServiceIInv
  <1>3. \A o \in Placed : status'[o] \in Live /\ o # taker => IsLive(o) /\ (o \in book => o \in book')
    BY <1>1 DEF IsLive
  <1>4. QED
    BY <1>1, <1>2, <1>3, QuietKeeps

\* Every step of the service keeps the invariant of the engine, also one that was reloaded
\* and then seeded.
LEMMA EngineKept == ServiceIInv /\ [ServiceNext]_<<vars, serviceVars>> => EngineInv'
  <1> SUFFICES ASSUME ServiceIInv, [ServiceNext]_<<vars, serviceVars>> PROVE EngineInv'
    OBVIOUS
  <1>1. ASSUME [Next]_vars PROVE EngineInv'
    BY <1>1, StepInv DEF ServiceIInv
  <1>2. CASE Work /\ ~ReloadNext
    <2>1. CASE EngineStep \/ OnTrade \/ SaveTrade \/ Returned
      BY <1>1, <2>1 DEF EngineStep, OnTrade, SaveTrade, Returned, Next, MatchStep
    <2>2. CASE SeedBegins \/ SeedGoesOn \/ SeedEnds
      BY <1>1, <2>2 DEF SeedBegins, SeedGoesOn, SeedEnds, Next, SeedStep, Call
    <2>3. QED
      BY <1>2, <2>1, <2>2 DEF Work
  <1>3. CASE UserRequest
    <2>1. ASSUME NEW r \in Requests, NEW p2p \in BOOLEAN, Place(r, p2p) PROVE EngineInv'
      BY <1>1, <2>1 DEF Place, Next, Call
    <2>2. ASSUME NEW r \in Requests, PlaceThrows(r) PROVE EngineInv'
      BY <1>1, <2>2 DEF PlaceThrows, Next, Call
    <2>3. ASSUME NEW u \in Uid, CancelApi(u) PROVE EngineInv'
      <3>1. uuidToMeId[u] # 0 /\ CancelOrder(uuidToMeId[u])
        BY <2>3 DEF CancelApi
      <3>2. uuidToMeId[u] \in Id
        BY <3>1, Mapped
      <3>3. QED
        BY <1>1, <3>1, <3>2 DEF Next, Call
    <2>4. QED
      BY <1>3, <2>1, <2>2, <2>3 DEF UserRequest
  <1>4. CASE ReloadNext
    <2>1. PICK u : u = NextToReload
      OBVIOUS
    <2>2. PICK r : r = ReloadRequest(u)
      OBVIOUS
    <2>3. /\ r \in Request /\ r.type # "stop-limit" /\ StartMatch(r) /\ phase = "idle"
          /\ seedStep' = seedStep /\ seedMid' = seedMid
      BY <1>4, <2>1, <2>2, ReloadFacts
    <2>4. /\ seedStep' \in 0..(2 * SeedLevels + 1) /\ seedMid' \in SeedMids \cup {0}
          /\ seedStep' = 0 <=> seedMid' = 0
      BY <2>3 DEF ServiceIInv, EngineInv, TypeOK
    <2>5. QED
      BY <2>3, <2>4, StartMatchInv DEF ServiceIInv
  <1>5. CASE Crash
    BY <1>5, NewInv DEF Crash
  <1>6. CASE UNCHANGED <<vars, serviceVars>>
    BY <1>1, <1>6
  <1>7. QED
    BY <1>2, <1>3, <1>4, <1>5, <1>6 DEF ServiceNext

\* Every step of the service keeps the engine free of parked orders.
LEMMA QuietKept == ServiceIInv /\ [ServiceNext]_<<vars, serviceVars>> => Quiet'
  <1> SUFFICES ASSUME ServiceIInv, [ServiceNext]_<<vars, serviceVars>> PROVE Quiet'
    OBVIOUS
  <1>0. Quiet /\ EngineInv
    BY DEF ServiceIInv
  <1>1. CASE EngineStep
    <2>1. ASSUME NEW m \in Id, Fill(m) PROVE Quiet'
      BY <1>0, <2>1, QuietFill
    <2>2. QED
      BY <1>1, <2>1, QuietMove DEF EngineStep
  <1>2. CASE OnTrade
    BY <1>0, <1>2, QuietEmit DEF OnTrade
  <1>3. CASE Returned
    BY <1>0, <1>3, QuietReturn DEF Returned
  <1>4. ASSUME UNCHANGED <<nextId, orders, stopOrders, stamp, newTrades, book, phase, taker, status>>
        PROVE  Quiet'
    BY <1>0, <1>4, QuietKeeps DEF IsLive
  <1>5. CASE SaveTrade \/ SeedBegins \/ SeedEnds \/ UNCHANGED <<vars, serviceVars>>
    <2>1. UNCHANGED <<nextId, orders, stopOrders, stamp, newTrades, book, phase, taker, status>>
      BY <1>5 DEF SaveTrade, SeedBegins, SeedEnds, SeedStart, SeedEnd, vars, bookVars, callVars
    <2>2. QED
      BY <1>4, <2>1
  <1>6. CASE SeedGoesOn
    <2>1. PICK q \in Quantities : SeedPlace(q)
      BY <1>6 DEF SeedGoesOn
    <2>2. PICK r : r = SeedRequest(seedStep, q)
      OBVIOUS
    <2>3. StartMatch(r) /\ phase = "idle" /\ seedStep \in 1..(2 * SeedLevels)
      BY <2>1, <2>2 DEF SeedPlace
    <2>4. seedMid \in SeedMids
      BY <1>0, <2>3, Constants DEF EngineInv, TypeOK
    <2>5. r \in Request /\ r.stopPrice = 0
      <3>1. r \in Request
        BY <1>0, <2>2, <2>3, <2>4, SeedRequestType DEF EngineInv
      <3>2. QED
        BY <2>2, <3>1 DEF SeedRequest
    <2>6. QED
      BY <1>0, <2>3, <2>5, QuietStart
  <1>7. CASE ReloadNext
    <2>1. PICK u : u = NextToReload
      OBVIOUS
    <2>2. PICK r : r = ReloadRequest(u)
      OBVIOUS
    <2>3. r \in Request /\ r.stopPrice = 0 /\ StartMatch(r) /\ phase = "idle"
      BY <1>7, <2>1, <2>2, ReloadFacts
    <2>4. QED
      BY <1>0, <2>3, QuietStart
  <1>8. ASSUME NEW r \in Requests, NEW p2p \in BOOLEAN, Place(r, p2p) PROVE Quiet'
    <2>1. r \in Request /\ r.stopPrice = 0 /\ StartMatch(r) /\ phase = "idle"
      BY <1>8, ServiceConstants DEF Place, PlaceOrder, Idle
    <2>2. QED
      BY <1>0, <2>1, QuietStart
  <1>9. ASSUME NEW r \in Requests, PlaceThrows(r) PROVE Quiet'
    BY <1>0, <1>9, ServiceConstants, QuietThrow DEF PlaceThrows
  <1>10. ASSUME NEW u \in Uid, CancelApi(u) PROVE Quiet'
    <2>1. PICK m : m = uuidToMeId[u]
      OBVIOUS
    <2>2. /\ m # 0 /\ status' = [status EXCEPT ![m] = "cancelled"] /\ book' = book \ {m}
          /\ UNCHANGED <<nextId, orders, stopOrders, stamp, newTrades, phase, taker>>
      BY <1>10, <2>1 DEF CancelApi, CancelOrder, callVars
    <2>3. m \in Id /\ Placed \subseteq Id
      BY <1>10, <2>1, <2>2, Mapped, BookOrders, <1>0 DEF EngineInv, Placed
    <2>4. status \in [Id -> {"none", "open", "partial", "filled", "cancelled"}]
      BY <1>0 DEF EngineInv, TypeOK
    <2>5. \A o \in Placed : status'[o] \in Live /\ o # taker => IsLive(o) /\ (o \in book => o \in book')
      <3>1. \A o \in Placed : o # m => status'[o] = status[o]
        BY <2>2, <2>3, <2>4
      <3>2. status'[m] \notin Live
        BY <2>2, <2>3, <2>4 DEF Live
      <3>3. QED
        BY <2>2, <3>1, <3>2 DEF IsLive
    <2>6. QED
      BY <1>0, <2>2, <2>5, QuietKeeps
  <1>11. CASE Crash
    BY <1>11, QuietNew DEF Crash
  <1>12. QED
    BY <1>1, <1>2, <1>3, <1>5, <1>6, <1>7, <1>8, <1>9, <1>10, <1>11
       DEF ServiceNext, Work, UserRequest

\* Every step keeps the books.
LEMMA BooksKept == ServiceIInv /\ [ServiceNext]_<<vars, serviceVars>> => Bookkeeping'
  <1> SUFFICES ASSUME ServiceIInv, [ServiceNext]_<<vars, serviceVars>> PROVE Bookkeeping'
    OBVIOUS
  <1>1. CASE EngineStep
    <2>1. ASSUME NEW m \in Id, Fill(m) PROVE Bookkeeping'
      BY <1>1, <2>1, FillBooks DEF EngineStep
    <2>2. CASE EnterLevel \/ EndSweep \/ CloseLevel \/ \E m \in Id : SkipMaker(m)
      <3>1. /\ UNCHANGED <<nextId, orders, filled, status, newTrades, trades, taker>>
            /\ seedStep' = seedStep /\ UNCHANGED serviceVars
            /\ phase' = "idle" <=> phase = "idle" /\ phase # "emit"
        BY <1>1, <2>2, QuietMove DEF EngineStep
      <3>2. mode = "load" => seedStep' = 0
        BY <3>1 DEF ServiceIInv, Bookkeeping, CallInv
      <3>3. phase' = "idle" <=> phase = "idle"
        BY <2>2, QuietMove
      <3>4. phase = "emit" => phase' = "emit"
        BY <2>2, QuietMove
      <3>5. QED
        BY <3>1, <3>2, <3>3, <3>4, Calm
    <2>3. QED
      BY <1>1, <2>1, <2>2 DEF EngineStep
  <1>2. CASE UNCHANGED <<vars, serviceVars>>
    <2>1. /\ UNCHANGED serviceVars
          /\ UNCHANGED <<nextId, orders, filled, status, newTrades, trades, taker>>
          /\ UNCHANGED <<phase, seedStep>>
      BY <1>2 DEF vars, callVars, seedVars
    <2>2. mode = "load" => seedStep' = 0
      BY <2>1 DEF ServiceIInv, Bookkeeping, CallInv
    <2>3. QED
      BY <2>1, <2>2, Calm
  <1>3. CASE OnTrade \/ SaveTrade \/ Returned
    BY <1>3, OnTradeBooks, SaveTradeBooks, ReturnedBooks, EngineKept
  <1>4. CASE ReloadNext \/ SeedBegins \/ SeedGoesOn \/ SeedEnds
    BY <1>4, ReloadBooks, ModeBooks, SeedBooks
  <1>5. CASE UserRequest \/ Crash
    BY <1>5, PlaceBooks, ThrowBooks, CancelBooks, CrashBooks DEF UserRequest
  <1>6. QED
    BY <1>1, <1>2, <1>3, <1>4, <1>5 DEF ServiceNext, Work

\* The first start.
LEMMA ServiceBegins == ServiceInit => ServiceIInv
  <1> SUFFICES ASSUME ServiceInit PROVE ServiceIInv
    OBVIOUS
  <1>1. EngineInv
    BY InitInv DEF ServiceInit
  <1>2. /\ nextId = 1 /\ Placed = {} /\ newTrades = <<>> /\ trades = <<>> /\ phase = "idle" /\ taker = 0
        /\ stopOrders = {} /\ book = {} /\ seedStep = 0
    BY DEF ServiceInit, Init, Placed
  <1>3. Quiet
    BY <1>2 DEF Quiet
  <1>4. /\ nextUid = 1 /\ terms = [u \in Uid |-> NoTerms]
        /\ diskOrders = [u \in Uid |-> Absent] /\ diskTrades = <<>> /\ api = [u \in Uid |-> Absent]
        /\ uuidToMeId = [u \in Uid |-> 0] /\ pending = 0 /\ owed = <<>> /\ placing = 0
        /\ mode = "load" /\ reloading = {} /\ crashes = 0
    BY DEF ServiceInit
  <1>5. Shapes
    <2>1. Absent \in ApiRecord /\ NoTerms \in [order: Request \cup {NoOrder}, p2pOrigin: BOOLEAN]
      BY DEF Absent, ApiRecord, NoTerms
    <2>2. /\ 1 \in 1..(MaxUids + 1) /\ 0 \in 0..MaxUids /\ 0 < 1 /\ 0 \in 0..(nextId - 1)
      BY <1>2, ServiceConstants
    <2>3. <<>> \in Seq(ApiTrade)
      OBVIOUS
    <2>4. QED
      BY <1>4, <2>1, <2>2, <2>3 DEF Shapes
  <1>6. Undrawn
    BY <1>4, <1>5, CountsAreNat DEF Undrawn
  <1>7. CallInv /\ LoadInv
    BY <1>2, <1>4 DEF CallInv, LoadInv
  <1>8. Accounts
    <2>1. TurnInv /\ LinkInv
      BY <1>4 DEF TurnInv, LinkInv
    <2>2. StoreInv
      BY <1>4 DEF StoreInv, Sane, Stored, Absent, Live
    <2>3. FileUncrossed /\ HomeInv
      BY <1>4 DEF FileUncrossed, HomeInv, Absent, Live
    <2>4. QED
      BY <2>1, <2>2, <2>3 DEF Accounts
  <1>9. CoverInv
    BY <1>4 DEF CoverInv
  <1>10. QED
    BY <1>1, <1>3, <1>5, <1>6, <1>7, <1>8, <1>9 DEF ServiceIInv, Bookkeeping

\* The inductive invariant of the service.
THEOREM ServiceInvariance == ServiceSpec => []ServiceIInv
  <1>1. ServiceIInv /\ [ServiceNext]_<<vars, serviceVars>> => ServiceIInv'
    BY EngineKept, QuietKept, BooksKept DEF ServiceIInv
  <1>2. QED
    BY <1>1, ServiceBegins, PTL DEF ServiceSpec

-----------------------------------------------------------------------------
\* The two records agree, orders keep their turn, and a reload trades nothing.
LEMMA ServiceParts == ServiceIInv => ServiceInv
  <1> SUFFICES ASSUME ServiceIInv PROVE ServiceInv
    OBVIOUS
  <1>1. ServiceTypeOK
    <2>1. \A u \in Uid : terms[u] # NoTerms => u < nextUid
      <3>1. \A u \in Uid : u \in Nat /\ nextUid \in Nat
        BY DEF ServiceIInv, Bookkeeping, Shapes, Uid
      <3>2. QED
        BY <3>1 DEF ServiceIInv, Bookkeeping, Undrawn
    <2>2. \A u, v \in Uid : uuidToMeId[u] = uuidToMeId[v] => u = v \/ uuidToMeId[u] = 0
      BY Mapped
    <2>3. uuidToMeId \in [Uid -> {0} \cup 1..(nextId - 1)]
      <3>1. \A u \in Uid : uuidToMeId[u] \in {0} \cup 1..(nextId - 1)
        BY Mapped DEF Placed
      <3>2. QED
        BY <3>1 DEF ServiceIInv, Bookkeeping, Shapes
    <2>4. Len(owed) <= 1
      <3>1. CASE owed = <<>>
        BY <3>1
      <3>2. CASE owed # <<>>
        <4>1. PICK x \in ApiTrade : owed = <<x>>
          BY <3>2 DEF ServiceIInv, Bookkeeping, Shapes
        <4>2. QED
          BY <4>1
      <3>3. QED
        BY <3>1, <3>2
    <2>5. {api, diskOrders} \subseteq [Uid -> [filled: Nat, status: Live \cup {"filled", "cancelled", "absent"}]]
      BY DEF ServiceIInv, Bookkeeping, Shapes, ApiRecord
    <2>6. EngineInv /\ (placing # 0 => phase # "idle") /\ mode \in {"load", "seed", "serve"}
          /\ nextUid \in 1..(MaxUids + 1)
      BY DEF ServiceIInv, Bookkeeping, Shapes, CallInv
    <2>7. QED
      BY <2>1, <2>2, <2>3, <2>4, <2>5, <2>6 DEF ServiceTypeOK
  <1>2. RemaindersAgree
    <2> SUFFICES ASSUME AtRest PROVE RemaindersAgree
      BY DEF RemaindersAgree
    <2>1. newTrades = <<>>
      BY DEF AtRest, ServiceIInv, Quiet
    <2>2. \A u \in Uid : uuidToMeId[u] # 0 =>
            /\ api[u].status \in Live <=> IsLive(uuidToMeId[u])
            /\ Remaining(uuidToMeId[u]) = terms[u].order.quantity - api[u].filled
      BY <2>1, RecordsAgree
    <2>3. mode # "load" => \A u \in Uid : api[u].status \in Live => uuidToMeId[u] # 0
      BY DEF ServiceIInv, Bookkeeping, Accounts, HomeInv
    <2>4. QED
      BY <2>2, <2>3 DEF RemaindersAgree
  <1>3. TurnsKept
    <2> SUFFICES ASSUME NEW u \in Uid, NEW v \in Uid, NEW m, NEW n, m = uuidToMeId[u], n = uuidToMeId[v],
                        u < v, m \in book, n \in book
                 PROVE  Before(m, n)
      BY DEF TurnsKept
    <2>1. m # 0 /\ n # 0
      BY DEF ServiceIInv, EngineInv, TypeOK
    <2>2. m < n
      BY <2>1 DEF ServiceIInv, Bookkeeping, Accounts, TurnInv
    <2>3. QED
      BY <2>2 DEF ServiceIInv, Quiet, Before
  <1>4. NoTradeOnReload
    BY DEF ServiceIInv, Bookkeeping, LoadInv, NoTradeOnReload
  <1>5. QED
    BY <1>1, <1>2, <1>3, <1>4 DEF ServiceInv

\* Over any number of restarts, wherever the process died, the service and the engine know
\* the same orders with the same remainders and in the same turn, and placing the orders of
\* the file again trades nothing (placeOrder, cancelOrder, _reloadFromDb).
THEOREM ServiceAndEngineAgree == ServiceSpec => []ServiceInv
  <1>1. QED
    BY ServiceInvariance, ServiceParts, PTL

\* What was told of a user's order is on file, also in the middle of a call.
LEMMA StoredParts == ServiceIInv => ToldIsStored
  <1> SUFFICES ASSUME ServiceIInv PROVE ToldIsStored
    OBVIOUS
  <1>1. \A u \in Uid : Stored(api[u], diskOrders[u], IsUserOrder(u))
    BY DEF ServiceIInv, Bookkeeping, Accounts, StoreInv
  <1>2. \A u \in Uid : diskOrders[u] # Absent => api[u] = diskOrders[u]
    BY <1>1 DEF Stored
  <1>3. \A u \in Uid : api[u] # Absent /\ IsUserOrder(u) => diskOrders[u] # Absent
    BY <1>1 DEF Stored
  <1>4. \A u \in Uid : api[u].status \in Live \cup {"filled", "cancelled"} => api[u] # Absent
    BY DEF Absent, Live
  <1>5. QED
    BY <1>2, <1>3, <1>4 DEF ToldIsStored, getTraderOrders

\* What a user was told of an order is what the file says at any moment, so a restart takes
\* nothing back (the callback of a trade, placeOrder, cancelOrder, loadAllOrders).
THEOREM NothingIsTakenBack == ServiceSpec => []ToldIsStored
  <1>1. QED
    BY ServiceInvariance, StoredParts, PTL

\* The trades on file never exceed the fills on file, and are the same without a crash.
LEMMA CoverParts == ServiceIInv => FillsCoverTrades
  <1> SUFFICES ASSUME ServiceIInv, NEW u \in Uid, diskOrders[u] # Absent
               PROVE  /\ StoredTrades(u) <= diskOrders[u].filled
                      /\ diskOrders[u].filled <= terms[u].order.quantity
                      /\ crashes = 0 /\ AtRest => StoredTrades(u) = diskOrders[u].filled
    BY DEF FillsCoverTrades
  <1>1. /\ Traded(diskTrades, u) + Traded(owed, u) <= diskOrders[u].filled
        /\ crashes = 0 => Traded(diskTrades, u) + Traded(owed, u) = diskOrders[u].filled
    BY DEF ServiceIInv, Bookkeeping, CoverInv
  <1>2. Traded(diskTrades, u) \in Nat /\ Traded(owed, u) \in Nat /\ Traded(<<>>, u) = 0
    BY CountsAreNat DEF ServiceIInv, Bookkeeping
  <1>3. Sane(api[u], terms[u]) /\ diskOrders[u] = api[u] /\ diskOrders[u].filled \in Nat
    BY DEF ServiceIInv, Bookkeeping, Accounts, StoreInv, Stored, Shapes, ApiRecord
  <1>4. diskOrders[u].filled <= terms[u].order.quantity
    BY <1>3 DEF Sane, Absent
  <1>5. AtRest => owed = <<>>
    BY DEF AtRest
  <1>6. QED
    BY <1>1, <1>2, <1>3, <1>4, <1>5 DEF StoredTrades

\* The trades on file of an order never add up to more than its fill on file, wherever the
\* process died, nor its fill to more than its quantity (saveTrade, updateOrderInDb).
THEOREM TradesAreCovered == ServiceSpec => []FillsCoverTrades
  <1>1. QED
    BY ServiceInvariance, CoverParts, PTL

\* A trade that is told fills an order that is live in memory.
LEMMA ToldIsLive ==
  ASSUME ServiceIInv, OnTrade, NEW v \in Uid, api[v].status \notin Live
  PROVE  api'[v] = api[v]
  <1>1. PICK t, u : t = Head(newTrades) /\ u = IF mode = "load" THEN 0 ELSE MeIdToUuid(t.maker)
    OBVIOUS
  <1>2. /\ newTrades # <<>>
        /\ u = 0 => api' = api
        /\ u # 0 => api' = [api EXCEPT ![u] = Filled(u, t.quantity)] /\ u = MeIdToUuid(t.maker)
    BY <1>1 DEF OnTrade, EmitTrade
  <1>3. CASE v # u
    BY <1>2, <1>3 DEF ServiceIInv, Bookkeeping, Shapes
  <1>4. CASE v = u
    <2>1. u # 0 /\ u = MeIdToUuid(t.maker)
      BY <1>2, <1>4 DEF Uid
    <2>2. u \in Uid /\ uuidToMeId[u] = t.maker
      BY <2>1 DEF MeIdToUuid
    <2>3. newTrades \in Seq(TradeRecord)
      BY DEF ServiceIInv, EngineInv, TypeOK
    <2>4. t \in TradeRecord /\ Tail(newTrades) \in Seq(TradeRecord) /\ newTrades = <<t>> \o Tail(newTrades)
      BY <1>1, <1>2, <2>3
    <2>5. t.maker # 0 /\ t.quantity \in Nat \ {0}
      BY <2>4 DEF TradeRecord, Id
    <2>6. Traded(newTrades, t.maker) # 0
      <3>1. /\ Traded(<<t>> \o Tail(newTrades), t.maker) = Traded(Tail(newTrades), t.maker) + Share(t, t.maker)
            /\ Traded(Tail(newTrades), t.maker) \in Nat
        BY <2>4, TradedMore
      <3>2. Share(t, t.maker) = t.quantity
        BY DEF Share
      <3>3. Traded(newTrades, t.maker) = Traded(<<t>> \o Tail(newTrades), t.maker)
        <4>1. newTrades = <<t>> \o Tail(newTrades)
          BY <2>4
        <4>2. QED
          BY Zenon, <4>1
      <3>4. QED
        BY <2>5, <3>1, <3>2, <3>3
    <2>7. Linked(u, t.maker)
      BY <2>2, <2>5, Mapped
    <2>8. FALSE
      BY <1>4, <2>6, <2>7 DEF Linked, LinkOf
    <2>9. QED
      BY <2>8
  <1>5. QED
    BY <1>3, <1>4

\* A record that is final stays, if it is a user's or the process does not die.
LEMMA FinalStays ==
  ASSUME ServiceIInv, ServiceNext, NEW u \in Uid, api[u].status \in {"filled", "cancelled"},
         IsUserOrder(u) \/ crashes' = crashes
  PROVE  api'[u] = api[u] /\ terms'[u] = terms[u]
  <1>1. api[u].status \notin Live /\ api[u] # Absent /\ api[u].status # "absent"
    BY DEF Live, Absent
  <1>2. /\ api \in [Uid -> ApiRecord] /\ crashes \in Nat
        /\ nextUid \in Nat /\ (u >= nextUid => api[u] = Absent)
        /\ terms \in [Uid -> [order: Request \cup {NoOrder}, p2pOrigin: BOOLEAN]]
    BY DEF ServiceIInv, Bookkeeping, Shapes, Undrawn
  <1>3. CASE OnTrade
    <2>1. terms' = terms
      BY <1>3 DEF OnTrade
    <2>2. QED
      BY <1>1, <1>3, <2>1, ToldIsLive
  <1>4. CASE Returned
    <2>1. /\ api' = IF mode = "serve" THEN [api EXCEPT ![placing] = [filled |-> filled[taker], status |-> status'[taker]]]
                    ELSE api
          /\ terms' = terms /\ phase # "idle"
      BY <1>4 DEF Returned, RestRemainder, CloseMarket, FinishFilled, Return
    <2>2. mode = "serve" => u # placing
      BY <1>1, <2>1 DEF ServiceIInv, Bookkeeping, CallInv
    <2>3. QED
      BY <1>2, <2>1, <2>2
  <1>5. CASE EngineStep \/ SaveTrade \/ ReloadNext \/ SeedBegins \/ SeedGoesOn \/ SeedEnds
    BY <1>5 DEF EngineStep, SaveTrade, ReloadNext, SeedBegins, SeedGoesOn, SeedEnds, serviceVars, memory
  <1>6. ASSUME NEW r \in Requests, NEW p2p \in BOOLEAN, Place(r, p2p)
        PROVE  api'[u] = api[u] /\ terms'[u] = terms[u]
    <2>1. u # nextUid
      BY <1>1, <1>2
    <2>2. QED
      BY <1>2, <1>6, <2>1 DEF Place
  <1>7. ASSUME NEW r \in Requests, PlaceThrows(r) PROVE api'[u] = api[u] /\ terms'[u] = terms[u]
    BY <1>7 DEF PlaceThrows
  <1>8. ASSUME NEW v \in Uid, CancelApi(v) PROVE api'[u] = api[u] /\ terms'[u] = terms[u]
    <2>1. v # u /\ terms' = terms /\ api' = [api EXCEPT ![v] = [filled |-> api[v].filled, status |-> "cancelled"]]
      BY <1>1, <1>8 DEF CancelApi
    <2>2. QED
      BY <1>2, <2>1
  <1>9. CASE Crash
    <2>1. api' = diskOrders /\ terms' = terms /\ crashes' = crashes + 1
      BY <1>9 DEF Crash
    <2>2. IsUserOrder(u)
      BY <1>2, <2>1
    <2>3. diskOrders[u] = api[u]
      BY <1>1, <2>2 DEF ServiceIInv, Bookkeeping, Accounts, StoreInv, Stored
    <2>4. QED
      BY <2>1, <2>3
  <1>10. QED
    BY <1>3, <1>4, <1>5, <1>6, <1>7, <1>8, <1>9 DEF ServiceNext, Work, UserRequest

\* What HistoryIsFinal says of a step.
HistoryStays ==
  \A t \in Traders : \A u \in History(t) :
    IsUserOrder(u) \/ crashes' = crashes => u \in History(t)' /\ api'[u] = api[u]

\* What is in the history stays as it is.
LEMMA StepHistory == ServiceIInv /\ [ServiceNext]_<<vars, serviceVars>> => [HistoryStays]_<<vars, serviceVars>>
  <1> SUFFICES ASSUME ServiceIInv, ServiceNext, NEW t \in Traders, NEW u \in History(t),
                      IsUserOrder(u) \/ crashes' = crashes
               PROVE  u \in History(t)' /\ api'[u] = api[u]
    BY DEF HistoryStays
  <1>1. u \in Uid /\ api[u].status \in {"filled", "cancelled"} /\ terms[u].order.trader = t
    BY DEF History, getTraderOrders
  <1>2. api'[u] = api[u] /\ terms'[u] = terms[u]
    BY <1>1, FinalStays
  <1>3. QED
    BY <1>1, <1>2 DEF History, getTraderOrders

\* The history of a user is final over any number of restarts (getTraderOrders,
\* GET /orders/history).
THEOREM HistoryKept == ServiceSpec => HistoryIsFinal
  <1>1. QED
    BY ServiceInvariance, StepHistory, PTL DEF ServiceSpec, HistoryIsFinal, HistoryStays
=============================================================================
