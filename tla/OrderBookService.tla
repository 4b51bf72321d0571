-------------------------- MODULE OrderBookService --------------------------
(***************************************************************************)
(* The order service of the API and its store: packages/api                *)
(* src/services/orderbook.service.ts and src/db/sqlite.ts, around the      *)
(* matching engine.                                                        *)
(*                                                                         *)
(* The service keeps its own record of every order, under an id of its     *)
(* own, and writes the orders of users to a file.  The engine runs a call  *)
(* to completion, but every file write is durable at once: the process may *)
(* crash between two writes of one call.  At start the open orders of the  *)
(* file are placed again, then the simulation seeds the book, then         *)
(* requests are served.                                                    *)
(*                                                                         *)
(* An API id is a number drawn in increasing order, so the insertion order *)
(* of the store is the order of the ids.  A file is written through a      *)
(* temporary file and a rename, so a write happens as a whole.             *)
(***************************************************************************)
EXTENDS MatchingEngine

CONSTANTS
  Bots,        \* traders whose orders are never written: 'bot'
  MaxUids,     \* bound: orders placed with the service in one run
  MaxCrashes   \* bound: crashes

Uid == 1..MaxUids

ASSUME ServiceAssumption ==
  /\ Bots \subseteq Traders \ {MarketMaker}
  /\ \A r \in Requests : r.trader # MarketMaker
  /\ SeedMids # {}
  /\ MaxUids \in Nat /\ MaxCrashes \in Nat
  /\ \A q \in Quantities : 1..q \subseteq Quantities  \* what is left of an order is a size
  /\ MaxOrders = MaxUids + 2 * SeedLevels  \* a restart never lacks engine ids

VARIABLES
  nextUid,     \* the next API id that is drawn
  terms,       \* the request of every order, with its origin
  api,         \* apiOrders: filled and status by id
  uuidToMeId,  \* uuidToMeId, 0 when the id has no entry; meIdToUuid is its inverse
  pending,     \* pendingTakerUuid, 0 for null
  apiTrades,   \* apiTrades
  owed,        \* the trade of the running callback that is not yet recorded
  diskOrders,  \* orders.json
  diskTrades,  \* trades.json
  mode,        \* "load", then "seed", then "serve"
  reloading,   \* ids still to be placed by _reloadFromDb
  placing,     \* the id the running call of the engine is for, 0 for the seed
  crashes      \* crashes so far

memory == <<api, uuidToMeId, pending, apiTrades, owed, mode, reloading, placing>>
disk == <<diskOrders, diskTrades>>
serviceVars == <<nextUid, terms, memory, disk, crashes>>

Absent == [filled |-> 0, status |-> "absent"]
NoTerms == [order |-> NoOrder, p2pOrigin |-> FALSE]

\* The first start, with no files.
ServiceInit ==
  /\ Init
  /\ nextUid = 1 /\ terms = [u \in Uid |-> NoTerms]
  /\ diskOrders = [u \in Uid |-> Absent] /\ diskTrades = <<>>
  /\ api = [u \in Uid |-> Absent] /\ apiTrades = <<>>
  /\ uuidToMeId = [u \in Uid |-> 0]
  /\ pending = 0 /\ owed = <<>> /\ placing = 0
  /\ mode = "load" /\ reloading = {}
  /\ crashes = 0

-----------------------------------------------------------------------------
\* meIdToUuid: the API id of an engine order, 0 when there is none.
MeIdToUuid(m) == IF \E u \in Uid : uuidToMeId[u] = m
                 THEN CHOOSE u \in Uid : uuidToMeId[u] = m ELSE 0

\* Is an order written to the store when it is placed?
IsUserOrder(u) == terms[u].order.trader \notin Bots /\ ~terms[u].p2pOrigin

\* Does a trade involve somebody other than a bot, so that it is written?
IsBot(u) == u = 0 \/ terms[u].order.trader \in Bots
\* Mutant of ConcernsUser: both must be users.
ConcernsUsersOnly(t) == ~IsBot(t.maker) /\ ~IsBot(t.taker)
ConcernsUser(t) == ~IsBot(t.maker) \/ ~IsBot(t.taker)

\* Mutants of Written: a fill is not written before the order is final; a
\* cancellation is not written.
WrittenWhenFinal(u, rec) ==
  IF diskOrders[u] = Absent \/ rec.status = "partial" THEN diskOrders
  ELSE [diskOrders EXCEPT ![u] = rec]
WrittenFills(u, rec) == IF diskOrders[u] = Absent \/ rec.status = "cancelled" THEN diskOrders
                        ELSE [diskOrders EXCEPT ![u] = rec]

\* updateOrderInDb: an order that is not stored stays so.
Written(u, rec) == IF diskOrders[u] = Absent THEN diskOrders
                   ELSE [diskOrders EXCEPT ![u] = rec]

\* saveOrder and saveTrade, which write the whole file: what a file then holds.
saveOrder(u, rec) == [diskOrders EXCEPT ![u] = rec]
saveTrade(t) == Append(diskTrades, t)

-----------------------------------------------------------------------------
\* placeOrder, up to the call of the engine.
Place(r, p2p) ==
  /\ mode = "serve" /\ nextUid <= MaxUids
  /\ nextUid' = nextUid + 1
  /\ terms' = [terms EXCEPT ![nextUid] = [order |-> Order(r, r.type, r.price), p2pOrigin |-> p2p]]
  /\ pending' = nextUid /\ placing' = nextUid
  /\ PlaceOrder(r)
  /\ UNCHANGED <<api, uuidToMeId, apiTrades, owed, mode, reloading, disk, crashes>>

\* Mutant of PlaceThrows: the order is saved before the engine is called.
PlaceSavesFirst(r) ==
  /\ mode = "serve" /\ nextUid <= MaxUids
  /\ nextUid' = nextUid + 1 /\ pending' = nextUid
  /\ terms' = [terms EXCEPT ![nextUid] = [order |-> Order(r, r.type, r.price), p2pOrigin |-> FALSE]]
  /\ api' = [api EXCEPT ![nextUid] = [filled |-> 0, status |-> "open"]]
  /\ diskOrders' = [diskOrders EXCEPT ![nextUid] = [filled |-> 0, status |-> "open"]]
  /\ PlaceStopThrows(r)
  /\ UNCHANGED <<uuidToMeId, apiTrades, owed, mode, reloading, placing, diskTrades, crashes>>

\* A stop order without a trigger: the engine throws, nothing is recorded.
PlaceThrows(r) ==
  /\ mode = "serve" /\ nextUid <= MaxUids
  /\ nextUid' = nextUid + 1 /\ pending' = nextUid
  /\ PlaceStopThrows(r)
  /\ UNCHANGED <<terms, api, uuidToMeId, apiTrades, owed, mode, reloading, placing, disk, crashes>>

\* The engine at work, before it calls back.
EngineStep ==
  /\ \/ EnterLevel \/ EndSweep \/ CloseLevel
     \/ \E m \in Id : SkipMaker(m) \/ Fill(m)
  /\ UNCHANGED serviceVars

\* Mutant of Filled: the fill replaces the earlier ones.
FilledLast(u, q) ==
  [filled |-> q, status |-> IF q >= terms[u].order.quantity THEN "filled" ELSE "partial"]

\* The record of an order after one more fill.
Filled(u, q) ==
  [filled |-> api[u].filled + q,
   status |-> IF api[u].filled + q >= terms[u].order.quantity THEN "filled" ELSE "partial"]

\* The callback of a trade, which is not yet set while the orders of the store
\* are placed: the maker is updated and written.
OnTrade ==
  LET t == Head(newTrades)
      u == IF mode = "load" THEN 0 ELSE MeIdToUuid(t.maker)
  IN /\ owed = <<>>
     /\ EmitTrade
     /\ IF u = 0 THEN UNCHANGED <<api, diskOrders>>
        ELSE /\ api' = [api EXCEPT ![u] = Filled(u, t.quantity)]
             /\ diskOrders' = IF terms[u].order.trader \in Bots THEN diskOrders
                              ELSE Written(u, Filled(u, t.quantity))
     /\ owed' = IF mode = "load" THEN <<>>
                ELSE <<[maker |-> u, taker |-> pending, quantity |-> t.quantity]>>
     /\ UNCHANGED <<nextUid, terms, uuidToMeId, pending, apiTrades, diskTrades, mode,
                    reloading, placing, crashes>>

\* The rest of the callback: the trade is recorded, and written if it concerns a user.
SaveTrade ==
  /\ owed # <<>>
  /\ apiTrades' = apiTrades \o owed
  /\ diskTrades' = IF ConcernsUser(Head(owed)) THEN saveTrade(Head(owed)) ELSE diskTrades
  /\ owed' = <<>>
  /\ UNCHANGED <<vars, nextUid, terms, api, uuidToMeId, pending, diskOrders, mode,
                 reloading, placing, crashes>>

\* The engine returns.  To the seed, which does nothing with the order; to
\* _reloadFromDb, which maps its id; or to placeOrder, which also records it, and
\* writes it if a user placed it here.
Returned ==
  LET rec == [filled |-> filled[taker], status |-> status'[taker]]
  IN /\ owed = <<>>
     /\ RestRemainder \/ CloseMarket \/ FinishFilled
     /\ uuidToMeId' = IF placing = 0 THEN uuidToMeId ELSE [uuidToMeId EXCEPT ![placing] = taker]
     /\ api' = IF mode = "serve" THEN [api EXCEPT ![placing] = rec] ELSE api
     /\ diskOrders' = IF mode = "serve" /\ IsUserOrder(placing)
                      THEN saveOrder(placing, rec) ELSE diskOrders
     /\ pending' = 0 /\ placing' = 0
     /\ UNCHANGED <<nextUid, terms, apiTrades, owed, diskTrades, mode, reloading, crashes>>

CancelApi(u) ==
  LET rec == [filled |-> api[u].filled, status |-> "cancelled"]
  IN /\ mode = "serve"
     /\ api[u].status \in Live /\ uuidToMeId[u] # 0
     /\ CancelOrder(uuidToMeId[u])
     /\ api' = [api EXCEPT ![u] = rec]
     /\ diskOrders' = IF terms[u].order.trader \in Bots THEN diskOrders ELSE Written(u, rec)
     /\ UNCHANGED <<nextUid, terms, uuidToMeId, pending, apiTrades, owed, diskTrades, mode,
                    reloading, placing, crashes>>

\* What the API answers: getTraderOrders, in no order, and the whole history of a
\* trader, of which GET /orders/history gives a page.
getTraderOrders(trader, s) == {u \in Uid : api[u].status = s /\ terms[u].order.trader = trader}
History(trader) == getTraderOrders(trader, "filled") \cup getTraderOrders(trader, "cancelled")

-----------------------------------------------------------------------------
\* An engine that has just been created.
NewEngine ==
  /\ nextId' = 1 /\ orders' = [o \in Id |-> NoOrder]
  /\ filled' = [o \in Id |-> 0] /\ status' = [o \in Id |-> "none"]
  /\ book' = {} /\ stamp' = [o \in Id |-> 0] /\ clock' = 1
  /\ levels' = [s \in Side |-> {}] /\ stopOrders' = {}
  /\ lastPrice' = 0 /\ trades' = <<>> /\ newTrades' = <<>>
  /\ phase' = "idle" /\ taker' = 0 /\ todo' = {} /\ at' = 0 /\ visited' = {} /\ arrived' = 0
  /\ seedStep' = 0 /\ seedMid' = 0

\* Mutant of Remainder: a partial order is placed in full.
RemainderWhole(u) == terms[u].order.quantity

\* What remains of a stored order.
Remainder(u) == terms[u].order.quantity - diskOrders[u].filled

\* loadAllOrders: the open orders of the file, of which those with a remainder are placed.
Reloadable == {u \in Uid : diskOrders[u].status \in Live /\ Remainder(u) > 0}

\* Mutant of NextToReload: the newest order first.
LastToReload == Max(reloading)

\* The loop of _reloadFromDb takes the orders as they stand in the file.
NextToReload == CHOOSE u \in reloading : \A v \in reloading : u <= v

\* Mutant of Crash: the engine's ids are taken to be those of the last run.
CrashKeepsIds ==
  /\ crashes < MaxCrashes /\ crashes' = crashes + 1
  /\ NewEngine
  /\ api' = diskOrders /\ apiTrades' = <<>>
  /\ pending' = 0 /\ owed' = <<>> /\ placing' = 0
  /\ mode' = "load"
  /\ reloading' = Reloadable
  /\ UNCHANGED <<nextUid, terms, uuidToMeId, disk>>

\* The process dies at any point and starts again: all orders of the file are
\* back in memory, the open ones are to be placed.
Crash ==
  /\ crashes < MaxCrashes /\ crashes' = crashes + 1
  /\ NewEngine
  /\ api' = diskOrders /\ apiTrades' = <<>>
  /\ uuidToMeId' = [u \in Uid |-> 0]
  /\ pending' = 0 /\ owed' = <<>> /\ placing' = 0
  /\ mode' = "load"
  /\ reloading' = Reloadable
  /\ UNCHANGED <<nextUid, terms, disk>>

\* _reloadFromDb places what remains of the open orders, in the order of the store.
ReloadNext ==
  LET u == NextToReload
  IN /\ mode = "load" /\ reloading # {}
     /\ PlaceOrder([side |-> terms[u].order.side, type |-> terms[u].order.type,
                    price |-> terms[u].order.price, stopPrice |-> 0,
                    quantity |-> Remainder(u), trader |-> terms[u].order.trader])
     /\ reloading' = reloading \ {u} /\ placing' = u
     /\ UNCHANGED <<nextUid, terms, api, uuidToMeId, pending, apiTrades, owed, disk, mode, crashes>>

\* The simulation service is created and seeds the book.
SeedBegins ==
  /\ mode = "load" /\ reloading = {}
  /\ \E mid \in SeedMids : SeedStart(mid)
  /\ mode' = "seed"
  /\ UNCHANGED <<nextUid, terms, api, uuidToMeId, pending, apiTrades, owed, reloading, placing,
                 disk, crashes>>

\* The seed places its orders with the engine itself; then requests are served.
SeedGoesOn ==
  /\ mode = "seed"
  /\ \E q \in Quantities : SeedPlace(q)
  /\ UNCHANGED serviceVars
SeedEnds ==
  /\ mode = "seed"
  /\ SeedEnd
  /\ mode' = "serve"
  /\ UNCHANGED <<nextUid, terms, api, uuidToMeId, pending, apiTrades, owed, reloading, placing,
                 disk, crashes>>

-----------------------------------------------------------------------------
\* The steps of the process that nobody has to ask for, and the requests.
Work == \/ EngineStep \/ OnTrade \/ SaveTrade \/ Returned
        \/ ReloadNext \/ SeedBegins \/ SeedGoesOn \/ SeedEnds

UserRequest ==
  \/ \E r \in Requests, p2p \in BOOLEAN : Place(r, p2p)
  \/ \E r \in Requests : PlaceThrows(r)
  \/ \E u \in Uid : CancelApi(u)

ServiceNext == Work \/ UserRequest \/ Crash

ServiceSpec == ServiceInit /\ [][ServiceNext]_<<vars, serviceVars>>

\* The process goes on with what it has begun.
FairService == ServiceSpec /\ WF_<<vars, serviceVars>>(Work)
-----------------------------------------------------------------------------
(***************************************************************************)
(* Properties.                                                             *)
(***************************************************************************)
\* Every variable keeps its shape; the engine's invariant holds also for an engine
\* that was reloaded and then seeded.
ServiceTypeOK ==
  /\ EngineInv
  /\ nextUid \in 1..(MaxUids + 1)
  /\ \A u \in Uid : terms[u] # NoTerms => u < nextUid
  /\ {api, diskOrders} \subseteq
       [Uid -> [filled: Nat, status: Live \cup {"filled", "cancelled", "absent"}]]
  /\ uuidToMeId \in [Uid -> {0} \cup 1..(nextId - 1)]
  /\ \A u, v \in Uid : uuidToMeId[u] = uuidToMeId[v] => u = v \/ uuidToMeId[u] = 0
  /\ mode \in {"load", "seed", "serve"} /\ Len(owed) <= 1
  /\ placing # 0 => phase # "idle"

AtRest == phase = "idle" /\ owed = <<>>

\* The two records of an order agree whenever no call runs, after any number of
\* fills, cancellations and restarts: it is live in both or in neither, and what
\* the API says remains is what the engine would still trade.
RemaindersAgree ==
  AtRest =>
    /\ \A u \in Uid : uuidToMeId[u] # 0 =>
         LET m == uuidToMeId[u]
         IN /\ api[u].status \in Live <=> IsLive(m)
            /\ IsLive(m) => Remaining(m) = terms[u].order.quantity - api[u].filled
    /\ mode # "load" => \A u \in Uid : api[u].status \in Live => uuidToMeId[u] # 0

\* What a user has been told of an order is what the file says, also in the
\* middle of a call; so a restart takes nothing back.
ToldIsStored ==
  /\ \A u \in Uid : diskOrders[u] # Absent => api[u] = diskOrders[u]
  /\ \A t \in Traders, s \in Live \cup {"filled", "cancelled"} :
       \A u \in getTraderOrders(t, s) : IsUserOrder(u) => diskOrders[u].status = s

\* The history of a user is final: what was once in it stays, with the same fill,
\* over any number of restarts; what came in from other servers stays for a run.
HistoryIsFinal ==
  [][\A t \in Traders : \A u \in History(t) :
       IsUserOrder(u) \/ crashes' = crashes => u \in History(t)' /\ api'[u] = api[u]]_<<vars, serviceVars>>

\* Whatever a crash leaves, placing it again makes no trade: nobody would hear it.
NoTradeOnReload == mode = "load" => newTrades = <<>> /\ trades = <<>>

\* The trades on file of a stored order never add up to more than its fill, which
\* never exceeds its quantity, wherever the process died; they add up to exactly
\* its fill as long as no call was cut short.
StoredTrades(u) == Traded(diskTrades, u)
FillsCoverTrades ==
  \A u \in Uid : diskOrders[u] # Absent =>
    /\ StoredTrades(u) <= diskOrders[u].filled
    /\ diskOrders[u].filled <= terms[u].order.quantity
    /\ crashes = 0 /\ AtRest => StoredTrades(u) = diskOrders[u].filled

\* A restart costs no order its turn: of two resting orders of one side and price
\* the one that was placed first is served first, in whichever run it was placed.
TurnsKept ==
  AtRest =>
    \A u, v \in Uid :
      LET m == uuidToMeId[u]  n == uuidToMeId[v]
      IN u < v /\ {m, n} \subseteq book /\ IsLive(m) /\ IsLive(n)
           /\ orders[m].side = orders[n].side /\ orders[m].price = orders[n].price
         => Before(m, n)

\* Engine and service know the same orders, with the same remainders and in the
\* same turn, over any number of restarts, none of which trades anything.
ServiceInv == ServiceTypeOK /\ RemaindersAgree /\ TurnsKept /\ NoTradeOnReload

\* Every start gets to the point where requests are served.
StartsUp == mode # "serve" ~> mode = "serve"

\* A trade that was written is among the trades the API reports.
TradesSurvive ==
  mode = "serve" => \A i \in DOMAIN diskTrades :
                      \E j \in DOMAIN apiTrades : apiTrades[j] = diskTrades[i]
=============================================================================
