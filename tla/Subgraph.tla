------------------------------- MODULE Subgraph -------------------------------
(***************************************************************************)
(* The entities packages/subgraph src/orderbook.ts derives from the events *)
(* of the on-chain book.  A handler sees one event and what it has stored, *)
(* never the contract; events come in the order they were emitted.         *)
(*                                                                         *)
(* Amounts stay in the raw units of the events: toDecimal divides all of   *)
(* them by the same power of ten, exactly.  Hashes and the fields that no  *)
(* event carries are left out.                                             *)
(***************************************************************************)
EXTENDS Integers, Sequences, FiniteSetsExt

CONSTANT DayLength   \* 86400: the time units of a day
ASSUME SubgraphAssumption == DayLength \in Nat \ {0}

VARIABLES
  orderEntity,   \* Order entities, by order id
  tradeEntities, \* Trade entities; their ids are those of the logs
  dailyVolume    \* DailyVolume entities, by pair and day

indexVars == <<orderEntity, tradeEntities, dailyVolume>>

EmptyStore == <<>>
IndexInit == orderEntity = EmptyStore /\ tradeEntities = <<>> /\ dailyVolume = EmptyStore

Saved(store, key, entity) ==
  [k \in DOMAIN store \cup {key} |-> IF k = key THEN entity ELSE store[k]]

HandleOrderPlaced(id, trader, pair, side, price, quantity) ==
  /\ orderEntity' = Saved(orderEntity, id,
       [trader |-> trader, pair |-> pair, side |-> side, price |-> price,
        quantity |-> quantity, filled |-> 0, status |-> "open"])
  /\ UNCHANGED <<tradeEntities, dailyVolume>>

\* An entity that is loaded, gets a new fill and a new status, and is saved.
Updated(e, filledNow, statusNow) ==
  [trader |-> e.trader, pair |-> e.pair, side |-> e.side, price |-> e.price,
   quantity |-> e.quantity, filled |-> filledNow, status |-> statusNow]

HandleOrderCancelled(id) ==
  /\ orderEntity' = [o \in DOMAIN orderEntity |->
       IF o = id THEN Updated(orderEntity[o], orderEntity[o].filled, "cancelled")
       ELSE orderEntity[o]]
  /\ UNCHANGED <<tradeEntities, dailyVolume>>

\* Mutant of Matched: the order is full once a trade was as large as the order.
MatchedOnce(e, quantity) ==
  Updated(e, e.filled + quantity, IF quantity >= e.quantity THEN "filled" ELSE "partial")
\* An order of a trade.
Matched(e, quantity) ==
  Updated(e, e.filled + quantity,
          IF e.filled + quantity >= e.quantity THEN "filled" ELSE "partial")

dayKey(pair, timestamp) == <<pair, timestamp \div DayLength>>

\* The volume of a day that begins with a trade at this price.
FirstOfDay(price) ==
  [volume |-> 0, tradeCount |-> 0, high |-> price, low |-> price, open |-> price, close |-> price]

\* A trade of the day.
Widen(daily, price, quantity) ==
  [volume |-> daily.volume + price * quantity, tradeCount |-> daily.tradeCount + 1,
   high |-> Max({daily.high, price}), low |-> Min({daily.low, price}),
   open |-> daily.open, close |-> price]

HandleTradeExecuted(buy, sell, price, quantity, timestamp) ==
  LET pair == IF buy \in DOMAIN orderEntity THEN orderEntity[buy].pair ELSE "unknown"
      key == dayKey(pair, timestamp)
      daily == IF key \in DOMAIN dailyVolume THEN dailyVolume[key] ELSE FirstOfDay(price)
  IN /\ tradeEntities' = Append(tradeEntities,
          [buy |-> buy, sell |-> sell, price |-> price, quantity |-> quantity,
           timestamp |-> timestamp])
     /\ orderEntity' = [o \in DOMAIN orderEntity |->
          IF o \in {buy, sell} THEN Matched(orderEntity[o], quantity) ELSE orderEntity[o]]
     /\ dailyVolume' = Saved(dailyVolume, key, Widen(daily, price, quantity))
=============================================================================
