----------------------------- MODULE IndexedBook -----------------------------
(***************************************************************************)
(* The on-chain book with the subgraph that follows its events.  A handler *)
(* runs with the step that emits its event: it reads nothing of the        *)
(* contract, so only the order of the events matters, not when it runs.    *)
(***************************************************************************)
EXTENDS OrderBookContract, Subgraph

IndexedInit == ContractInit /\ IndexInit

Cancelled(o) == status[o] # "CANCELLED" /\ status'[o] = "CANCELLED"

\* The event a step of the contract emits, if any.
HandleEvent ==
  LET new == orders'[orderNonce'] IN
  IF orderNonce' > orderNonce
  THEN HandleOrderPlaced(orderNonce', new.trader, new.pair, new.side, new.price, new.quantity)
  ELSE IF IsTrade
  THEN HandleTradeExecuted(LastTrade.buy, LastTrade.sell, LastTrade.price, LastTrade.quantity, now)
  ELSE IF \E o \in Placed : Cancelled(o)
  THEN HandleOrderCancelled(CHOOSE o \in Placed : Cancelled(o))
  ELSE UNCHANGED indexVars

IndexedNext == ContractNext /\ HandleEvent

indexedVars == <<contractVars, indexVars>>
IndexedSpec == IndexedInit /\ [][IndexedNext]_indexedVars
                 /\ WF_contractVars(TurnOfLoop \/ SettleAttempt)
-----------------------------------------------------------------------------
StatusName == [OPEN |-> "open", PARTIALLY_FILLED |-> "partial", FILLED |-> "filled",
               CANCELLED |-> "cancelled"]

\* What the order, trade and daily entities should hold: a trade is dated by the
\* younger of its orders.
OrderTold(o) ==
  [trader |-> orders[o].trader, pair |-> orders[o].pair, side |-> orders[o].side,
   price |-> orders[o].price, quantity |-> orders[o].quantity,
   filled |-> filled[o], status |-> StatusName[status[o]]]
TradedAt(t) == orders[Max({t.buy, t.sell})].timestamp
TradeTold(t) == [buy |-> t.buy, sell |-> t.sell, price |-> t.price, quantity |-> t.quantity,
                 timestamp |-> TradedAt(t)]
DayOf(t) == <<orders[t.buy].pair, TradedAt(t) \div DayLength>>
TradesOf(d) == {i \in DOMAIN executed : DayOf(executed[i]) = d}
DayTold(at) ==
  [volume |-> SumFunctionOnSet([i \in at |-> executed[i].price * executed[i].quantity], at),
   tradeCount |-> Cardinality(at),
   high |-> Max({executed[i].price : i \in at}), low |-> Min({executed[i].price : i \in at}),
   open |-> executed[Min(at)].price, close |-> executed[Max(at)].price]

\* The subgraph knows the book: from the events alone it has every order with its
\* fills and its status, every trade with its time, and of every pair and day the trades,
\* their value and the prices they opened, peaked, bottomed and closed at (src/orderbook.ts).
IndexAgrees ==
  /\ orderEntity = [o \in Placed |-> OrderTold(o)]
  /\ tradeEntities = [i \in DOMAIN executed |-> TradeTold(executed[i])]
  /\ dailyVolume = [d \in {DayOf(executed[i]) : i \in DOMAIN executed} |-> DayTold(TradesOf(d))]

\* The events tell all: the contract's fills add up to them, and so does the index.
EventsTellAll == FilledIsExecuted /\ IndexAgrees
=============================================================================
