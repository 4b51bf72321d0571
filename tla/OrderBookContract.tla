-------------------------- MODULE OrderBookContract --------------------------
(***************************************************************************)
(* The on-chain book, packages/contracts contracts/OrderBook.sol.          *)
(*                                                                         *)
(* A transaction is atomic: while _tryMatch runs (matching is a pair) no   *)
(* other action is enabled.  A call that reverts changes nothing, so its   *)
(* require's are guards.  _tryMatch is one step per turn of its loop.      *)
(*                                                                         *)
(* Contracts called from here are left open: a pair may be active or not   *)
(* when an order is created, and a call of settleMatch may succeed or fail *)
(* (module Exchange puts TokenRegistry and Settlement in their place).     *)
(* An order id is a hash over ++_orderNonce, so the counter is the id.  A  *)
(* block takes one unit of time, so now is block.number and                *)
(* block.timestamp.  A hash or a signature is the message it is made of.   *)
(***************************************************************************)
EXTENDS Integers, Sequences, FiniteSets, SequencesExt

CONSTANTS
  Traders,         \* the addresses that trade
  Pairs,            \* pair ids
  NoPair,           \* no call of _tryMatch is running
  NoTrader,         \* address(0)
  Submissions,      \* orders placed with placeOrder
  SignedOrders,     \* orders signed for placeOrderBySig
  HiddenOrders,     \* orders committed, then revealed
  Deadlines,        \* deadlines of signed cancellations
  CommitAges,       \* values the owner gives minCommitBlocks
  MaxOrders,        \* bound: orders created in one run
  MaxTime,          \* bound: blocks
  MaxCommits,       \* bound: commitments of one account
  MaxSigned         \* bound: messages signed

Side == {"BUY", "SELL"}
OrderStatus == {"OPEN", "FILLED", "PARTIALLY_FILLED", "CANCELLED"}
Id == 1..MaxOrders

\* The arguments of a placement and its sender or signer.
Submission == [trader: Traders, pair: Pairs, side: Side, type: {"LIMIT", "MARKET"},
               price: Nat, quantity: Nat, expiry: Nat]

ASSUME ContractAssumption ==
  /\ MaxOrders \in Nat /\ MaxTime \in Nat /\ MaxCommits \in Nat /\ MaxSigned \in Nat
  /\ NoPair \notin Pairs /\ NoTrader \notin Traders
  /\ Submissions \subseteq Submission
  /\ SignedOrders \subseteq Submission
  /\ HiddenOrders \subseteq Submission
  /\ CommitAges \subseteq Nat /\ Deadlines \subseteq Nat

VARIABLES
  orderNonce,      \* _orderNonce
  orders,          \* orders, without filled and status
  filled,          \* Order.filled
  status,          \* Order.status
  queue,           \* bidOrderIds ("BUY") and askOrderIds ("SELL") of each pair
  nonces,          \* nonces
  commitment,      \* orderCommitments: a set, empty after delete
  commitBlock,     \* commitBlock
  minCommitBlocks, \* minCommitBlocks
  bookPaused,      \* Pausable
  settlementSet,   \* settlement # address(0)
  matching,        \* the pair _tryMatch runs for
  now,             \* block.number, block.timestamp
  executed,        \* history: TradeExecuted events, and whether settleMatch succeeded
  signed,          \* history: messages signed by traders, in the hands of relayers
  spent,           \* history: messages executed
  commitLog,       \* history: commitments of each account
  revealOf         \* history: the commitment an order reveals, 0 if none

authVars == <<nonces, signed, spent>>
commitVars == <<commitment, commitBlock, commitLog, revealOf>>
configVars == <<minCommitBlocks, bookPaused, settlementSet>>
bookVars == <<orderNonce, orders, filled, status, queue, matching, executed>>
contractVars == <<bookVars, authVars, commitVars, configVars, now>>

\* A slot of a mapping that was never written.
NoOrder == [trader |-> NoTrader, pair |-> NoPair, side |-> "BUY", type |-> "LIMIT",
            price |-> 0, quantity |-> 0, expiry |-> 0, timestamp |-> 0, nonce |-> 0]

ContractInit ==
  /\ orderNonce = 0
  /\ orders = [o \in Id |-> NoOrder]
  /\ filled = [o \in Id |-> 0]
  /\ status = [o \in Id |-> "OPEN"]
  /\ queue = [p \in Pairs |-> [s \in Side |-> <<>>]]
  /\ nonces = [t \in Traders |-> 0]
  /\ commitment = [t \in Traders |-> {}] /\ commitBlock = [t \in Traders |-> 0]
  /\ minCommitBlocks = 1 /\ bookPaused = FALSE /\ settlementSet = FALSE
  /\ matching = NoPair /\ now = 1
  /\ executed = <<>> /\ signed = {} /\ spent = {}
  /\ commitLog = [t \in Traders |-> <<>>] /\ revealOf = [o \in Id |-> 0]

-----------------------------------------------------------------------------
Idle == matching = NoPair
Placed == 1..orderNonce

IsInactive(o) == status[o] \in {"FILLED", "CANCELLED"}
IsExpired(o) == orders[o].expiry # 0 /\ now > orders[o].expiry
Cancellable(o) == status[o] \in {"OPEN", "PARTIALLY_FILLED"}
Remaining(o) == orders[o].quantity - filled[o]

\* Mutant of Beats: a new order moves ahead of its equals.
BeatsOrTies(s, p, q) == IF s = "BUY" THEN p >= q ELSE p <= q
\* Does price p stand strictly before price q in the array of a side?
Beats(s, p, q) == IF s = "BUY" THEN p > q ELSE p < q

\* _insertBid, _insertAsk: the order is pushed and moves ahead of those it beats,
\* up to the first one from the end that it does not beat, at index k.
StopsBehind(k, s, price, arr) ==
  /\ k > 0 => ~Beats(s, price, orders[arr[k]].price)
  /\ \A i \in (k + 1)..Len(arr) : Beats(s, price, orders[arr[i]].price)

-----------------------------------------------------------------------------
OrderOf(r, nonce) ==
  [trader |-> r.trader, pair |-> r.pair, side |-> r.side, type |-> r.type,
   price |-> r.price, quantity |-> r.quantity, expiry |-> r.expiry,
   timestamp |-> now, nonce |-> nonce]

\* _createOrder, up to its call of _tryMatch.
CreateOrder(r, nonce) ==
  /\ Idle /\ ~bookPaused
  /\ orderNonce < MaxOrders
  /\ r.quantity > 0
  /\ r.type = "LIMIT" => r.price > 0
  /\ r.expiry = 0 \/ r.expiry > now
  /\ orderNonce' = orderNonce + 1
  /\ orders' = [orders EXCEPT ![orderNonce + 1] = OrderOf(r, nonce)]
  /\ \E k \in 0..Len(queue[r.pair][r.side]) :
       /\ StopsBehind(k, r.side, r.price, queue[r.pair][r.side])
       /\ queue' = [queue EXCEPT ![r.pair][r.side] = InsertAt(@, k + 1, orderNonce + 1)]
  /\ matching' = r.pair
  /\ UNCHANGED <<filled, status, executed, configVars, now>>

PlaceOrder(r) ==
  /\ CreateOrder(r, nonces[r.trader])
  /\ UNCHANGED <<authVars, commitVars>>

CancelOrder(o) ==
  /\ Idle
  /\ o \in Placed /\ Cancellable(o)
  /\ status' = [status EXCEPT ![o] = "CANCELLED"]
  /\ UNCHANGED <<orderNonce, orders, filled, queue, matching, executed, authVars,
                 commitVars, configVars, now>>

\* matchOrder, which anybody may call.
MatchOrder(p) ==
  /\ Idle /\ ~bookPaused
  /\ matching' = p
  /\ UNCHANGED <<orderNonce, orders, filled, status, queue, executed, authVars,
                 commitVars, configVars, now>>

-----------------------------------------------------------------------------
\* Commit and reveal.
CommitOrder(r) ==
  /\ Idle
  /\ Len(commitLog[r.trader]) < MaxCommits
  /\ commitment' = [commitment EXCEPT ![r.trader] = {r}]
  /\ commitBlock' = [commitBlock EXCEPT ![r.trader] = now]
  /\ commitLog' = [commitLog EXCEPT ![r.trader] = Append(@, [order |-> r, at |-> now])]
  /\ UNCHANGED <<bookVars, authVars, revealOf, configVars, now>>

\* Mutant of RevealOrder: the commitment is not deleted.
RevealKeeps(r) ==
  /\ r \in commitment[r.trader]
  /\ now >= commitBlock[r.trader] + minCommitBlocks
  /\ CreateOrder(r, nonces[r.trader])
  /\ revealOf' = [revealOf EXCEPT ![orderNonce + 1] = Len(commitLog[r.trader])]
  /\ UNCHANGED <<commitment, commitBlock, authVars, commitLog>>
RevealOrder(r) ==
  /\ r \in commitment[r.trader]
  /\ now >= commitBlock[r.trader] + minCommitBlocks
  /\ commitment' = [commitment EXCEPT ![r.trader] = {}]
  /\ commitBlock' = [commitBlock EXCEPT ![r.trader] = 0]
  /\ CreateOrder(r, nonces[r.trader])
  /\ revealOf' = [revealOf EXCEPT ![orderNonce + 1] = Len(commitLog[r.trader])]
  /\ UNCHANGED <<authVars, commitLog>>

-----------------------------------------------------------------------------
\* Signed orders and cancellations, sent by anybody.
PlaceMessage(r, nonce) == [kind |-> "place", signer |-> r.trader, order |-> r, nonce |-> nonce]
CancelMessage(t, o, nonce, deadline) ==
  [kind |-> "cancel", signer |-> t, order |-> o, nonce |-> nonce, deadline |-> deadline]

\* A trader reads its nonce and signs; it may sign twice before one is sent.
Sign(m) ==
  /\ Idle /\ Cardinality(signed) < MaxSigned
  /\ signed' = signed \cup {m}
  /\ UNCHANGED <<bookVars, nonces, spent, commitVars, configVars, now>>
SignPlacement(r) == Sign(PlaceMessage(r, nonces[r.trader]))
SignCancellation(o, deadline) ==
  o \in Placed /\ Sign(CancelMessage(orders[o].trader, o, nonces[orders[o].trader], deadline))

Spend(m) == spent' = spent \cup {m} /\ UNCHANGED signed

PlaceOrderBySig(r) ==
  /\ PlaceMessage(r, nonces[r.trader]) \in signed
  /\ r.expiry = 0 \/ now <= r.expiry
  /\ nonces' = [nonces EXCEPT ![r.trader] = @ + 1]
  /\ CreateOrder(r, nonces[r.trader] + 1)
  /\ Spend(PlaceMessage(r, nonces[r.trader]))
  /\ UNCHANGED commitVars

\* Mutant of CancelOrderBySig: the nonce is not spent.
CancelKeepsNonce(o, deadline) ==
  LET t == orders[o].trader
      m == CancelMessage(t, o, nonces[t], deadline)
  IN /\ Idle /\ now <= deadline
     /\ o \in Placed /\ Cancellable(o)
     /\ m \in signed
     /\ status' = [status EXCEPT ![o] = "CANCELLED"]
     /\ Spend(m)
     /\ UNCHANGED <<nonces, orderNonce, orders, filled, queue, matching, executed, commitVars,
                    configVars, now>>
CancelOrderBySig(o, deadline) ==
  LET t == orders[o].trader
      m == CancelMessage(t, o, nonces[t], deadline)
  IN /\ Idle /\ now <= deadline
     /\ o \in Placed /\ Cancellable(o)
     /\ m \in signed
     /\ nonces' = [nonces EXCEPT ![t] = @ + 1]
     /\ status' = [status EXCEPT ![o] = "CANCELLED"]
     /\ Spend(m)
     /\ UNCHANGED <<orderNonce, orders, filled, queue, matching, executed, commitVars,
                    configVars, now>>

-----------------------------------------------------------------------------
(***************************************************************************)
(* _tryMatch, one turn of the loop at a time.                              *)
(***************************************************************************)
Bids == queue[matching]["BUY"]
Asks == queue[matching]["SELL"]
\* Mutant of Stale: the expiry of an order at the head is not looked at.
StaleInactive(o) == IsInactive(o)
Stale(o) == IsInactive(o) \/ IsExpired(o)
HeadsMeet == matching # NoPair /\ Bids # <<>> /\ Asks # <<>>

\* Mutant of PruneBid: the loop goes on without removing the head.
PruneNothing ==
  /\ HeadsMeet /\ Stale(Head(Bids))
  /\ UNCHANGED contractVars
PruneBid ==
  /\ HeadsMeet /\ Stale(Head(Bids))
  /\ queue' = [queue EXCEPT ![matching]["BUY"] = Tail(@)]
  /\ UNCHANGED <<orderNonce, orders, filled, status, matching, executed, authVars,
                 commitVars, configVars, now>>

PruneAsk ==
  /\ HeadsMeet /\ ~Stale(Head(Bids)) /\ Stale(Head(Asks))
  /\ queue' = [queue EXCEPT ![matching]["SELL"] = Tail(@)]
  /\ UNCHANGED <<orderNonce, orders, filled, status, matching, executed, authVars,
                 commitVars, configVars, now>>

\* Mutant of MatchQty: the whole order is traded again.
MatchWhole(b, a) == IF orders[b].quantity < Remaining(a) THEN orders[b].quantity
                    ELSE Remaining(a)
MatchQty(b, a) == IF Remaining(b) < Remaining(a) THEN Remaining(b) ELSE Remaining(a)
\* Mutant of StatusAfter: a complete fill is not noticed.
StatusLate(o) == IF filled'[o] > orders[o].quantity THEN "FILLED" ELSE "PARTIALLY_FILLED"
StatusAfter(o) == IF filled'[o] = orders[o].quantity THEN "FILLED" ELSE "PARTIALLY_FILLED"
\* Mutant of DropFilled: a partly filled head is removed too.
DropHead(arr) == Tail(arr)
DropFilled(arr) == IF status'[Head(arr)] = "FILLED" THEN Tail(arr) ELSE arr

\* Mutant of Crosses: the comparison is the wrong way round.
CrossesSwapped(b, a) == orders[b].price <= orders[a].price
Crosses(b, a) == orders[b].price >= orders[a].price

\* The heads trade at the ask's price; ok says whether settleMatch was called
\* and succeeded, an error being swallowed.
Execute(ok) ==
  LET b == Head(Bids)  a == Head(Asks)
  IN /\ HeadsMeet /\ ~Stale(b) /\ ~Stale(a)
     /\ Crosses(b, a)
     /\ filled' = [filled EXCEPT ![b] = @ + MatchQty(b, a), ![a] = @ + MatchQty(b, a)]
     /\ status' = [status EXCEPT ![b] = StatusAfter(b), ![a] = StatusAfter(a)]
     /\ executed' = Append(executed, [buy |-> b, sell |-> a, price |-> orders[a].price,
                                      quantity |-> MatchQty(b, a), settled |-> ok])
     /\ queue' = [queue EXCEPT ![matching] = [s \in Side |-> DropFilled(@[s])]]
     /\ UNCHANGED <<orderNonce, orders, matching, authVars, commitVars, configVars, now>>

\* Mutant of EndMatch: the loop ends after any turn.
EndAnytime ==
  /\ matching # NoPair
  /\ matching' = NoPair
  /\ UNCHANGED <<orderNonce, orders, filled, status, queue, executed, authVars,
                 commitVars, configVars, now>>
EndMatch ==
  /\ matching # NoPair
  /\ HeadsMeet => LET b == Head(Bids)  a == Head(Asks)
                  IN ~Stale(b) /\ ~Stale(a) /\ ~Crosses(b, a)
  /\ matching' = NoPair
  /\ UNCHANGED <<orderNonce, orders, filled, status, queue, executed, authVars,
                 commitVars, configVars, now>>

-----------------------------------------------------------------------------
\* The owner, and time.
SetSettlement(set) ==
  /\ Idle /\ settlementSet' = set
  /\ UNCHANGED <<bookVars, authVars, commitVars, minCommitBlocks, bookPaused, now>>
SetMinCommitBlocks(n) ==
  /\ Idle /\ minCommitBlocks' = n
  /\ UNCHANGED <<bookVars, authVars, commitVars, bookPaused, settlementSet, now>>
PauseBook ==
  /\ Idle /\ ~bookPaused /\ bookPaused' = TRUE
  /\ UNCHANGED <<bookVars, authVars, commitVars, minCommitBlocks, settlementSet, now>>
UnpauseBook ==
  /\ Idle /\ bookPaused /\ bookPaused' = FALSE
  /\ UNCHANGED <<bookVars, authVars, commitVars, minCommitBlocks, settlementSet, now>>
NewBlock ==
  /\ Idle /\ now < MaxTime /\ now' = now + 1
  /\ UNCHANGED <<bookVars, authVars, commitVars, configVars>>

\* The steps of a transaction in progress, and the transactions.
TurnOfLoop == PruneBid \/ PruneAsk \/ EndMatch

TraderCall ==
  \/ \E r \in Submissions : PlaceOrder(r)
  \/ \E r \in HiddenOrders : CommitOrder(r) \/ RevealOrder(r)
  \/ \E r \in SignedOrders : SignPlacement(r) \/ PlaceOrderBySig(r)
  \/ \E o \in Id, d \in Deadlines : SignCancellation(o, d) \/ CancelOrderBySig(o, d)
  \/ \E o \in Id : CancelOrder(o)
  \/ \E p \in Pairs : MatchOrder(p)

OwnerCall ==
  \/ \E set \in BOOLEAN : SetSettlement(set)
  \/ \E n \in CommitAges : SetMinCommitBlocks(n)
  \/ PauseBook \/ UnpauseBook

\* settleMatch is not called when there is no settlement contract.
SettleAttempt == \E ok \in BOOLEAN : (ok => settlementSet) /\ Execute(ok)

ContractNext == TurnOfLoop \/ SettleAttempt \/ TraderCall \/ OwnerCall \/ NewBlock

ContractSpec == ContractInit /\ [][ContractNext]_contractVars

\* A transaction ends in the block it is mined in.
FairContract == ContractSpec /\ WF_contractVars(TurnOfLoop \/ SettleAttempt)
-----------------------------------------------------------------------------
(***************************************************************************)
(* Properties.                                                             *)
(***************************************************************************)
OrderRecord == [trader: Traders, pair: Pairs, side: Side, type: {"LIMIT", "MARKET"},
                price: Nat, quantity: Nat \ {0}, expiry: Nat, timestamp: Nat, nonce: Nat]
TradeRecord == [buy: Id, sell: Id, price: Nat, quantity: Nat \ {0}, settled: BOOLEAN]

CanTrade(o) == ~IsInactive(o) /\ ~IsExpired(o)

\* Every variable keeps its shape; the orders up to orderNonce, and no others, exist.
BookTypeOK ==
  /\ orderNonce \in 0..MaxOrders
  /\ orders \in [Id -> OrderRecord \cup {NoOrder}]
  /\ \A o \in Id : orders[o] = NoOrder <=> o > orderNonce
  /\ filled \in [Id -> Nat] /\ status \in [Id -> OrderStatus]
  /\ queue \in [Pairs -> [Side -> Seq(Placed)]]
  /\ matching \in Pairs \cup {NoPair} /\ now \in Nat
  /\ executed \in Seq(TradeRecord)
AccountsTypeOK ==
  /\ nonces \in [Traders -> Nat]
  /\ commitBlock \in [Traders -> Nat] /\ revealOf \in [Id -> Nat]
  /\ commitLog \in [Traders -> Seq([order: HiddenOrders, at: Nat])]
  /\ minCommitBlocks \in Nat /\ bookPaused \in BOOLEAN /\ settlementSet \in BOOLEAN
ContractTypeOK == BookTypeOK /\ AccountsTypeOK

\* Order x comes before y, of the same side: a better price, or the same price
\* and an earlier arrival.
BetterPrice(x, y) == IF orders[x].side = "BUY" THEN orders[x].price > orders[y].price
                                               ELSE orders[x].price < orders[y].price
Precedes(x, y) == BetterPrice(x, y) \/ (orders[x].price = orders[y].price /\ x < y)

\* The arrays stay in price-time order through insertions and removals.
QueueSorted ==
  \A p \in Pairs, s \in Side : \A i, j \in DOMAIN queue[p][s] :
    i < j => Precedes(queue[p][s][i], queue[p][s][j])

\* An array holds orders of its own pair and side, none of them filled, and no
\* order that can still trade is missing from it.
QueueHolds ==
  /\ \A p \in Pairs, s \in Side : \A i \in DOMAIN queue[p][s] :
       LET o == queue[p][s][i]
       IN orders[o].pair = p /\ orders[o].side = s /\ status[o] # "FILLED"
  /\ \A o \in Placed : CanTrade(o) => \E i \in DOMAIN queue[orders[o].pair][orders[o].side] :
                                     queue[orders[o].pair][orders[o].side][i] = o

\* No order is filled beyond its quantity, and its status tells how far it is.
FillsAgree ==
  \A o \in Placed :
    /\ filled[o] <= orders[o].quantity
    /\ status[o] = "FILLED" <=> filled[o] = orders[o].quantity
    /\ status[o] = "OPEN" => filled[o] = 0
    /\ status[o] = "PARTIALLY_FILLED" => filled[o] > 0

\* What the trades of a sequence filled of order o.
Traded(s, o) ==
  SumFunctionOnSet([i \in DOMAIN s |-> IF o \in {s[i].buy, s[i].sell} THEN s[i].quantity ELSE 0],
                   DOMAIN s)

\* What an order was filled is what its TradeExecuted events add up to, and each
\* of them is within the limits of both orders, of the two sides of one pair.
FilledIsExecuted ==
  /\ \A o \in Placed : filled[o] = Traded(executed, o)
  /\ \A i \in DOMAIN executed :
       LET b == orders[executed[i].buy]  a == orders[executed[i].sell]
       IN /\ b.side = "BUY" /\ a.side = "SELL" /\ b.pair = a.pair
          /\ a.price <= executed[i].price /\ executed[i].price <= b.price

\* The slots past the last order were never written.
Unwritten == \A o \in Id : o > orderNonce => status[o] = "OPEN" /\ filled[o] = 0

\* A bid that reaches an ask meets it because one of them has just arrived, in the
\* transaction that runs; between transactions nothing is crossed.
OnlyArrivalCrosses ==
  \A p \in Pairs : \A i \in DOMAIN queue[p]["BUY"], j \in DOMAIN queue[p]["SELL"] :
    orders[queue[p]["BUY"][i]].price >= orders[queue[p]["SELL"][j]].price =>
      /\ p = matching /\ orderNonce \in {queue[p]["BUY"][i], queue[p]["SELL"][j]}
      /\ orders[orderNonce].timestamp = now /\ ~bookPaused

\* Between transactions no bid reaches an ask, stale orders included (it follows).
Uncrossed(p) == \A i \in DOMAIN queue[p]["BUY"], j \in DOMAIN queue[p]["SELL"] :
                  orders[queue[p]["BUY"][i]].price < orders[queue[p]["SELL"][j]].price
BookUncrossed == \A p \in Pairs \ {matching} : Uncrossed(p)

\* What holds of the book whenever one looks: its shape, its arrays, its fills, and that
\* nothing is left crossed.  It is inductive as it stands.
BookInv ==
  ContractTypeOK /\ Unwritten /\ QueueSorted /\ QueueHolds /\ FillsAgree /\ OnlyArrivalCrosses

IsTrade == executed' # executed
LastTrade == executed'[Len(executed')]

\* A trade is between orders that are neither cancelled, filled nor expired, and
\* no such order of the pair, wherever it is kept, stands before one of them.
PriceTimePriority ==
  [][IsTrade =>
       \A m \in {LastTrade.buy, LastTrade.sell} :
         /\ CanTrade(m)
         /\ \A x \in Placed : orders[x].side = orders[m].side /\ orders[x].pair = orders[m].pair
                                => ~CanTrade(x) \/ ~Precedes(x, m)]_contractVars

\* Every trade is made by the order that has just arrived, and none while the book
\* is paused: matchOrder, a cancellation, an expiry or a pause in between leaves
\* nothing to be matched.
TradesOnArrival ==
  [][IsTrade => /\ orderNonce \in {LastTrade.buy, LastTrade.sell}
                /\ orders[orderNonce].timestamp = now /\ ~bookPaused]_contractVars

\* The loop of _tryMatch ends.
MatchReturns == matching # NoPair ~> matching = NoPair

\* A trader's nonce counts the messages executed for it, each once: neither a
\* placement nor a cancellation can be sent twice, nor both with one nonce.
SpentBy(t) == {m \in spent : m.signer = t}
NonceSpentOnce ==
  \A t \in Traders :
    /\ Cardinality(SpentBy(t)) = nonces[t]
    /\ {m.nonce : m \in SpentBy(t)} = 0..(nonces[t] - 1)

\* Order o says what was submitted as r.
Opens(o, r) ==
  /\ orders[o].trader = r.trader /\ orders[o].pair = r.pair /\ orders[o].side = r.side
  /\ orders[o].type = r.type /\ orders[o].price = r.price
  /\ orders[o].quantity = r.quantity /\ orders[o].expiry = r.expiry

\* A revealed order is one its trader committed to at least a block before (when
\* the owner keeps minCommitBlocks positive), and a commitment opens one order.
RevealsBacked ==
  \A o \in Placed : revealOf[o] # 0 =>
    LET log == commitLog[orders[o].trader]
        c == log[revealOf[o]]
    IN /\ revealOf[o] \in DOMAIN log
       /\ Opens(o, c.order)
       /\ 0 \notin CommitAges => c.at < orders[o].timestamp
       /\ \A x \in Placed : x # o /\ orders[x].trader = orders[o].trader
                              => revealOf[x] # revealOf[o]

\* Each signed message and each commitment is used once.
UsedOnce == NonceSpentOnce /\ RevealsBacked

TheMarket == INSTANCE Market WITH
  terms <- [o \in Placed |-> [side |-> IF orders[o].side = "BUY" THEN "buy" ELSE "sell",
                              price |-> orders[o].price, quantity |-> orders[o].quantity]],
  filled <- [o \in Placed |-> filled[o]],
  live <- {o \in Placed : CanTrade(o)}

\* The contract is a market: whatever is pushed, pruned, paused or left to expire,
\* an order keeps its terms, trades only within its limit and its quantity, and
\* never again once it was filled, cancelled or expired.
BookImplementsMarket == TheMarket!Spec
=============================================================================
