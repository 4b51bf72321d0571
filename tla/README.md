# Verification of the ZeTheta DEX

TLA+ models of the exchange in `src/packages`, TLC runs on small instances of
them, and theorems about them proved with TLAPS.

1. [The system](#1-the-system)
2. [What makes it hard, and what has to be true](#2-what-makes-it-hard-and-what-has-to-be-true)
3. [Modules](#3-modules)
4. [Runs](#4-runs)
5. [Findings](#5-findings)
6. [Proofs](#6-proofs)
7. [What is not modelled](#7-what-is-not-modelled)
8. [Plan](#8-plan)

## 1. The system

The repository holds one exchange twice: an off-chain central limit order book
in a Node.js process, and an on-chain one in Solidity. They share no state; the
frontend talks to both. A third, older engine still stands behind the routes of
the Next.js server.

| Part | State it keeps | Operations |
|---|---|---|
| **Matching engine** `matching-engine/src/orderbook/orderbook.ts` | `orders` by id; `bids`, `asks`: Map from price to array of orders; parked `stopOrders`; `trades`; `lastPrice` | `placeOrder` (limit, market, stop-limit), `cancelOrder`, `seed`, views |
| **Order service** `api/src/services/orderbook.service.ts` | API orders and trades, the maps between API ids and engine ids, the taker of the running call | `placeOrder`, `cancelOrder`, reload at start, queries, subscriptions |
| **Store** `api/src/db/sqlite.ts` | `orders.json` and `trades.json`, and their copies in memory | `saveOrder`, `updateOrderInDb`, `saveTrade`, load at start; each write is a temporary file and a rename |
| **Order routes** `api/src/routes/orders.ts` | a rate limit window per wallet | placement, whose unfilled market remainder goes to the pool; cancellation; lists |
| **AMM service** `api/src/engine/amm.ts`, `services/amm.service.ts`, `routes/amm.ts` | two reserves, total liquidity, a position per wallet | swap, quote, add, remove, impermanent loss |
| **Simulation** `api/src/services/simulation.service.ts` | the running candle, rings of candles and spreads | a tick: bot orders, candles, spread, listeners |
| **P2P worker** `p2p-network/src` | known orders, a bounded cache of seen ids, message counts per peer | publish and receive on four topics, sync |
| **P2P bridge** `api/src/p2p`, hooks in `api/src/main.ts` | pending calls and their timers, ids received from peers | start, stop, broadcast, dial, addresses, over two pipes to a forked worker |
| **On-chain book** `contracts/contracts/OrderBook.sol` | orders, sorted id arrays per pair and side, nonces, commitments, pause | `placeOrder`, `placeOrderBySig`, `cancelOrder`, `cancelOrderBySig`, `commitOrder`, `revealOrder`, `matchOrder`, configuration |
| **Settlement** `contracts/contracts/Settlement.sol` | escrow per account and token, fee and recipient, authorised book, pause | `deposit`, `withdraw`, `releaseFunds`, `settleTrade`, `settleMatch`, configuration |
| **TokenRegistry** `contracts/contracts/TokenRegistry.sol` | whitelists of tokens and pairs | `addToken`, `removeToken`, `createPair`, `deactivatePair` |
| **FeeManager** `contracts/contracts/FeeManager.sol` | totals collected and distributed per token, split | `collectFees`, `distributeFees`, `collectAndDistribute`, setters |
| **LiquidityPool, Factory** `contracts/contracts` | reserves and LP tokens; pools by pair | `addLiquidity`, `removeLiquidity`, `swap`; `createPair` |
| **Subgraph** `subgraph/src` | orders, trades and daily sums indexed from events | one handler per event |
| **Frontend** `frontend/src` | the store, the stream, the wallet, the state of each form and table | order form with settlement, open orders, liquidity panels, wallet dialog and badge |
| **Former engine** `frontend/src/lib/engine`, `app/api` | book, pool, simulation in the Next.js server | order, cancel, swap, deposit, tick |

How they interact:

* A REST request runs `orderBookService.placeOrder`, which calls the engine
  synchronously. The engine matches the whole order first and then calls back
  once per trade; the callback updates the maker's API order, writes it to the
  store and writes the trade. The taker is written last. What a market order
  still wants then goes to the pool in memory.
* At start the service reloads the open orders of the store into the engine,
  then the simulation seeds a ladder of market-maker orders around 2000, then
  P2P starts. Orders of peers enter through the same `placeOrder`, and orders of
  users leave through a hook of it.
* The API forks the worker that holds the gossip node and talks to it by
  messages on two pipes. Nothing but their order ties an answer to its question.
* On chain, every placement asks TokenRegistry whether its pair is active and
  runs the matching loop `_tryMatch`. For each match the loop calls
  `Settlement.settleMatch` inside `try ... catch {}`: a failed settlement does
  not undo or stop the match. Settlement asks the registry again, and credits
  its fee to the account of FeeManager. The subgraph hears the events.
* `deploy.ts` creates the contracts and lists the pair, then sends three wiring
  transactions: fee recipient, authorised book, settlement of the book.
* Pages send requests and show what the stream and the answers bring, in the
  order in which they come.

## 2. What makes it hard, and what has to be true

JavaScript runs a handler to completion and a transaction is atomic, so there
are no data races. The hard parts are elsewhere: inside a call that changes what
it iterates over, between the calls of different actors, between the durable
writes of one call, between a request and its answer, and between contracts that
only half trust each other. `PROJECT.json` lists the places line by line under
`hazards`. In short:

* **Engine.** A fill may activate stop orders, which are pushed on the arrays
  the sweep is walking; a level key may outlive its orders; a cancelled stop may
  reach the book later. It is correct if fills are exactly the trades, no order
  is overfilled, lost, or touched after it is final, makers are served in
  price-time order, the book is not left crossed, and every call returns.
* **On-chain book.** Insertion by swapping, lazy removal of cancelled and
  expired orders, permissionless `matchOrder`, relayed messages with one shared
  nonce, commit and reveal. It is correct if the arrays stay sorted and
  complete, only live orders trade and the best first, nothing is left to match
  between transactions, the loop ends, and a message or commitment is used once.
* **Settlement and fees.** Rounding, fee changes between trades, buyer, seller
  and fee recipient possibly the same account, withdrawal before execution, a
  manager whose fees may be released behind its back. It is correct if no token
  is made or lost and every balance is explained.
* **On-chain pool.** Shares, payments and prices are rounded in five places,
  deposits of any proportion and tokens sent past the pool come in between. It
  is correct if no sequence of operations lowers what a share is worth, the pool
  can always pay its reserves and is never drained, and a quoted price is enough.
* **Wiring.** The book must not assume that a match was settled, and what was
  settled must be what was matched, within the limits of the orders, also while
  the deployment is half done.
* **Subgraph.** It knows fills and statuses from events alone. It is correct if
  its entities say what the contract says, after every event.
* **Order service and store.** Two records of each order, durable writes one by
  one, reload. It is correct if the remainders agree, a crash at any point leaves
  a book that can be reloaded without trading, and nothing durable is forgotten.
* **AMM service and routes.** The swap adds its fee to the reserve twice,
  positions add up deposits made at different prices, a removal may ask for more
  than its position, two halves of an order are filled by different engines. It
  is correct if no request takes value from the shares of others and no order
  gets more than it asked for, beyond what the route rounded its amounts up by.
* **P2P.** Messages are lost, repeated, reordered and remembered in a bounded
  cache; calls share their answers; the worker may die at any time. It is
  correct if an order is taken up once and does not circulate, what is handed
  over reaches the book, and every call settles.
* **Frontend.** Answers overtake each other, forms are left while they wait,
  wallets change under way, the stream breaks. It is correct if what is on the
  screen is about the last thing done, comes to agree with the server again, and
  no button stays disabled.

## 3. Modules

| Module | Models | Extends |
|---|---|---|
| `Market` | what every matching here promises (abstract) | |
| `MatchingEngine` | `orderbook.ts` | |
| `OrderBookService` | `orderbook.service.ts` and `sqlite.ts` around the engine | `MatchingEngine` |
| `OrderBookContract` | `OrderBook.sol` | |
| `Subgraph`, `IndexedBook` | `subgraph/src/orderbook.ts`; the contract with its index | `IndexedBook`: `OrderBookContract`, `Subgraph` |
| `Settlement`, `FeeManager` | `Settlement.sol`; `FeeManager.sol` over it | `FeeManager`: `Settlement` |
| `TokenRegistry` | `TokenRegistry.sol` | |
| `Exchange` | the contracts wired as by `deploy.ts` | `OrderBookContract`, `FeeManager`, `TokenRegistry` |
| `LiquidityPool` | `LiquidityPool.sol` | |
| `P2PNode`, `P2PBridge` | the gossip nodes; servers that relay orders through them | `P2PBridge`: `P2PNode` |
| `Fractions`, `ApiAmm` | exact fractions; the pool of the API with its routes | `ApiAmm`: `Fractions` |
| `LiquidityPanels` | the AMM panels of the frontend over the API's pool | `ApiAmm` |
| `Simulation` | candles and spreads of the simulation | |
| `FormerEngine` | the engine in the Next.js server | `Simulation`, `ApiAmm` |
| `WalletLink`, `OrderDesk`, `TradePage` | wallet; order form, settlement and order table; the page of both | `TradePage`: `OrderDesk`: `WalletLink` |
| `Library_proofs` | lemmas: induction over numbers and sets, sums, extremes; fractions and the formulas of the API's pool | `Fractions` |
| `MatchingEngine_proofs`, `OrderBookService_proofs`, `P2PBridge_proofs`, `TradePage_proofs` | theorems | the module they name |
| `OrderBookContract_proofs` | theorems about the contract and its subgraph | `IndexedBook` |
| `Contracts_proofs` | theorems about the wired contracts and the pool | `Exchange`, `LiquidityPool` |
| `FormerEngine_proofs` | theorems about the API's pool with its panels and its rate limit; about the former engine, its candles, spreads and pool | `FormerEngine`, `LiquidityPanels` |
| `MC...` | instances for TLC | the module they name, see section 4 |

Every definition that stands for code has its lines under `map` in
`PROJECT.json`. Some modules also hold mutants: variants of an operator, each
marked "Mutant of", that a plausible bug would give; no specification uses them.
They show that each property can fail.

### Market

Three variables (terms, fills, the live orders) and three actions: an order is
accepted, two live orders whose limits meet trade, an order leaves. It says
nothing of queues, prices paid or priority. `MatchingEngine`,
`OrderBookContract` and `FormerEngine` each map their state to it and state
`Market`'s specification as a property (`ImplementsMarket`,
`BookImplementsMarket`, `FormerImplementsMarket`). For the contract, live is
"neither filled, cancelled nor expired", so a block is a step of `Market` too.

### MatchingEngine

One call of `placeOrder` is a run of small steps, because its intermediate
states are where the code is delicate:

| Step | Code |
|---|---|
| `PlaceOrder`, `PlaceStop`, `PlaceStopThrows` | 27-51: the order object; parked, thrown, or `match()` begins with the snapshot of prices (75) |
| `EnterLevel`, `EndSweep` | 77-86: next price of the snapshot, or the end of the loop |
| `SkipMaker`, `Fill` | 87-119: one turn of the inner loop, with `checkStopOrders` after a fill |
| `CloseLevel` | 122-123: dead makers leave the level, an empty level its key |
| `EmitTrade` | 54: one trade is recorded and handed to the callback |
| `RestRemainder`, `CloseMarket`, `FinishFilled` | 56-61 |
| `CancelOrder` | 64-70, 151-155 |
| `SeedStart`, `SeedPlace`, `SeedEnd` | 203-212 |

All other operations wait for `phase = "idle"`, as JavaScript's run to completion
makes them. An array of the Maps is the set of its orders with a push time
(`stamp`): arrays are only appended to and filtered. The walk by index is the set
`visited` of makers already passed, so that an order pushed on the level during
the walk is still ahead. Keys of the Maps are kept in `levels`, apart from the
orders, because a key can outlive its last order. Prices and quantities are
integers; the engine never does more with them than compare, add and subtract.

### OrderBookService

Every step of the engine is a step here too; what the service does around it is
added where it happens: `Place` sets the taker of the running call and calls the
engine, `OnTrade` is the engine's callback up to the write of the maker,
`SaveTrade` the rest of it up to the write of the trade, `Returned` what follows
the engine's return, with the write of the taker. `Crash` may come between any
two of them; it keeps the two files and nothing else. `ReloadNext` is one turn of
`_reloadFromDb`; `mode` tells which part of the start runs, and no callback is
set before it is over. API ids are numbers in the order in which they were drawn,
which is the order of the store. `saveOrder` keeps the very object that the
service goes on changing; as each change is written at once, the copy in the
store and the file are one variable. `getTraderOrders` and `History` are the
queries behind the list of open orders and the history.

### OrderBookContract, Subgraph, IndexedBook

A transaction is atomic: while `_tryMatch` runs (`matching` is a pair) nothing
else is enabled. Reverting calls change nothing, so `require`s are guards. The
loop is one step per turn: `PruneBid`, `PruneAsk`, `Execute`, `EndMatch`. Order
ids are the counter they are hashed from; a signature is the message signed, kept
in `signed` once made and sendable by anybody at any later time; a commitment is
the order it hides. A block takes one unit of time, so `now` is both
`block.number` and `block.timestamp`. Whether a pair is active and whether a
settlement succeeds are left open: any outcome may occur.

A handler of the subgraph sees one event and its own store. `IndexedBook` runs
it with the step that emits the event, in the order of the events; a handler
reads nothing of the contract, so it does not matter how late it runs.

### Settlement, FeeManager, TokenRegistry, Exchange

One action per transaction. `Swap` makes the five balance updates of `_settle` in
their order, so that coinciding accounts behave as in the code. `FeeManager` is
one of the accounts of the escrow, and everything it does with the escrow is what
any holder may do. `Exchange` fills in what the book left open: a placement needs
an active pair, and `Execute` carries the result of `settleMatch` with the escrow
as it is. It begins when the script has deployed the contracts and listed the
pair; `Wire` sends the three remaining transactions, with anybody's transactions
before, between and after them, and the script may stop half way.

### LiquidityPool

One action per transaction, with the arithmetic of the code: every division
rounds down, `Sqrt` is Newton's method of `_sqrt`, and the locked shares are
those of `address(1)`. The pool keeps `reserve` apart from its balance `vault`,
because anybody may send it tokens (`Donate`); its shares are an ERC20 and may be
passed on (`TransferShares`). A subtraction below zero reverts in Solidity, which
is the guard `Minted(amount) \in Nat \ {0}` of the first deposit. Amounts are
unbounded integers: no product of the code overflows for amounts below 2^120.

### P2PNode, P2PBridge

The network is a set of messages, each with the nodes it may still reach:
`Receive` takes one, with a repeat or without, `Lose` drops one; who is connected
to whom is part of what gets lost. `Receive` is the whole inbound handler: rate
limit, seen-cache, store, answer to a sync request, callback. Orders keep their
payload, so an order is its id; the id of a message is a hash of its type and
payload, so it is the message. `P2PBridge` adds, for each server, the API's
service, its worker and the two pipes between them (`toApi`, `toWorker`, first in
first out). `ApiReceives` is the message handler of the parent with all the
listeners of pending calls, `WorkerReceives` that of the worker. `SetHooks` is what
`main.ts` does once `start` has resolved: messages taken up together with `STARTED`
come before it and find no hook. A worker may die
at any time. A node in `Direct` is a program that uses the package without the
API: only such a program cancels, reports fills and asks for a sync; every node
answers one.

### ApiAmm, LiquidityPanels

Amounts are exact fractions, with the infinities and NaN of a division by zero
(`Fractions`), so that a pool that was emptied behaves as in JavaScript. One
action per request: `Swap`, `AddLiquidity`, `RemoveLiquidity`, `HybridOrder` (the
rate limit, then the pool's part of a market order, whose part from the book is
an input). The order route rounds what it sends to the pool with `toFixed(8)`, up or
down: `toFixed` keeps multiples of 1/`Precision`, and may leave nothing to swap.
`Sound` is the guard of the pool's properties: reserves and shares are
positive and finite. The constants are finite numbers (`AmmAssumption`,
`PanelsAssumption`): so are the arguments of the constructor and whatever passes
the checks of the routes. A square root need not be a fraction: the constructor's
reserves, and the first deposit into an emptied pool, are restricted to amounts
whose product has one (`IsSquare`). In `LiquidityPanels` a panel has one request at a time
("Get Quote" is not disabled in the code: see section 7);
`Ask`, `Serve` or `Fail`, and `Answer` are separate steps, and so are the stream's
`Connect`, `Streamed` and `StreamBreaks`.

### Simulation, FormerEngine

`Simulation` is the ring of candles and the ring of spreads; a trade of the bot
widens the candle of its minute or closes it. The text of `lib/engine/simulation.ts`
is that of the API's simulation; `FormerEngine` composes it with the former book
(no stops, self-trades allowed, a call is a run of `Fill`s ended by `Return`) and
with the former pool, which is an instance of `ApiAmm` with its actions for
deposits and swaps; the swap of a tick has a positive amount, as the bot draws it.
Prices and quantities of the book are integers, the pool's are fractions: its unit is
`Grain` of the book's, so that a remainder of the book may round on its way to the
pool. The bot's prices are those of `getMidPrice` and `toFixed(2)`: the middle is
carried as its double (`MidTwice`), and a bid below a low middle may be zero or
negative. `SpreadPoints` takes best prices from the keys of the Maps as
`getSnapshot` does, and records 0 unless both are positive (`Spread`).

### WalletLink, OrderDesk, TradePage

Providers are `window.ethereum` and the extensions beside it; what a provider
sends arrives in the order it was sent (`MailArrives`). The badge asks once when
it mounts and then relies on events of `window.ethereum`; the dialog asks the
provider of the row clicked. `OrderDesk` has the form with the post under way and
the offer of a settlement, the settlements sent to the wallet, and the table with
its polls and cancellations. Switching the tab forgets what it hid, while its
requests go on (`formNo`, `tableNo` tell the mounts apart). A settlement always names
"anon", which ethers looks up in a name service before it sends anything; the model
lets it succeed (`Settled`) or fail (`SettleFails`), while without such a name only the
second can happen, so it allows more than most deployments do. The API is its orders
and three handlers; the rest of the market fills them at any time.

## 4. Runs

| Run | Module | Question | Bounds |
|---|---|---|---|
| `engine` | `MCMatchingEngine` | Limit, market and stop orders, cancellation, `seed()` on empty and on filled books: fills, crossing, priority, nothing lost, a `Market`, calls return | 4 orders, 2 traders and the market maker, prices 1 to 3, quantities 1 and 2, a ladder of 1 level |
| `service` | `MCOrderBookService` | Crashes between any two writes, reload and seed, with users and the bot | 5 engine orders for 3 API orders, 2 crashes, a ladder of 1 level |
| `book` | `MCOrderBookContract` | The contract with its subgraph: arrays, fills, expiry, pause, `matchOrder`, signed and committed orders, a `Market`, the loop ends | 4 orders, 3 blocks, a day of 2 blocks, 2 messages, 2 commitments |
| `contracts` | `MCExchange` | Book, escrow, fees, registry and deployment together; the escrow with rounding and overflow; the pool | 3 orders, 2 configuration changes; 3 accounts, 2 tokens, 2 settlements by hand; a pool of 2 accounts with 5 and 2 of each token |
| `p2p` | `MCP2PBridge` | A server, its worker and other nodes over a lossy, repeating network, with a sync that brings the server its own order | 3 nodes, 2 orders, 2 pending calls, a seen-cache of 2, a rate limit of 2, 1 repeat, 1 reset of the rates |
| `amm` | `MCLiquidityPanels` | The pool of the API under any requests, the panels over it, the rate limit, the former engine with its pool and its candles | a pool of 4 and 4 with fee 1/2, whole units after rounding, 3 operations, 1 broken stream; 2 requests per window of 1; 4 orders, a pool in units of 4, 1 pool call, rings of 1 and 2 minutes |
| `client` | `MCTradePage` | A page with MetaMask and a second extension, left and come back to | 2 accounts, 3 wallet operations, 2 orders, 4 clicks, 2 requests under way, 1 mishap |
| `engine_priority`, `engine_bestbid`, `service_trades`, `p2p_once`, `client_settle` | | findings, section 5 | those of the run they belong to |

**Kinds of behaviour.** Four MC modules split their behaviours into kinds, each
with its own bounds, so that one run answers questions that do not meet in the
code: `book` has direct orders of two traders, or signed and committed orders of
two others; `contracts` has the exchange, or settlements by hand, or the pool;
`amm` has requests, or panels, or the rate limit, or the former engine; `p2p` has
calls and a mortal worker, or gossip, or a sync that two nodes answer;
`client` has the wallet, or the form, or the
table. The split is a guard on the next step; a kind leaves the parts it does not
use in their initial state, and never holds up a step that fairness speaks of.

**Why the bounds are enough to be interesting.** Four orders are the least in
which a taker meets two makers at one level and one at another, or a stop is
activated by a first fill and stands before a second. Quantities 1 and 2 give
partial and full fills on either side. Three prices put a level between the best
and the limit. In `book` three blocks let an order expire before, while and after
others arrive, and give the index two days. The escrow has a scale and a fee
denominator of 2, so that quotes and fees round, and `MaxUint` 5, so that a product
overflows; the buyer and the seller have enough for some of their trades only.
In the on-chain pool 7 units of each token give even and uneven pools and
divisions that round in each of the formulas, as the mutants of each show. Two
crashes let a start be cut short and repeated, and an order filled before one
crash and again after it. In `p2p` three messages do not fit a cache of 2, so ids
are evicted, and the third message of a peer is over its rate; the third node
stores the order of the server and so can answer the other's sync with it. In `amm`
remainders of 3/2 and 1/4 are rounded up and to nothing; two
requests after the first deposit let a swap come between deposit and removal, and
a fee of 1/2 makes what it does twice large; the window of the rate limit ends
twice. In `client` two orders let the answer for one meet the offer of the other,
and two slots let an older poll overtake a cancellation.

All bounds (`MaxOrders`, `MaxUids`, `MaxPlaced`, `MaxCrashes`, `MaxTime`,
`MaxMinute`, `MaxCommits`, `MaxSigned`, `MaxSettled`, `MaxListings`,
`MaxOwnerCalls`, `MaxOps`, `MaxPoolCalls`, `MaxDrops`, `MaxRepeats`, `MaxResets`,
`MaxWalletOps`, `MaxClicks`, `MaxMishaps`, `Slots`) are constants that stop new
orders, blocks, calls or failures; what is running goes on to its end. `MaxSeen`,
`RateLimit`, `RateMax`, `RateWindow`, `MaxCandles`, `MaxSpreads` and `Precision` are
constants of the code with small values. Where the bounds stop a model for good, the cfg
says `CHECK_DEADLOCK FALSE`. Each property of a passing run has a mutant that TLC
refutes under the same cfg.

**Fairness.** Nobody has to make a call, place an order or mine a block. What is
assumed is that the machine goes on with what it has begun:

| Specification | Assumed | Because |
|---|---|---|
| `FairSpec` (engine) | a call that has begun and a running `seed()` go on | they are synchronous |
| `IndexedSpec` (book) | a transaction that has begun ends in its block | it does, or reverts |
| `FairService` | the process goes on with a call, with its writes and with a start | the same; a crash may still cut it short |
| `BridgeSpec` | pipes are read, timers fire | the event loop; the worker and the network owe nothing |
| `PanelsSpec` | a request is answered or fails, answers and events are taken up, the stream reconnects | browsers report a failed request; the hook's retry is a timer |
| `PageSpec` | a provider answers what needs no user, the interval of the table fires, the API answers what is not lost | as above; MetaMask's dialog may stay open for ever |

`CallsReturn` and `MatchReturns` say that loops end, which is a property of the
loops and not of fairness: without progress in a turn they fail (the mutants
`EndSweepLate`, `PruneNothing`).

### Properties worth a reader's time

* `NothingLost`, `BookInv` (contract), `EscrowInv`: what an order or an account has
  is the sum of all that happened to it, over every call, and a live order is
  where the code will look for it. `EventsTellAll` adds that the subgraph, which
  sees only events, says the same of every order, trade and day.
* `ArrivedPriority` (engine), `PriceTimePriority` (contract): the best order by
  price and arrival trades first, of all live ones, wherever the code keeps them.
* `TradesOnArrival`: whatever happens between placements leaves nothing to be
  matched; every trade is made by the order that just arrived. `NoTradeOnInactivePair`
  rests on it: it holds although the loop never asks the registry.
* `SettlementsAgree`: the escrow settles what the book executed, with rounding,
  failures and a deployment half done, within the limits of the orders.
* `ShareNeverShrinks`: the product of the reserves per square of the shares only
  grows, over deposits, withdrawals and swaps alike, so no round trip of one
  account is paid for by another. `PoolHolds` adds that the shares never exceed
  the geometric mean of the reserves, which rests on `_sqrt` rounding down, and
  that a quote is enough.
* `ServiceInv`: the engine, the API and the file agree on how much of an order is
  left, wherever the process died, and what a crash leaves can be placed again
  without a trade and in the old turn. It rests on the book of the run before
  being uncrossed and on every cancellation and fill being written before the
  next order. `FillsCoverTrades`, `ToldIsStored`, `HistoryIsFinal`: what is
  durable is never taken back.
* `HandedOnce`, `NoEcho`, `InboundPlaced`, `CallsSettle`: within its cache a node
  takes a message up once, an order never circulates between servers, what the
  worker hands over reaches the book once the hooks are set, and a call settles
  whoever's answer comes.
* `PoolIsFair`, `PositionsCover`: no request on the API's pool takes value from
  the shares of others, although the fee is added twice; and the loss calculator
  promises no position more than a removal would pay, except after a partial
  removal, whose position still remembers the whole deposit, and except after
  somebody removed more than was theirs, which the route lets them.
* `RateBound`: windows that start with a first request allow up to twice the limit
  in one window's length, and no more.
* `NeverOverfilled`: what the book filled and what the pool adds are never more than
  the quantity and `Slack`, half a unit of `toFixed` for each time the route rounds.
  Without the slack it is false: a remainder may be rounded up.
* `FormerAnswers`: the spreads the former engine records are real although its
  cancellations leave empty keys: a best level without quantity is not in the
  snapshot, so a tick records nothing rather than a wrong spread. What is recorded is
  the difference of the prices of two live orders, positive while both prices are,
  and 0 once one is not.
* `SettledTwiceOnlyIfCrossed`: a fill can be settled twice, but only if another
  settlement was under way beside its own. `OfferIsCurrent`: no late answer puts
  an old offer on the screen.
* `ScreenCatchesUp`, `TableCatchesUp`, `RevokedIsLeft`: after any late, lost or
  overtaken answer, screen and server come to agree.

## 5. Findings

| Run | Code | Against |
|---|---|---|
| `engine_priority` | a stop activated in a sweep rests at a better price than the next fill (`orderbook.ts:75,118`) | `README.md:37` price-time priority |
| `engine_bestbid` | `cancelOrder` leaves an empty level, and `getBestBid` reports its price (`orderbook.ts:154,195`) | the test "getBestBid returns highest bid" |
| `service_trades` | trades on file are not among those reported after a restart (`sqlite.ts:41`) | `README.md:45` "Orders and trades survive an API restart" |
| `p2p_once` | a node does not mark what it publishes, so a peer that answers a sync returns a server its own order, which is placed again (`node.ts:258`, `main.ts:213`) | `TASKS.md:133` three layers of P2P deduplication |
| `client_settle` | for a sell, `settle` exchanges a buyer and a seller that the form has already set, so the trader who sells is named as the buyer (`useSettlement.ts:37`) | the comment above it, "buyer pays USDC, seller delivers ETH" |

## 6. Proofs

Each theorem holds for all values of the constants that satisfy the assumptions
of its module: any sets of traders, accounts, prices, amounts and requests, any
bound on orders, calls, crashes or time. The theorems about the composed systems
are about the composed specifications.

| Module | Theorem | States |
|---|---|---|
| `MatchingEngine_proofs` | `Invariance` | `Spec => []EngineInv` |
| | `TypeCorrect`, `FillsCorrect`, `NeverCrossed` | `Spec => []TypeOK`, `[]FillsBounded`, `[]BookUncrossed` |
| | `PriorityKept` | `Spec => ArrivedPriority` |
| | `EngineIsAMarket` | `Spec => ImplementsMarket` |
| | `NothingIsLost` | `Spec => []NothingLost` |
| | `CallsComeToAnEnd`, `CallsGoOn` | `Spec => CallsEnd`, `[]CallGoesOn` |
| `OrderBookService_proofs` | `ServiceInvariance` | `ServiceSpec => []ServiceIInv` |
| | `ServiceAndEngineAgree` | `ServiceSpec => []ServiceInv` |
| | `NothingIsTakenBack`, `TradesAreCovered` | `ServiceSpec => []ToldIsStored`, `[]FillsCoverTrades` |
| | `HistoryKept` | `ServiceSpec => HistoryIsFinal` |
| `OrderBookContract_proofs` | `BookIsKept`, `NeverCrossed` | `ContractSpec => []BookInv`, `[]BookUncrossed` |
| | `PriorityKept`, `TradesComeWithOrders` | `ContractSpec => PriceTimePriority`, `TradesOnArrival` |
| | `BookIsAMarket` | `ContractSpec => BookImplementsMarket` |
| | `EachUsedOnce`, `EventsAreFills` | `ContractSpec => []UsedOnce`, `[]FilledIsExecuted` |
| | `LoopEnds` | `ContractSpec => TurnsEnd` |
| | `EventsTell` | `IndexedSpec => []EventsTellAll` |
| `Contracts_proofs` | `ExchangeIsABook` | `ExchangeSpec => ContractSpec` |
| | `EscrowKept`, `BookAndEscrowAgree` | `ExchangeSpec => []EscrowInv`, `[]SettlementsAgree` |
| | `PauseHolds`, `ClosedPairsRest` | `ExchangeSpec => PauseFreezes`, `NoTradeOnInactivePair` |
| | `PoolNeverDrained`, `PoolIsBacked` | `PoolSpec => []PoolTypeOK`, `[]PoolHolds` |
| | `SharesKeepTheirValue` | `PoolSpec => ShareNeverShrinks` |
| `P2PBridge_proofs` | `BridgeInvariance`, `BridgeTypes` | `BridgeSpec => []BridgeInv`, `[]BridgeTypeOK` |
| | `SeenKeepsOut`, `NothingEchoes` | `BridgeSpec => []HandedOnce`, `[]NoEcho` |
| `FormerEngine_proofs` | `FormerInvariance` | `FormerSpec => []FormerInv` |
| | `FormerIsAMarket` | `FormerSpec => FormerImplementsMarket` |
| | `CandlesAreRight` | `FormerSpec => []CandlesSummarise` |
| | `SpreadsHold`, `FormerAnswersHold` | `FormerSpec => SpreadsAreReal`, `FormerAnswers` |
| | `LimitHolds` | `PanelsSpec => []RateBound` |
| | `PoolStaysFair`, `NeverTooMuchFilled` | `PanelsSpec => PoolIsFair`, `NeverOverfilled` |
| | `PositionsStayCovered` | `PanelsSpec => []PositionsCover` |
| `TradePage_proofs` | `PageInvariance` | `PageSpec => [](WalletShape /\ DeskInv)` |
| | `OffersAreCurrent` | `PageSpec => []OfferIsCurrent` |
| | `OneSettlementEach` | `PageSpec => []SettledTwiceOnlyIfCrossed` |

**Sums and extremes.** Many properties speak of sums over sets: what was traded of
an order, what an account has, the supply of shares, the volume of a day. The
induction theorems of the library take an operator for a parameter, which the
provers cannot instantiate. `Library_proofs` does the induction once, over the
*set* of the numbers, or of the finite sets, of which the claim holds, by the
well-foundedness of `<` and of the strict subset relation, and gives lemmas whose
parameters are functions and sets: a sum over a finite set exists and is a number,
does not depend on the order of its elements, changes by the difference when one
weight changes (`SumAny`, `SumChange`), and is monotonic; a
recursion that descends reaches its end (`DescentEnds`); `Max` and `Min` of a finite set are its
extremes. Every proof about a sum below cites these.

**Engine.** `BookUncrossed` is not inductive: that a remainder may rest depends on
the sweep having passed every level it could trade with. `EngineInv` says what a
sweep in progress has dealt with: what it still owes a visit (`Owed`, a live maker
of another trader that was there when the taker arrived) is at a price still in
`todo` or is in the level being walked and not yet passed (`SweepInv`); the taker
is in no array, and everything pushed since its arrival is a stop (`TakerInv`);
what rests has a push time before the clock and lies under a key of its Map
(`BookInv`). When the sweep ends, nothing owed is acceptable, which gives
`BookUncrossed` for the remainder; when a maker is filled, nothing owed stands
before it, which is `ArrivedPriority`. Each action has a lemma for each conjunct
it can disturb. `NothingLost` is inductive with `EngineInv`: a fill adds to the
fills of two orders and to one trade of both, every other action leaves both
sides of the equation alone or moves an order between the places it can be in.

`CallsEnd` is the part of `CallsReturn` that needs no fairness. `CallLeft` counts what
a call may still have to do, as one number: a price not yet entered costs a turn for
every order there may be, an order not yet passed in the level costs two, because it
may add a trade, and a trade not yet told costs one. It falls with every step, also
with a fill that pushes activated stops on the array being walked, because the walk
never comes back. `CallGoesOn` says that until then there is a step to take.

**Service.** `ServiceIInv` adds to `EngineInv` that the engine of the service is
never asked for a stop (`Quiet`: its book is the live orders, in the order of their
ids), and relates three records of an order: the engine's, the one in memory and
the one on file (`LinkInv`, `StoreInv`). The hard parts are the reload, for which
the open orders on file must not cross (`FileUncrossed`, the reason why no restart
trades) and be placed in their old turn (`TurnInv`, over the ids of engine and
API), and the write of a trade before that of its taker (`CoverInv`: the trades on
file of the order that is being placed add up to what was filled of it, which no
record says yet). A crash keeps the files, and `ServiceIInv` says enough of the
files alone to begin again.

**Contract.** `BookInv` is inductive, in four steps. An insertion by swapping keeps
an array sorted and keeps the order of what was there (`InsertFacts`,
`InsertSorted`): the new order stops behind the first one that it does not beat.
Only heads are removed, by a turn of the loop that finds them stale or filled
(`TailFacts`, `PopInv`, `PruneInv`), so an array keeps every order that can still
trade. Whatever crosses involves the order that has just arrived
(`OnlyArrivalCrosses`): before the placement nothing crossed, and a turn of the
loop adds nothing to an array. When the loop ends the heads do not cross, or an
array is empty, and by sortedness nothing crosses at all (`EndInv`), which is the
next placement's premise; `BookUncrossed` follows. `PriceTimePriority` comes from
sortedness and completeness together: an order that stood before a head and could
trade would be in the array and before its head (`HeadsFirst`). `TradesOnArrival`
is `OnlyArrivalCrosses` at the heads. Nothing is assumed of the registry or the
settlement, whose answers are left open. `TurnsEnd` is the part of `MatchReturns` that
needs no fairness: a trade takes the smaller remainder, so it fills one of its orders,
whose array gets shorter, like that of a stale head. `UsedOnce` needs that a message or
commitment that opened an order is marked, and that what is marked is never
unmarked (`UsedIInv`).

**Subgraph.** `IndexAgrees` gives every entity as a function of the contract, the
time of a trade included. It is inductive with `BookInv`: of the steps of the
contract only a placement, a trade or a cancellation changes what it speaks of
(`StepKinds`), and each emits the event of its handler. For a trade three things
meet: the timestamp of the younger order is that of the block, because the younger
order has just arrived (`TradeIsDated`, from `OnlyArrivalCrosses`); the handler's
own sums and its status rule give the contract's (`IndexTraded`); and the
summary of a day, its sum and its extremes, after one more trade is what `Widen`
makes of the summary before (`SummaryMore`).

**Exchange.** `ExchangeIsABook` lets every theorem about the book be used for the
exchange. `EscrowInv` equates what every account has with the sum of everything in
the logs; it is inductive together with shapes and `BookInv`, and each transaction
is a sequence of `Add`s, whose effect on a total is one lemma. For
`SettlementsAgree` the invariant relates the events of the two contracts index by
index, and bounds what a trader paid by a sum over its trades that each round down.
`NoTradeOnInactivePair` rests on `OnlyArrivalCrosses`: a cross is between
the order that has just arrived and an older one, and the pair was active when it
arrived, in this very transaction (`CrossedIsActive`).

**Pool.** `PoolTypeOK` is inductive only with the sum of the shares: nobody can burn
the last share because the lock's are never burned and all of them add up to the
supply. The argument for a share's value goes through the rounding:
`WithdrawnInProportion` and `MintedInProportion` say that a reserve falls by no
more and grows by no less than the shares do, `InProportion` multiplies the two;
`SwapKeepsProduct` says that what goes out leaves the product no smaller, for
every fee. That the shares never exceed the geometric mean needs that Newton's
method of `_sqrt` ends at or below the root, proved by its descent for all
arguments; that `getAmountIn` suffices is proved for all reserves.

**Fractions.** The amounts of the API's pool are pairs in lowest terms, with the
infinities and NaN. `Library_proofs` proves, by induction along Euclid's algorithm,
that `Gcd` divides both of its arguments and is a combination of them (`GcdIs`), so
that what `Reduce` leaves is in lowest terms; two numbers in lowest terms with the
same cross products are the same (`IsUnique`). `Is(x, n, d)` says that the number `x`
is worth n/d. The laws of `++`, `--`, `**`, `//` and `\prec` are stated in this form
for any n and d (`SumIs`, `ProductIs`, `QuotientIs`, `BelowIs`), so that a claim about
amounts becomes one about integers. `Closed` is what holds of NaN and the infinities
too: the operations stay among them and the numbers.

**API pool.** For a swap, what is paid out times what the reserve grew to is no more
than the other reserve times the amount (`SwapKeeps`); adding the fee once more only
helps. A deposit and a removal multiply reserves and shares by the same number
(`DepositKeeps`, `RemovalKeeps`). This gives `PoolIsFair` from any sound state.
`NeverOverfilled` needs no invariant but the types. `toFixed` moves a number by half a
unit at most (`FixedIs`, `RoundedUp`), a sell is rounded once, and a buy twice, the second time
at the spot price, by which it is divided back (`DividedBack`); and the spot price
gives a buy no more than what was paid in is worth (`GivesNoMore`, `NeverTooMuch`).
`toFixed` may leave nothing of a remainder, so the lemmas about a swap cover a swap
of nothing. `PositionsCover` needs an invariant. A position is carried as
what it was deposited for: its product is no more than what the shares issued for it
are entitled to (`Funded`). That is an equation at the deposit and is kept by every
step that does not lower the product per square of the shares (`StaysFunded`); and
at any price the square of what the loss formula gives is four times the deposit's
product times the price (`LossValueIs`), so that the comparison with what a removal
pays is the same claim again (`PromiseKept`). `PoolInv` adds that the shares of the pool never exceed those of
its start and of the positions. Both are conditional, as the property is: a removal that
is not compared with its position may leave the pool with fewer shares, negative
ones, or NaN for ever, and from then on nothing is promised. `PanelsInv` adds the
shape of what the panels send: a panel that divides by a reserve on show may ask for
an infinite amount or for NaN, which the formulas then take in.

**P2P.** `HandedOnce` speaks of a cache that forgets; `NodeInv` relates it to the
list of everything that was ever marked: the cache is its end, and the same
message is at least a cache apart (`IsEndOf`, `Spread`). `NoEcho` needs the
pipes and calls: what is on its way to a worker was placed at its own server and
is on its way once (`PipesOK`, `CallsOK`, `SentInv`).

**Former engine.** `FormerInv` is `EngineInv` without stops. `CandlesSummarise` is
about a recursion that feeds trades into candles one by one, proved by
induction along it with the summary of what has been fed (`Summed`). `RateBound`
quantifies over all windows of time; the witness that makes it inductive is a set
of window starts, more than a window apart, between which a wallet has never
more than its limit. For `SpreadsAreReal` the first key of a side that has
quantity left is that of its best live order (`FirstIsBest`): every live order is
under a key of its side, and the book is not crossed between calls, so a recorded
spread is positive while both prices are, and `Spread` is 0 otherwise. The pool
of `FormerAnswers` has no removals, so its reserves and
shares stay positive (`FormerPoolInv`), and the formulas are those of the API's pool.

**Trade page.** `DeskInv` says where an order can be: with the POST that placed it,
in the offer of the form, in calls of `settle`, or on chain. An order whose POST is
under way is nowhere else, so an answer offers it for the first time
(`PostsAgree`). An offer that is shown is not on chain and only this form settles
it (`OfferAgrees`). Of an order that did not cross another there is one call or one
transaction, and while there is a call the form that shows its offer is pending
(`CallsAgree`): that is why its button is not clicked twice. `crossed` is exactly
what breaks it: the answer of the other call ends `pending`. Nothing is assumed of
the wallet but that it answers with accounts (`WalletShape`).

**Refinements.** `MarketInit`, `MarketAccept`, `MarketRetire` and `MarketTrade` say
which step of `Market` an action is; everything else stutters (`StepMarket`). That
an activation or a seed never revives an order, and that a fill is between live
orders whose limits meet, comes from the invariants above. All three refinements
of `Market` are proved.

**Model-checked only.** Every invariant and every action property of the runs, and
every refinement, is the statement of a theorem. What is said under fairness
(`CallsReturn`, `MatchReturns`, `StartsUp`, `InboundPlaced`, `CallsSettle`,
`RevokedIsLeft`, `TableCatchesUp`, `ScreenCatchesUp`) needs `ENABLED`, which the provers
do not know, and stays with TLC (of `CallsReturn` and `MatchReturns` only that last
part: see `CallsEnd`, `TurnsEnd`); so do the five findings, which are counterexamples.

## 7. What is not modelled

* **Unused code**: `api/src/db/redis.ts`, `schema.sql`, and the AMM and simulation
  classes of `matching-engine`, copies of what the API has itself.
* **Factory**: one guard and one write. Donations to FeeManager, and the pool's
  `getImpermanentLoss`, which no state depends on.
* **I/O and views**: request parsing, GraphQL, sockets, metrics, the 24 h
  statistics, the subgraph's handler of settlement events (each is stored as it is).
* **Drawing**: the landing page with its animations, charts, the status bar, the
  pager of the history, the curve of the loss calculator, the chain id of the badge.
* **Build, CI and monitoring.**
* **Floating point.** Prices and quantities of the engines are integers, amounts of
  the API's pool exact fractions. In the code sums and differences of decimals may
  be off by a rounding error, which can leave an order open with a remainder near
  zero; the models have no such orders. The rounding that the code asks for, `toFixed`
  of the order routes, is modelled.
* **Quotes.** "Get Quote" may be pressed again while a quote is under way, and the
  answer that comes last is shown, not the last asked for. The model has one quote
  under way and keeps none on show.
* **External**: libp2p is a network that may lose, repeat and reorder; ERC20 tokens
  transfer what they are told, without fee or callback (all entry points are
  `nonReentrant`); wallets answer, refuse or keep silent.
* Gas, hash collisions and transfers of ownership.

## 8. Plan

What would add most next, in this order:

1. What `CallsEnd` and `TurnsEnd` are for the engine and the contract, for the start of
   the service and for the pending calls of the bridge: a number that every step
   lowers, so that only the fairness is left to TLC.
2. The panels over the pool: the quote on show and which question it answers.
