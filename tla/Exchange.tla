------------------------------ MODULE Exchange ------------------------------
(***************************************************************************)
(* The contracts as packages/contracts scripts/deploy.ts puts them up and  *)
(* wires them together: OrderBook asks TokenRegistry whether a pair is     *)
(* active and calls Settlement.settleMatch for every match, swallowing its *)
(* failure; the fees go to FeeManager.  What each module leaves open about *)
(* the others is bound here.                                               *)
(*                                                                         *)
(* The contracts can be called as soon as they are there, so the script    *)
(* wires an exchange that may already trade, and may stop half way.        *)
(***************************************************************************)
EXTENDS OrderBookContract, FeeManager, TokenRegistry

CONSTANTS
  Base, Quote,     \* the tokens of the pair that is traded
  MaxOwnerCalls    \* bound: configuration transactions after the deployment

ASSUME ExchangeAssumption ==
  /\ Tokens = Assets /\ {Base, Quote} \subseteq Tokens
  /\ Traders \subseteq Accounts
  /\ Pairs \subseteq Tokens \X Tokens
  /\ MaxOwnerCalls \in Nat

VARIABLES
  wired,        \* transactions the script has wired the contracts with
  ownerCalls    \* configuration transactions so far

escrowSide == <<escrowVars, managerVars>>
calls == <<wired, ownerCalls>>
exchangeVars == <<contractVars, escrowSide, registryVars, calls>>

\* The script has deployed the contracts, and the owner has listed the pair.
ExchangeInit ==
  /\ ContractInit /\ EscrowInit /\ ManagerInit
  /\ tokenActive = [t \in Tokens |-> t \in {Base, Quote}] /\ tokenList = <<Base, Quote>>
  /\ pairActive = [p \in TokenPair |-> p = <<Base, Quote>>] /\ pairList = <<<<Base, Quote>>>>
  /\ wired = 0 /\ ownerCalls = 0

\* The three transactions of the wiring, each mined before the next is sent.
Wire ==
  /\ Idle /\ wired < 3 /\ wired' = wired + 1
  /\ \/ wired = 0 /\ SetFeeRecipient(Manager) /\ UNCHANGED contractVars
     \/ wired = 1 /\ SetAuthorizedOrderBook(TRUE) /\ UNCHANGED contractVars
     \/ wired = 2 /\ SetSettlement(TRUE) /\ UNCHANGED escrowVars
  /\ UNCHANGED <<managerVars, registryVars, ownerCalls>>

\* Mutant of PairChecked: the registry is not asked.
PairUnchecked == TRUE
\* _createOrder requires that the registry calls the pair active.
PairChecked == orderNonce' > orderNonce => IsPairActive(orders'[orderNonce'].pair)

\* A transaction of the book, or a turn of its loop that trades nothing.
BookCall ==
  /\ TurnOfLoop \/ TraderCall \/ NewBlock
  /\ PairChecked
  /\ UNCHANGED <<escrowSide, registryVars, calls>>

\* Does settleMatch succeed for the two heads?
HeadSettles(b, a) ==
  /\ settlementSet
  /\ IsPairActive(matching)
  /\ MatchSettles("book", orders[b].trader, orders[a].trader, matching[1], matching[2],
                  orders[a].price, MatchQty(b, a))

\* Mutant of SettleHeads: the trade is settled at the buyer's limit.
SettleHeadsAtBid(b, a) ==
  SettleMatch("book", orders[b].trader, orders[a].trader, matching[1], matching[2],
              orders[b].price, MatchQty(b, a))
\* Mutant of SettleHeads: all that is left of the bid is settled.
SettleWholeBid(b, a) ==
  SettleMatch("book", orders[b].trader, orders[a].trader, matching[1], matching[2],
              orders[a].price, Remaining(b))
SettleHeads(b, a) ==
  SettleMatch("book", orders[b].trader, orders[a].trader, matching[1], matching[2],
              orders[a].price, MatchQty(b, a))

\* The heads trade whether or not the settlement succeeds.
ExecuteAndSettle ==
  LET b == Head(Bids)  a == Head(Asks)
  IN /\ HeadsMeet
     /\ \/ HeadSettles(b, a) /\ SettleHeads(b, a) /\ Execute(TRUE)
        \/ ~HeadSettles(b, a) /\ Execute(FALSE) /\ UNCHANGED escrowVars
     /\ UNCHANGED <<managerVars, registryVars, calls>>

\* Anybody may use the escrow, and have the fees collected.
EscrowCall ==
  /\ Idle
  /\ \/ \E a \in Accounts \ {Manager} : HolderCall(a) /\ UNCHANGED managerVars
     \/ \E t \in Assets : CollectFees(t)
  /\ UNCHANGED <<contractVars, registryVars, calls>>

\* The owner changes the configuration of one of the contracts.
AdminCall ==
  /\ Idle /\ ownerCalls < MaxOwnerCalls
  /\ ownerCalls' = ownerCalls + 1
  /\ \/ OwnerCall /\ UNCHANGED <<escrowSide, registryVars>>
     \/ EscrowOwnerCall /\ UNCHANGED <<contractVars, managerVars, registryVars>>
     \/ ManagerOwnerCall /\ UNCHANGED <<contractVars, registryVars>>
     \/ RegistryNext /\ UNCHANGED <<contractVars, escrowSide>>
  /\ UNCHANGED wired

ExchangeNext == BookCall \/ ExecuteAndSettle \/ EscrowCall \/ AdminCall \/ Wire

ExchangeSpec == ExchangeInit /\ [][ExchangeNext]_exchangeVars
-----------------------------------------------------------------------------
(***************************************************************************)
(* Properties.                                                             *)
(***************************************************************************)
\* Nothing trades on a pair the registry does not call active, although the loop
\* never asks it: what was placed before the pair was closed is not crossed.
NoTradeOnInactivePair == [][IsTrade => IsPairActive(matching)]_exchangeVars

\* The escrow settles what the book executed and nothing else: the Settled events
\* of the book are its settled trades, in their order, with the parties, the
\* price and the quantity of the trade.
BookEvents == {i \in DOMAIN settledLog : settledLog[i].by = "book"}
SettledTrades == {i \in DOMAIN executed : executed[i].settled}
Earlier(S, i) == Cardinality({j \in S : j < i})
Agree(x, e) ==
  /\ e.buyer = orders[x.buy].trader /\ e.seller = orders[x.sell].trader
  /\ <<e.base, e.quote>> = orders[x.buy].pair
  /\ e.price = x.price /\ e.quantity = x.quantity
EventsAgree ==
  /\ Cardinality(BookEvents) = Cardinality(SettledTrades)
  /\ \A i \in SettledTrades, j \in BookEvents :
       Earlier(SettledTrades, i) = Earlier(BookEvents, j) => Agree(executed[i], settledLog[j])

\* What the book makes a trader pay stays within the limits of its orders: the
\* quote taken from its escrow, rounded trade by trade, is never more than what
\* its buy orders were filled is worth at their own prices.
TakenFrom(t) ==
  SumFunction([i \in BookEvents |->
                 IF settledLog[i].buyer = t
                 THEN QuoteAmount(settledLog[i].quantity, settledLog[i].price) ELSE 0])
BuysOf(t) == {o \in Placed : orders[o].trader = t /\ orders[o].side = "BUY"}
PaidWithinLimits ==
  \A t \in Traders :
    TakenFrom(t) <= SumFunction([o \in BuysOf(t) |-> QuoteAmount(filled[o], orders[o].price)])

\* Book and escrow agree on what was traded, and on what it may cost.
SettlementsAgree == EventsAgree /\ PaidWithinLimits
=============================================================================
