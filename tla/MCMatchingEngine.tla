-------------------------- MODULE MCMatchingEngine --------------------------
(***************************************************************************)
(* Small instances of MatchingEngine.                                      *)
(***************************************************************************)
EXTENDS MatchingEngine

Limit(s, p, q, t) == [side |-> s, type |-> "limit", price |-> p, stopPrice |-> 0,
                      quantity |-> q, trader |-> t]
Market(s, q, t) == [side |-> s, type |-> "market", price |-> 1, stopPrice |-> 0,
                    quantity |-> q, trader |-> t]
Stop(s, stop, p, q, t) == [side |-> s, type |-> "stop-limit", price |-> p,
                           stopPrice |-> stop, quantity |-> q, trader |-> t]

\* Limit and market orders of two traders, at crossing and non-crossing prices
\* and against the trader's own orders; and stop orders that trigger on the first
\* trade (buy) or on a fall of the price (sell), with limits better and worse than
\* the trigger, one of them without a trigger.
EngineRequests ==
  {Limit("buy", 1, 1, "a"), Limit("buy", 1, 2, "a"), Limit("buy", 2, 2, "a"),
   Limit("sell", 1, 1, "a"), Limit("sell", 1, 2, "b"), Limit("sell", 2, 1, "b"),
   Limit("buy", 2, 1, "b")}
    \cup {Market("buy", 2, "b"), Market("sell", 1, "a"),
          Stop("buy", 1, 2, 1, "a"), Stop("buy", 1, 1, 1, "a"), Stop("sell", 1, 1, 1, "b"),
          Stop("sell", 0, 2, 1, "b")}

\* Bids and a stop order with a better limit, and a taker of two of them.
PriorityRequests ==
  {Limit("buy", 1, 1, "a"), Stop("buy", 1, 2, 1, "a"), Limit("sell", 1, 2, "b")}

\* A bid to cancel.
QuoteRequests == {Limit("buy", 1, 1, "a"), Limit("buy", 2, 1, "a"), Limit("sell", 1, 1, "b")}
=============================================================================
