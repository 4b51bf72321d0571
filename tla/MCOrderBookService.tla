------------------------- MODULE MCOrderBookService -------------------------
(***************************************************************************)
(* Small instances of OrderBookService: two users, the bot and the         *)
(* market maker of the seed, whose ladder has one level on each side.      *)
(***************************************************************************)
EXTENDS OrderBookService

Ask(t, s, type, p, q) == [side |-> s, type |-> type, price |-> p, stopPrice |-> 0,
                          quantity |-> q, trader |-> t]

\* Orders that rest between the seed's, orders that take them, and a bid that
\* the seed's ask meets after a restart.
ServiceRequests ==
  {Ask("a", "buy", "limit", 2, 2), Ask("b", "buy", "limit", 2, 1),
   Ask("b", "sell", "limit", 2, 1), Ask("a", "buy", "limit", 3, 2),
   Ask("bot", "sell", "market", 1, 2), Ask("a", "sell", "stop-limit", 2, 1)}
=============================================================================
