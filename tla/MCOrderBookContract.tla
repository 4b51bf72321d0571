------------------------- MODULE MCOrderBookContract -------------------------
(***************************************************************************)
(* A small instance of IndexedBook.  A behaviour has up to four orders of  *)
(* "a" and "b", placed directly, with cancellations, expiries and pauses;  *)
(* or up to three of "c" and "d" that are signed, or committed and         *)
(* revealed.                                                               *)
(***************************************************************************)
EXTENDS IndexedBook

Submit(t, s, type, price, quantity, expiry) ==
  [trader |-> t, pair |-> "p", side |-> s, type |-> type, price |-> price,
   quantity |-> quantity, expiry |-> expiry]

DirectSubmissions ==
  {Submit("a", "BUY", "LIMIT", 2, 1, 2), Submit("a", "BUY", "LIMIT", 1, 2, 0),
   Submit("b", "SELL", "LIMIT", 1, 2, 0), Submit("b", "SELL", "LIMIT", 1, 1, 2),
   Submit("b", "SELL", "MARKET", 0, 1, 0)}
AuthSigned == {Submit("c", "BUY", "LIMIT", 1, 1, 2), Submit("d", "SELL", "LIMIT", 1, 1, 0)}
AuthHidden == {Submit("c", "BUY", "LIMIT", 1, 1, 3), Submit("c", "BUY", "LIMIT", 1, 0, 0)}

OneWay ==
  \/ minCommitBlocks' = 1 /\ signed' = {} /\ \A t \in Traders : commitLog'[t] = <<>>
  \/ orderNonce' < 4 /\ \A o \in 1..orderNonce' : orders'[o].trader \in {"c", "d"}

MCBookSpec == IndexedInit /\ [][IndexedNext /\ OneWay]_indexedVars
                /\ WF_contractVars(TurnOfLoop \/ SettleAttempt)
=============================================================================
