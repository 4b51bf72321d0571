------------------------- MODULE MCLiquidityPanels --------------------------
(***************************************************************************)
(* A pool of 4 and 4 with a fee of one half, amounts of 1 and 2.  A        *)
(* behaviour is about the requests on the pool, about the panels, about    *)
(* the rate limit, or about the former engine, which shares nothing with   *)
(* them; a call of its pool has at most one order beside it.               *)
(***************************************************************************)
EXTENDS LiquidityPanels, FormerEngine

Whole(n) == Frac(n, 1)
MCFee == Frac(1, 2)
MCInitial == Whole(4)
MCTyped == {Whole(2)}
MCSwaps == {Whole(4)}
MCDeposits == {<<Whole(1), Whole(1)>>, <<Whole(4), Whole(1)>>}
Market(s, q, f) == [side |-> s, quantity |-> q, filled |-> f]
\* Remainders of 2, of 3/2, of 1/4 and of nothing, which toFixed takes to 2, 2, 0 and 0.
MCOrders == {Market("buy", Whole(2), Zero), Market("buy", Frac(5, 2), One),
             Market("sell", Frac(5, 2), One), Market("sell", Whole(2), Frac(7, 4)),
             Market("sell", Whole(2), Whole(2))}

Quiet == stream' = "closed" /\ wallet' = NoWallet /\ \A p \in Panels : panel'[p] = Idle
NoOrders == \A w \in Wallets : granted'[w] = <<>>

Scenario ==
  \/ Quiet /\ time' = 0 /\ ops' <= 2
  \/ Quiet /\ NoOrders /\ time' = 0
  \/ Quiet /\ ops' = 0
  \/ /\ NoOrders /\ time' = 0 /\ ops' <= 2 /\ (ops' # ops => panel' # panel)
     /\ Cardinality({p \in Panels : panel'[p] # Idle}) <= IF ops' = 2 THEN 1 ELSE 2

FormerUnused ==
  Len(orders) = 2 /\ taker = 0 /\ minute = 0 /\ book = {1, 2} /\ spreadHistory = <<>> /\ poolCalls = 0

\* The pool and its panels, or the former engine.
MCNext ==
  \/ FormerUnused /\ PanelsNext /\ Scenario /\ UNCHANGED <<formerVars, simVars>>
  \/ /\ time = 0 /\ ops = 0 /\ drops = 0
     /\ FormerNext /\ (poolCalls' > 0 => Len(orders') <= 3)
     /\ UNCHANGED panelVars /\ Quiet /\ NoOrders
MCInit == PanelsInit /\ FormerInit
MCPanelsSpec ==
  MCInit /\ [][MCNext]_<<panelVars, formerVars, simVars>> /\ PanelsFairness
=============================================================================
