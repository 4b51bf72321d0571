---------------------------- MODULE MCTradePage -----------------------------
(***************************************************************************)
(* A trade page with MetaMask and a second extension.                      *)
(***************************************************************************)
EXTENDS TradePage

Flags == {"isMetaMask"}
Beside == {"okx"}

\* Bound, three kinds of runs: the wallet alone; the form, left and come back to;
\* and the table.  None of them holds up a step that is assumed to be fair.
WalletTried == book' = <<>> /\ posts' = {} /\ clicks' = 0
FormTried == account'["okx"] = None /\ walletOps' = 0 /\ tab' # "orders" /\ tableNo' = 0
TableTried ==
  /\ asked' = {} \/ (book' = <<>> /\ posts' = {})
  /\ account'["okx"] = None /\ walletOps' <= 1 /\ tab' # "amm" /\ clicks' <= 2
  /\ settles' = {} /\ chain' = <<>> /\ \A p \in posts' : p.side = "buy"
  /\ \A o \in DOMAIN book' : book'[o].side = "buy"
  /\ IF clicks' = 0 THEN walletOps' = 0 ELSE posts' = {} /\ formNo' = 1
Scenario == WalletTried \/ FormTried \/ TableTried

MCPageSpec ==
  /\ PageInit /\ [][PageNext /\ Scenario]_pageVars
  /\ WF_pageVars(WalletAnswer /\ UNCHANGED deskVars)
  /\ WF_pageVars(fetchOrders /\ UNCHANGED walletVars)
  /\ \A s \in 1..Slots : WF_pageVars(TableAnswer(s) /\ UNCHANGED walletVars)
=============================================================================
