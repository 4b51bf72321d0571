----------------------------- MODULE TradePage ------------------------------
(***************************************************************************)
(* The trade page: the wallet and the right column, which meet in the      *)
(* store's wallet.                                                         *)
(***************************************************************************)
EXTENDS OrderDesk

pageVars == <<walletVars, deskVars>>

PageInit == WalletInit /\ DeskInit

PageNext ==
  \/ (WalletAnswer \/ WalletUser) /\ UNCHANGED deskVars
  \/ (DeskUser \/ DeskOutside \/ DeskAnswer \/ fetchOrders) /\ UNCHANGED walletVars
  \/ (\E s \in 1..Slots : TableAnswer(s)) /\ UNCHANGED walletVars

\* Providers answer what needs no user, the page hears what is sent to it, the
\* API answers what is not lost, and the interval of the table goes on firing.
\* Nobody has to click, and MetaMask need not answer.
PageSpec ==
  /\ PageInit /\ [][PageNext]_pageVars
  /\ WF_pageVars(WalletAnswer /\ UNCHANGED deskVars)
  /\ WF_pageVars(fetchOrders /\ UNCHANGED walletVars)
  /\ \A s \in 1..Slots : WF_pageVars(TableAnswer(s) /\ UNCHANGED walletVars)
=============================================================================
