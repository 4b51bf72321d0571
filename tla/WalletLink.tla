----------------------------- MODULE WalletLink -----------------------------
(***************************************************************************)
(* The wallet of the trade page: WalletConnect.tsx and WalletModal.tsx     *)
(* over the wallet extensions of the browser.  window.ethereum tells the   *)
(* page of account changes; the other injected providers are only asked.   *)
(* What a provider sends arrives in the order it was sent.                 *)
(***************************************************************************)
EXTENDS Integers, Sequences

CONSTANTS
  None,
  Accounts,
  EthFlags,      \* which of isMetaMask, ... window.ethereum sets
  Extensions,    \* providers injected beside window.ethereum
  MaxWalletOps   \* bound: what the user does in the page or the extensions

WalletId == {"metamask", "coinbase", "phantom", "rainbow", "brave", "okx"}
Providers == {"ethereum"} \cup Extensions

ASSUME WalletAssumption ==
  /\ EthFlags \subseteq {"isMetaMask", "isCoinbaseWallet", "isBraveWallet", "isRainbow"}
  /\ Extensions \subseteq {"coinbase", "phantom", "okx"}
  /\ Accounts # {} /\ None \notin Accounts /\ MaxWalletOps \in Nat

VARIABLES
  wallet,      \* the store's wallet: who orders are placed for
  address,     \* WalletConnect's address: who the badge shows
  modalOpen, connecting, \* the modal and the wallet it waits for
  modalNo,     \* which mounting of WalletModal
  account,     \* by provider: the account it grants this site
  asked,       \* requests the providers have not answered
  mail,        \* by provider: events and answers on their way to the page
  walletOps

walletVars == <<wallet, address, modalOpen, connecting, modalNo, account, asked, mail, walletOps>>

\* The flag by which a wallet is recognised in window.ethereum.
FlagOf == [metamask |-> "isMetaMask", coinbase |-> "isCoinbaseWallet",
           brave |-> "isBraveWallet", rainbow |-> "isRainbow"]
getProvider(id) ==
  IF /\ id \in DOMAIN FlagOf /\ FlagOf[id] \in EthFlags
     /\ id = "metamask" => EthFlags \cap {"isCoinbaseWallet", "isBraveWallet"} = {}
  THEN "ethereum" ELSE IF id \in Extensions THEN id ELSE None

\* The page is loaded: it listens, and asks for the accounts it may see.
WalletInit ==
  /\ wallet = None /\ address = None
  /\ modalOpen = FALSE /\ connecting = None /\ modalNo = 0
  /\ account \in [Providers -> {None, CHOOSE a \in Accounts : TRUE}]
  /\ asked = {[provider |-> "ethereum", kind |-> "accounts", modal |-> 0]}
  /\ mail = [p \in Providers |-> <<>>]
  /\ walletOps = 0

UserActs == walletOps < MaxWalletOps /\ walletOps' = walletOps + 1
Mail(kind, a, modal) == [kind |-> kind, account |-> a, modal |-> modal]
ChangeOf(p, a) == IF p = "ethereum" /\ a # account[p] THEN <<Mail("changed", a, 0)>> ELSE <<>>

-----------------------------------------------------------------------------
\* The extensions.

\* The user picks another account for the site, or withdraws it.
AccountChanges(p, a) ==
  /\ UserActs
  /\ a # account[p]
  /\ account' = [account EXCEPT ![p] = a]
  /\ mail' = [mail EXCEPT ![p] = @ \o ChangeOf(p, a)]
  /\ UNCHANGED <<wallet, address, modalOpen, connecting, modalNo, asked>>

\* eth_accounts is answered without the user; eth_requestAccounts too, once the
\* site has an account.
ProviderAnswers(r) ==
  /\ r.kind = "accounts" \/ account[r.provider] # None
  /\ asked' = asked \ {r}
  /\ mail' = [mail EXCEPT ![r.provider] = Append(@, Mail(r.kind, account[r.provider], r.modal))]
  /\ UNCHANGED <<wallet, address, modalOpen, connecting, modalNo, account, walletOps>>

UserGrants(r, a) ==
  /\ r.kind = "connect" /\ account[r.provider] = None /\ a # None
  /\ UserActs
  /\ asked' = asked \ {r}
  /\ account' = [account EXCEPT ![r.provider] = a]
  /\ mail' = [mail EXCEPT ![r.provider] =
       (@ \o ChangeOf(r.provider, a)) \o <<Mail("connect", a, r.modal)>>]
  /\ UNCHANGED <<wallet, address, modalOpen, connecting, modalNo>>

UserRefuses(r) ==
  /\ r.kind = "connect" /\ account[r.provider] = None
  /\ UserActs
  /\ asked' = asked \ {r}
  /\ mail' = [mail EXCEPT ![r.provider] = Append(@, Mail("connect", None, r.modal))]
  /\ UNCHANGED <<wallet, address, modalOpen, connecting, modalNo, account>>

-----------------------------------------------------------------------------
\* The page.

\* With an address the badge takes the place of the button and of the modal,
\* whose state is gone.
Badge(a) ==
  /\ address' = a
  /\ IF a # None /\ address = None
     THEN modalNo' = modalNo + 1 /\ connecting' = None
     ELSE UNCHANGED <<modalNo, connecting>>

\* Mutant of accountsChanged: an empty list of accounts is skipped.
accountsChangedKept(a) ==
  IF a = None THEN UNCHANGED <<wallet, address, modalOpen, connecting, modalNo>>
  ELSE Badge(a) /\ wallet' = a /\ UNCHANGED modalOpen
\* handleAccountsChanged.
accountsChanged(a) == Badge(a) /\ wallet' = a /\ UNCHANGED modalOpen

\* The answer to eth_accounts: only a list that is not empty counts.
accountsRead(a) ==
  IF a = None THEN UNCHANGED <<wallet, address, modalOpen, connecting, modalNo>>
  ELSE Badge(a) /\ wallet' = a /\ UNCHANGED modalOpen

\* handleConnect after its await: the store has the account, the badge has not.
Connected(m) ==
  /\ IF m.account # None THEN wallet' = m.account /\ modalOpen' = FALSE
     ELSE UNCHANGED <<wallet, modalOpen>>
  /\ connecting' = IF m.modal = modalNo THEN None ELSE connecting
  /\ UNCHANGED <<address, modalNo>>

MailArrives(p) ==
  /\ mail[p] # <<>>
  /\ mail' = [mail EXCEPT ![p] = Tail(@)]
  /\ LET m == Head(mail[p]) IN
     \/ m.kind = "changed" /\ accountsChanged(m.account)
     \/ m.kind = "accounts" /\ accountsRead(m.account)
     \/ m.kind = "connect" /\ Connected(m)
  /\ UNCHANGED <<account, asked, walletOps>>

\* What the user sees while there is no address: the button, and the modal.
OpenModal == /\ address = None /\ ~modalOpen /\ UserActs /\ modalOpen' = TRUE
             /\ UNCHANGED <<wallet, address, connecting, modalNo, account, asked, mail>>
CloseModal == /\ address = None /\ modalOpen /\ UserActs /\ modalOpen' = FALSE
              /\ UNCHANGED <<wallet, address, connecting, modalNo, account, asked, mail>>

\* The rows of the modal, detected or not, are disabled while one is connecting.
RowsEnabled == address = None /\ modalOpen /\ connecting = None

\* handleConnect up to its await; a wallet that is not there opens its web site.
handleConnect(id) ==
  /\ RowsEnabled
  /\ getProvider(id) # None
  /\ UserActs
  /\ connecting' = id
  /\ asked' = asked \cup {[provider |-> getProvider(id), kind |-> "connect", modal |-> modalNo]}
  /\ UNCHANGED <<wallet, address, modalOpen, modalNo, account, mail>>

BadgeShown == address # None

disconnect ==
  /\ BadgeShown /\ UserActs
  /\ Badge(None) /\ wallet' = None
  /\ UNCHANGED <<modalOpen, account, asked, mail>>

WalletAnswer ==
  \/ \E p \in Providers : MailArrives(p)
  \/ \E r \in asked : ProviderAnswers(r)
WalletUser ==
  \/ \E p \in Providers, a \in Accounts \cup {None} : AccountChanges(p, a)
  \/ \E r \in asked : UserRefuses(r) \/ \E a \in Accounts : UserGrants(r, a)
  \/ OpenModal \/ CloseModal \/ disconnect \/ \E id \in WalletId : handleConnect(id)

-----------------------------------------------------------------------------
\* An account that is withdrawn in window.ethereum does not stay on the badge,
\* whatever answers were under way when it was withdrawn (handleAccountsChanged,
\* the effect's eth_accounts).
RevokedIsLeft ==
  BadgeShown /\ account["ethereum"] = None
    ~> address = None \/ account["ethereum"] # None
=============================================================================
