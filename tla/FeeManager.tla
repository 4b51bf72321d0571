----------------------------- MODULE FeeManager -----------------------------
(***************************************************************************)
(* packages/contracts contracts/FeeManager.sol: the account of the escrow  *)
(* the protocol fees are credited to.  It withdraws them as any trader     *)
(* would, and shares what it holds between the treasury and the providers. *)
(***************************************************************************)
EXTENDS Settlement

CONSTANTS
  Manager,        \* the address of the FeeManager
  Denominator,    \* DENOMINATOR, 10 000
  InitialShare,   \* treasuryShareBps of the constructor, 5 000
  ShareChoices,   \* values the owner asks setTreasuryShareBps for
  Beneficiaries   \* accounts the setters are called with

ASSUME FeeManagerAssumption ==
  /\ Manager \in Accounts /\ Manager # Deployer
  /\ Denominator \in Nat \ {0} /\ InitialShare \in 0..Denominator /\ ShareChoices \subseteq Nat
  /\ Beneficiaries \subseteq Accounts \ {Manager}

VARIABLES
  treasury, lpRewardPool, treasuryShareBps,
  totalCollected, totalDistributed,  \* by token
  shared   \* history: what distributions gave or took from a wallet

shareConfig == <<treasury, lpRewardPool, treasuryShareBps>>
managerVars == <<shareConfig, totalCollected, totalDistributed, shared>>

\* The script passes its own account as treasury and as reward pool.
ManagerInit ==
  /\ treasury = Deployer /\ lpRewardPool = Deployer /\ treasuryShareBps = InitialShare
  /\ totalCollected = [t \in Assets |-> 0] /\ totalDistributed = [t \in Assets |-> 0]
  /\ shared = [a \in Accounts |-> [t \in Assets |-> 0]]

-----------------------------------------------------------------------------
\* settlement.withdraw, which is refused while the escrow is paused.
CollectFees(t) ==
  LET amount == balances[Manager][t] IN
  /\ amount > 0 /\ Withdraw(Manager, t, amount)
  /\ totalCollected' = [totalCollected EXCEPT ![t] = @ + amount]
  /\ UNCHANGED <<shareConfig, totalDistributed, shared>>

ToTreasury(balance) == (balance * treasuryShareBps) \div Denominator

\* Mutant of Split: the providers get the whole amount.
SplitTwice(w, t, balance) ==
  Add(Add(Add(w, Manager, t, -balance), treasury, t, ToTreasury(balance)), lpRewardPool, t, balance)
\* The wallets after the manager has shared an amount.
Split(w, t, balance) ==
  Add(Add(Add(w, Manager, t, -balance), treasury, t, ToTreasury(balance)),
      lpRewardPool, t, balance - ToTreasury(balance))

Distribute(w, t) ==
  LET balance == w[Manager][t] IN
  /\ balance > 0
  /\ wallet' = Split(w, t, balance) /\ shared' = Split(shared, t, balance)
  /\ totalDistributed' = [totalDistributed EXCEPT ![t] = @ + balance]

DistributeFees(t) ==
  /\ Distribute(wallet, t)
  /\ UNCHANGED <<balances, held, escrowConfig, settledLog, shareConfig, totalCollected>>

CollectAndDistribute(t) ==
  LET amount == balances[Manager][t] IN
  /\ amount > 0 => ~escrowPaused
  /\ balances' = Add(balances, Manager, t, -amount)
  /\ held' = [held EXCEPT ![t] = @ - amount]
  /\ totalCollected' = [totalCollected EXCEPT ![t] = @ + amount]
  /\ Distribute(Add(wallet, Manager, t, amount), t)
  /\ UNCHANGED <<escrowConfig, settledLog, shareConfig>>

SetTreasury(a) ==
  /\ treasury' = a
  /\ UNCHANGED <<escrowVars, lpRewardPool, treasuryShareBps, totalCollected, totalDistributed, shared>>
SetLPRewardPool(a) ==
  /\ lpRewardPool' = a
  /\ UNCHANGED <<escrowVars, treasury, treasuryShareBps, totalCollected, totalDistributed, shared>>
SetTreasuryShareBps(n) ==
  /\ n <= Denominator /\ treasuryShareBps' = n
  /\ UNCHANGED <<escrowVars, treasury, lpRewardPool, totalCollected, totalDistributed, shared>>

ManagerOwnerCall ==
  \/ \E t \in Assets : DistributeFees(t) \/ CollectAndDistribute(t)
  \/ \E a \in Beneficiaries : SetTreasury(a) \/ SetLPRewardPool(a)
  \/ \E n \in ShareChoices : SetTreasuryShareBps(n)
-----------------------------------------------------------------------------
\* What a Settled event changes in the escrow of an account.
Credit(e, a, t) ==
    (IF a = e.buyer /\ t = e.base THEN e.quantity ELSE 0)
  - (IF a = e.seller /\ t = e.base THEN e.quantity ELSE 0)
  - (IF a = e.buyer /\ t = e.quote THEN QuoteAmount(e.quantity, e.price) ELSE 0)
  + (IF a = e.seller /\ t = e.quote THEN QuoteAmount(e.quantity, e.price) - e.fee ELSE 0)
  + (IF a = e.recipient /\ t = e.quote THEN e.fee ELSE 0)

\* The books balance: an account's escrow is what it paid in and did not take
\* out, and its side of every trade settled for it, fees included.  So every fee
\* the manager was ever credited is in its escrow, in its wallet, or shared out,
\* also what the owner of the escrow released to it behind its back.
LedgerReconciles ==
  \A a \in Accounts, t \in Assets :
    balances[a][t] = (InitialWallet[a][t] + shared[a][t] - wallet[a][t])
                     + SumFunction([i \in DOMAIN settledLog |-> Credit(settledLog[i], a, t)])

\* The totals the manager keeps tell how much of that left it; what was released
\* to it is the only fee it distributes without having collected it.
TotalsAgree ==
  \A t \in Assets : /\ shared[Manager][t] = -totalDistributed[t]
                    /\ totalCollected[t] <= totalDistributed[t] + wallet[Manager][t]

\* What holds of the escrow and of the fees whenever one looks.
EscrowInv == EscrowTypeOK /\ EscrowConserved /\ LedgerReconciles /\ TotalsAgree
=============================================================================
