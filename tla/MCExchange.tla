----------------------------- MODULE MCExchange -----------------------------
(***************************************************************************)
(* Small instances of the contracts: an exchange with a buyer and a seller *)
(* who have enough escrow for some of their trades; the escrow by itself,  *)
(* settling between any two accounts and tokens; and a pool of two         *)
(* providers.  A behaviour is about one of the three.                      *)
(***************************************************************************)
EXTENDS Exchange, LiquidityPool

ThePair == <<"base", "quote">>
ThePairs == {ThePair}

Wallets == [a \in Accounts |->
              [t \in Assets |-> IF a = "a" /\ t = "quote" THEN 2
                                ELSE IF a = "b" /\ t = "base" THEN 2 ELSE 0]]

Submit(t, s, price, quantity) ==
  [trader |-> t, pair |-> ThePair, side |-> s, type |-> "LIMIT", price |-> price,
   quantity |-> quantity, expiry |-> 0]

ExchangeSubmissions ==
  {Submit("a", "BUY", 3, 2), Submit("a", "BUY", 2, 1),
   Submit("b", "SELL", 2, 2), Submit("b", "SELL", 2, 1)}

Purses == [p \in Providers |-> [c \in Coin |-> IF p = "p" THEN 5 ELSE 2]]

AsDeployed == escrowConfig = <<InitialFeeBps, Deployer, FALSE, FALSE>>
Untraded == Idle /\ wired = 0 /\ orderNonce = 0 /\ ownerCalls = 0
PoolUntouched == purse = InitialPurse /\ supply = 0 /\ ~poolPaused
SettledBy(who) == \A i \in DOMAIN settledLog : settledLog[i].by = who

\* The owner's transactions come after the script's, two of them with two orders.
TheExchange ==
  /\ SettledBy("book") /\ (Untraded => AsDeployed)
  /\ ExchangeNext
  /\ wired' < 3 => ownerCalls' = 0
  /\ ownerCalls' = 2 => orderNonce' <= 2

\* Settlements by hand, of trades that are not the manager's.
TheEscrow ==
  /\ Untraded /\ SettledBy("owner")
  /\ EscrowNext
  /\ SettledBy("owner")' /\ Len(settledLog') <= 2
  /\ \A i \in DOMAIN settledLog' : Manager \notin {settledLog'[i].buyer, settledLog'[i].seller}
  /\ UNCHANGED <<contractVars, managerVars, registryVars, calls>>

ThePool ==
  /\ Untraded /\ AsDeployed /\ wallet = InitialWallet /\ settledLog = <<>>
  /\ PoolNext

MCNext ==
  \/ PoolUntouched /\ (TheExchange \/ TheEscrow) /\ UNCHANGED poolVars
  \/ ThePool /\ UNCHANGED exchangeVars
MCInit == ExchangeInit /\ PoolInit
MCSpec == MCInit /\ [][MCNext]_<<exchangeVars, poolVars>>
=============================================================================
