----------------------------- MODULE Settlement -----------------------------
(***************************************************************************)
(* packages/contracts contracts/Settlement.sol: the escrow of the traders' *)
(* tokens and the atomic swap of a matched trade, with a protocol fee.     *)
(*                                                                         *)
(* Each operation is one transaction; a require that fails is a guard.     *)
(* Whether the registry calls a pair active is left open here and bound in *)
(* module Exchange.  Tokens are ERC20 as contracts/test/MockERC20.sol: a   *)
(* transfer moves exactly its amount.                                      *)
(***************************************************************************)
EXTENDS Integers, Sequences, FiniteSets, Functions

CONSTANTS
  Accounts,        \* traders and fee recipients
  Assets,          \* ERC20 tokens held in escrow
  InitialWallet,   \* what each account owns of each token at the start
  Amounts,         \* amounts deposited and withdrawn
  Quantities,      \* base quantities of the owner's settlements
  Prices,          \* prices of the owner's settlements
  MinimumsOut,     \* minBaseOut and minQuoteOut of settleTrade, 0 for none
  Scale,           \* 1e18: the unit of a price
  SettlementDenominator, \* FEE_DENOMINATOR
  MaxFeeBps,       \* the cap of setFeeBps, 100
  FeeChoices,      \* values the owner asks setFeeBps for
  InitialFeeBps,   \* 30
  Recipients,      \* accounts setFeeRecipient is called with
  Deployer,        \* the feeRecipient of the constructor
  MaxUint,         \* the largest uint256
  MaxSettled       \* bound: trades settled in one run

ASSUME SettlementAssumption ==
  /\ InitialWallet \in [Accounts -> [Assets -> Nat]]
  /\ Amounts \subseteq Nat /\ Quantities \subseteq Nat /\ Prices \subseteq Nat
  /\ MinimumsOut \subseteq Nat /\ FeeChoices \subseteq Nat
  /\ Scale \in Nat \ {0} /\ SettlementDenominator \in Nat \ {0}
  /\ InitialFeeBps \in Nat /\ MaxFeeBps \in Nat
  /\ InitialFeeBps <= MaxFeeBps /\ MaxFeeBps <= SettlementDenominator
  /\ IsFiniteSet(Accounts) /\ Recipients \subseteq Accounts /\ Deployer \in Accounts
  /\ MaxSettled \in Nat

VARIABLES
  balances,        \* balances: escrow of an account in a token
  wallet,          \* ERC20 balance of an account
  held,            \* ERC20 balance of the contract
  feeBps,          \* feeBps
  feeRecipient,    \* feeRecipient
  bookAuthorized,  \* authorizedOrderBook is the order book
  escrowPaused,    \* Pausable
  settledLog       \* history: Settled events, with the caller and the recipient

funds == <<balances, wallet, held>>
escrowConfig == <<feeBps, feeRecipient, bookAuthorized, escrowPaused>>
escrowVars == <<funds, escrowConfig, settledLog>>

EscrowInit ==
  /\ balances = [a \in Accounts |-> [t \in Assets |-> 0]]
  /\ wallet = InitialWallet
  /\ held = [t \in Assets |-> 0]
  /\ feeBps = InitialFeeBps /\ feeRecipient = Deployer
  /\ bookAuthorized = FALSE /\ escrowPaused = FALSE
  /\ settledLog = <<>>

-----------------------------------------------------------------------------
Add(bal, a, t, d) == [bal EXCEPT ![a][t] = @ + d]

\* Mutant of Deposit: the pause is not looked at.
DepositPaused(a, t, n) ==
  /\ n > 0 /\ wallet[a][t] >= n
  /\ wallet' = Add(wallet, a, t, -n)
  /\ held' = [held EXCEPT ![t] = @ + n]
  /\ balances' = Add(balances, a, t, n)
  /\ UNCHANGED <<escrowConfig, settledLog>>
Deposit(a, t, n) ==
  /\ ~escrowPaused
  /\ n > 0 /\ wallet[a][t] >= n
  /\ wallet' = Add(wallet, a, t, -n)
  /\ held' = [held EXCEPT ![t] = @ + n]
  /\ balances' = Add(balances, a, t, n)
  /\ UNCHANGED <<escrowConfig, settledLog>>

\* Tokens go from the contract to the account.
PayOut(a, t, n) ==
  /\ wallet' = Add(wallet, a, t, n)
  /\ held' = [held EXCEPT ![t] = @ - n]

Withdraw(a, t, n) ==
  /\ ~escrowPaused
  /\ balances[a][t] >= n
  /\ balances' = Add(balances, a, t, -n)
  /\ PayOut(a, t, n)
  /\ UNCHANGED <<escrowConfig, settledLog>>

\* Mutant of ReleaseFunds: the balance is not cleared.
ReleaseKeeps(a, t) ==
  /\ balances[a][t] > 0
  /\ PayOut(a, t, balances[a][t])
  /\ UNCHANGED <<balances, escrowConfig, settledLog>>
\* releaseFunds: the owner returns an account's escrow, paused or not.
ReleaseFunds(a, t) ==
  /\ balances[a][t] > 0
  /\ balances' = [balances EXCEPT ![a][t] = 0]
  /\ PayOut(a, t, balances[a][t])
  /\ UNCHANGED <<escrowConfig, settledLog>>

-----------------------------------------------------------------------------
QuoteAmount(quantity, price) == (quantity * price) \div Scale
Fee(quantity, price) == (QuoteAmount(quantity, price) * feeBps) \div SettlementDenominator

\* Mutant of Settles: the seller's escrow is not looked at.
SettlesUnfunded(buyer, seller, base, quote, quantity, price, minBase, minQuote) ==
  /\ quantity * price <= MaxUint
  /\ balances[buyer][quote] >= QuoteAmount(quantity, price)
\* The require's of _settle, and the checked arithmetic before them.
Settles(buyer, seller, base, quote, quantity, price, minBase, minQuote) ==
  LET amount == QuoteAmount(quantity, price)
  IN /\ quantity * price <= MaxUint /\ amount * feeBps <= MaxUint
     /\ balances[buyer][quote] >= amount
     /\ balances[seller][base] >= quantity
     /\ minBase > 0 => quantity >= minBase
     /\ minQuote > 0 => amount - Fee(quantity, price) >= minQuote

\* Mutant of Moved: the seller is paid before the fee is taken.
MovedGross(buyer, seller, base, quote, quantity, price) ==
  LET amount == QuoteAmount(quantity, price)
  IN Add(Add(Add(Add(Add(balances, seller, base, -quantity), buyer, base, quantity),
                 buyer, quote, -amount), seller, quote, amount),
         feeRecipient, quote, Fee(quantity, price))
\* The five updates of _settle, one after the other.
Moved(buyer, seller, base, quote, quantity, price) ==
  LET amount == QuoteAmount(quantity, price)
      fee == Fee(quantity, price)
  IN Add(Add(Add(Add(Add(balances, seller, base, -quantity), buyer, base, quantity),
                 buyer, quote, -amount), seller, quote, amount - fee),
         feeRecipient, quote, fee)

Settle(by, buyer, seller, base, quote, quantity, price) ==
  /\ balances' = Moved(buyer, seller, base, quote, quantity, price)
  /\ settledLog' = Append(settledLog,
       [by |-> by, buyer |-> buyer, seller |-> seller, base |-> base, quote |-> quote,
        quantity |-> quantity, price |-> price, fee |-> Fee(quantity, price),
        recipient |-> feeRecipient])
  /\ UNCHANGED <<wallet, held, escrowConfig>>

\* settleTrade: the owner settles by hand, with slippage bounds.
SettleTrade(buyer, seller, base, quote, quantity, price, minBase, minQuote) ==
  /\ ~escrowPaused /\ Len(settledLog) < MaxSettled
  /\ Settles(buyer, seller, base, quote, quantity, price, minBase, minQuote)
  /\ Settle("owner", buyer, seller, base, quote, quantity, price)

\* settleMatch, for a pair that the registry calls active.
Authorized(by) == by = "owner" \/ (by = "book" /\ bookAuthorized)
MatchSettles(by, buyer, seller, base, quote, price, quantity) ==
  /\ ~escrowPaused /\ Authorized(by)
  /\ Settles(buyer, seller, base, quote, quantity, price, 0, 0)
SettleMatch(by, buyer, seller, base, quote, price, quantity) ==
  /\ MatchSettles(by, buyer, seller, base, quote, price, quantity)
  /\ Settle(by, buyer, seller, base, quote, quantity, price)

-----------------------------------------------------------------------------
\* The owner's configuration.
SetFeeBps(f) ==
  /\ f <= MaxFeeBps /\ feeBps' = f
  /\ UNCHANGED <<funds, feeRecipient, bookAuthorized, escrowPaused, settledLog>>
SetFeeRecipient(r) ==
  /\ feeRecipient' = r
  /\ UNCHANGED <<funds, feeBps, bookAuthorized, escrowPaused, settledLog>>
SetAuthorizedOrderBook(set) ==
  /\ bookAuthorized' = set
  /\ UNCHANGED <<funds, feeBps, feeRecipient, escrowPaused, settledLog>>
PauseEscrow ==
  /\ ~escrowPaused /\ escrowPaused' = TRUE
  /\ UNCHANGED <<funds, feeBps, feeRecipient, bookAuthorized, settledLog>>
UnpauseEscrow ==
  /\ escrowPaused /\ escrowPaused' = FALSE
  /\ UNCHANGED <<funds, feeBps, feeRecipient, bookAuthorized, settledLog>>

HolderCall(a) == \E t \in Assets, n \in Amounts : Deposit(a, t, n) \/ Withdraw(a, t, n)

EscrowOwnerCall ==
  \/ \E a \in Accounts, t \in Assets : ReleaseFunds(a, t)
  \/ \E f \in FeeChoices : SetFeeBps(f)
  \/ \E r \in Recipients : SetFeeRecipient(r)
  \/ \E set \in BOOLEAN : SetAuthorizedOrderBook(set)
  \/ PauseEscrow \/ UnpauseEscrow
  \/ \E buyer, seller \in Accounts, base, quote \in Assets, q \in Quantities, p \in Prices,
        minBase, minQuote \in MinimumsOut :
       SettleTrade(buyer, seller, base, quote, q, p, minBase, minQuote)

\* settleMatch called by the owner or by the book, for some active pair.
MatchCall ==
  /\ Len(settledLog) < MaxSettled
  /\ \E by \in {"owner", "book"}, buyer, seller \in Accounts, base, quote \in Assets,
        q \in Quantities, p \in Prices : SettleMatch(by, buyer, seller, base, quote, p, q)

EscrowNext == (\E a \in Accounts : HolderCall(a)) \/ EscrowOwnerCall \/ MatchCall
EscrowSpec == EscrowInit /\ [][EscrowNext]_escrowVars
-----------------------------------------------------------------------------
(***************************************************************************)
(* Properties.                                                             *)
(***************************************************************************)
\* Every variable keeps its shape; no balance ever falls below zero.
EscrowTypeOK ==
  /\ balances \in [Accounts -> [Assets -> Nat]]
  /\ wallet \in [Accounts -> [Assets -> Nat]] /\ held \in [Assets -> Nat]
  /\ feeBps \in 0..MaxFeeBps /\ feeRecipient \in Accounts
  /\ bookAuthorized \in BOOLEAN /\ escrowPaused \in BOOLEAN

Total(f, t) == SumFunctionOnSet([a \in Accounts |-> f[a][t]], Accounts)

\* The contract holds exactly what it owes, token by token, and no token is made
\* or lost, also when buyer, seller and fee recipient are the same account.
EscrowConserved ==
  \A t \in Assets : /\ Total(balances, t) = held[t]
                    /\ held[t] + Total(wallet, t) = Total(InitialWallet, t)

\* While the contract is paused the escrow is frozen, but for what the owner
\* returns in full to its holder.
PauseFreezes ==
  [][escrowPaused => \A a \in Accounts, t \in Assets :
       \/ balances'[a][t] = balances[a][t]
       \/ balances'[a][t] = 0 /\ wallet'[a][t] = wallet[a][t] + balances[a][t]
          /\ \A x \in Accounts, u \in Assets : <<x, u>> # <<a, t>>
                                                 => balances'[x][u] = balances[x][u]]_escrowVars
=============================================================================
