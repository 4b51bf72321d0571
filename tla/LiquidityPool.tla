---------------------------- MODULE LiquidityPool ----------------------------
(***************************************************************************)
(* packages/contracts contracts/LiquidityPool.sol: the constant-product    *)
(* pool of two tokens, which is itself the ERC20 of its shares.            *)
(*                                                                         *)
(* Each operation is one transaction; a require that fails is a guard.     *)
(* The pool keeps its reserves apart from the tokens it holds, because     *)
(* anybody may send it tokens.  Amounts are far below 2^256, so that no    *)
(* product of the code overflows.                                          *)
(***************************************************************************)
EXTENDS Integers, FiniteSets, Functions

CONSTANTS
  Providers,        \* accounts that add, remove and swap
  InitialPurse,     \* what each of them owns of each token at the start
  Desired,          \* amounts offered to addLiquidity
  Burns,            \* amounts of shares given to removeLiquidity and to transfer
  Paid,             \* amounts paid into swap
  Minimums,         \* amountAMin, amountBMin, amountOutMin; 0 for none
  FeeBps,           \* FEE_BPS, 30
  FeeDenominator,   \* FEE_DENOMINATOR, 10 000
  MinimumLiquidity, \* MINIMUM_LIQUIDITY, 1000
  PriceScale,       \* 1e18, the unit of a recorded price
  Lock              \* address(1), which holds the locked shares

Coin == {"A", "B"}
Other(c) == IF c = "A" THEN "B" ELSE "A"
Holders == Providers \cup {Lock}

ASSUME PoolAssumption ==
  /\ InitialPurse \in [Providers -> [Coin -> Nat]]
  /\ Desired \subseteq Nat /\ Burns \subseteq Nat /\ Paid \subseteq Nat /\ Minimums \subseteq Nat
  /\ FeeBps \in Nat /\ FeeDenominator \in Nat /\ FeeBps < FeeDenominator
  /\ MinimumLiquidity \in Nat \ {0} /\ PriceScale \in Nat \ {0}
  /\ IsFiniteSet(Providers) /\ Lock \notin Providers

VARIABLES
  reserve,     \* reserveA and reserveB
  vault,       \* ERC20 balances of the pool
  purse,       \* ERC20 balances of the accounts
  shares,      \* the pool's own ERC20: balanceOf
  supply,      \* totalSupply
  entryPrice,  \* entryPriceAperB: the price when the account last added liquidity
  poolPaused   \* Pausable

poolVars == <<reserve, vault, purse, shares, supply, entryPrice, poolPaused>>

PoolInit ==
  /\ reserve = [c \in Coin |-> 0] /\ vault = [c \in Coin |-> 0]
  /\ purse = InitialPurse
  /\ shares = [h \in Holders |-> 0] /\ supply = 0
  /\ entryPrice = [p \in Providers |-> 0]
  /\ poolPaused = FALSE

-----------------------------------------------------------------------------
\* Tokens move between an account and the pool: safeTransferFrom, safeTransfer.
Pays(p, amount) ==
  /\ \A c \in Coin : purse[p][c] >= amount[c]
  /\ purse' = [purse EXCEPT ![p] = [c \in Coin |-> purse[p][c] - amount[c]]]
  /\ vault' = [c \in Coin |-> vault[c] + amount[c]]

\* One turn of Newton's method, from z towards the square root of y.
Newton(y, z) == ((y \div z) + z) \div 2

\* Mutant of Sqrt: one turn of Newton's method is missing.
SqrtHigh(y) ==
  LET root[z \in Nat \ {0}] ==
        IF Newton(y, Newton(y, z)) < Newton(y, z) THEN root[Newton(y, z)] ELSE z
  IN IF y > 3 THEN root[(y \div 2) + 1] ELSE IF y # 0 THEN 1 ELSE 0

\* _sqrt: Newton's method, for as long as it descends.
Sqrt(y) ==
  LET root[z \in Nat \ {0}] == IF Newton(y, z) < z THEN root[Newton(y, z)] ELSE z
  IN IF y > 3 THEN root[(y \div 2) + 1] ELSE IF y # 0 THEN 1 ELSE 0

\* What addLiquidity takes of the amounts offered.
BFor(wantA) == (wantA * reserve["B"]) \div reserve["A"]
AFor(wantB) == (wantB * reserve["A"]) \div reserve["B"]
IsEmpty == reserve["A"] = 0 /\ reserve["B"] = 0
Taken(wantA, wantB) ==
  IF IsEmpty THEN [c \in Coin |-> IF c = "A" THEN wantA ELSE wantB]
  ELSE IF BFor(wantA) <= wantB THEN [c \in Coin |-> IF c = "A" THEN wantA ELSE BFor(wantA)]
  ELSE [c \in Coin |-> IF c = "A" THEN AFor(wantB) ELSE wantB]
WithinMinimums(wantA, wantB, minA, minB) ==
  IF IsEmpty THEN TRUE ELSE IF BFor(wantA) <= wantB THEN BFor(wantA) >= minB ELSE AFor(wantB) >= minA

\* Mutant of Minted: the larger of the two ratios counts.
MintedHigh(amount) ==
  IF supply = 0 THEN Sqrt(amount["A"] * amount["B"]) - MinimumLiquidity
  ELSE LET of(c) == (amount[c] * supply) \div reserve[c]
       IN IF of("A") < of("B") THEN of("B") ELSE of("A")

\* The shares minted for an amount of each token.
Minted(amount) ==
  IF supply = 0 THEN Sqrt(amount["A"] * amount["B"]) - MinimumLiquidity
  ELSE LET of(c) == (amount[c] * supply) \div reserve[c]
       IN IF of("A") < of("B") THEN of("A") ELSE of("B")

\* The price of A in B, as it is recorded for a provider.
PriceOf(r) == (r["B"] * PriceScale) \div r["A"]

AddLiquidity(p, wantA, wantB, minA, minB) ==
  LET amount == Taken(wantA, wantB)
      locked == IF supply = 0 THEN MinimumLiquidity ELSE 0
  IN /\ ~poolPaused
     /\ wantA > 0 /\ wantB > 0
     /\ WithinMinimums(wantA, wantB, minA, minB)
     /\ Minted(amount) \in Nat \ {0}  \* no underflow, and the require
     /\ Pays(p, amount)
     /\ shares' = [shares EXCEPT ![p] = @ + Minted(amount), ![Lock] = @ + locked]
     /\ supply' = supply + Minted(amount) + locked
     /\ reserve' = [c \in Coin |-> reserve[c] + amount[c]]
     /\ entryPrice' = [entryPrice EXCEPT ![p] = PriceOf(reserve')]
     /\ UNCHANGED poolPaused

\* Mutant of Withdrawn: rounded up.
WithdrawnUp(n) == [c \in Coin |-> (n * reserve[c] + supply - 1) \div supply]

\* What a number of shares is paid with.
Withdrawn(n) == [c \in Coin |-> (n * reserve[c]) \div supply]

RemoveLiquidity(p, n, minA, minB) ==
  LET amount == Withdrawn(n)
  IN /\ ~poolPaused
     /\ n > 0 /\ shares[p] >= n
     /\ supply > 0  \* or the division reverts
     /\ amount["A"] >= minA /\ amount["B"] >= minB
     /\ amount["A"] > 0 /\ amount["B"] > 0
     /\ shares' = [shares EXCEPT ![p] = @ - n]
     /\ supply' = supply - n
     /\ reserve' = [c \in Coin |-> reserve[c] - amount[c]]
     /\ Pays(p, [c \in Coin |-> 0 - amount[c]])
     /\ UNCHANGED <<entryPrice, poolPaused>>

-----------------------------------------------------------------------------
\* getAmountOut and getAmountIn.
AmountOut(n, in, out) ==
  LET net == n * (FeeDenominator - FeeBps)
  IN (out * net) \div (in * FeeDenominator + net)

\* Mutant of AmountIn: the unit that makes up for the rounding is missing.
AmountInDown(n, in, out) ==
  (in * n * FeeDenominator) \div ((out - n) * (FeeDenominator - FeeBps))
AmountIn(n, in, out) ==
  (in * n * FeeDenominator) \div ((out - n) * (FeeDenominator - FeeBps)) + 1

Swap(p, in, n, min) ==
  LET out == AmountOut(n, reserve[in], reserve[Other(in)])
      change == [c \in Coin |-> IF c = in THEN n ELSE 0 - out]
  IN /\ ~poolPaused
     /\ n > 0 /\ reserve["A"] > 0 /\ reserve["B"] > 0
     /\ out >= min /\ out < reserve[Other(in)]
     /\ Pays(p, change)
     /\ reserve' = [c \in Coin |-> reserve[c] + change[c]]
     /\ UNCHANGED <<shares, supply, entryPrice, poolPaused>>

-----------------------------------------------------------------------------
\* Shares and tokens are ERC20: an account may give shares to another, and may
\* send tokens to the pool's address.
TransferShares(p, q, n) ==
  /\ n > 0 /\ shares[p] >= n /\ p # q
  /\ shares' = [shares EXCEPT ![p] = @ - n, ![q] = @ + n]
  /\ UNCHANGED <<reserve, vault, purse, supply, entryPrice, poolPaused>>
Donate(p, c, n) ==
  /\ n > 0
  /\ Pays(p, [d \in Coin |-> IF d = c THEN n ELSE 0])
  /\ UNCHANGED <<reserve, shares, supply, entryPrice, poolPaused>>

PausePool ==
  /\ ~poolPaused /\ poolPaused' = TRUE
  /\ UNCHANGED <<reserve, vault, purse, shares, supply, entryPrice>>
UnpausePool ==
  /\ poolPaused /\ poolPaused' = FALSE
  /\ UNCHANGED <<reserve, vault, purse, shares, supply, entryPrice>>

PoolNext ==
  \/ \E p \in Providers :
       \/ \E a, b \in Desired, minA, minB \in Minimums : AddLiquidity(p, a, b, minA, minB)
       \/ \E n \in Burns, minA, minB \in Minimums : RemoveLiquidity(p, n, minA, minB)
       \/ \E c \in Coin, n \in Paid, min \in Minimums : Swap(p, c, n, min)
       \/ \E q \in Providers, n \in Burns : TransferShares(p, q, n)
       \/ \E c \in Coin, n \in Paid : Donate(p, c, n)
  \/ PausePool \/ UnpausePool

PoolSpec == PoolInit /\ [][PoolNext]_poolVars
-----------------------------------------------------------------------------
(***************************************************************************)
(* Properties.                                                             *)
(***************************************************************************)
\* Every variable keeps its shape; the pool can always pay its reserves; and it is
\* never drained once it is funded: it has reserves of both tokens as long as it
\* has shares.
PoolTypeOK ==
  /\ reserve \in [Coin -> Nat] /\ vault \in [Coin -> Nat]
  /\ purse \in [Providers -> [Coin -> Nat]]
  /\ shares \in [Holders -> Nat] /\ supply \in Nat
  /\ entryPrice \in [Providers -> Nat] /\ poolPaused \in BOOLEAN
  /\ \A c \in Coin : vault[c] >= reserve[c] /\ (supply > 0 <=> reserve[c] > 0)

\* Nobody but the lock can hold the last share.
SharesCovered == supply > 0 => \A p \in Providers : shares[p] < supply

\* No token and no share is made or lost, and the shares are backed by at least one
\* unit of the geometric mean of the reserves each.
Product == reserve["A"] * reserve["B"]
InPurses(bal, c) == SumFunctionOnSet([p \in Providers |-> bal[p][c]], Providers)
PoolConserved ==
  /\ \A c \in Coin : vault[c] + InPurses(purse, c) = InPurses(InitialPurse, c)
  /\ SumFunctionOnSet(shares, Holders) = supply
  /\ supply * supply <= Product /\ SharesCovered

\* A share never loses value: the product of the reserves per square of the shares
\* only grows, however deposits, withdrawals and swaps are rounded; so no round
\* trip takes out more than it put in.
ShareNeverShrinks == [][Product * supply' * supply' <= Product' * supply * supply]_poolVars

\* Paying what getAmountIn asks buys at least what was wanted, at all reserves.
QuotesCover ==
  \A c \in Coin : \A n \in 1..(reserve[Other(c)] - 1) :
    AmountOut(AmountIn(n, reserve[c], reserve[Other(c)]), reserve[c], reserve[Other(c)]) >= n

\* What the pool holds and what it quotes, whenever one looks.
PoolHolds == PoolConserved /\ QuotesCover
=============================================================================
