------------------------------- MODULE ApiAmm -------------------------------
(***************************************************************************)
(* The pool the API keeps in memory: engine/amm.ts, services/amm.service.ts*)
(* and routes/amm.ts, with what routes/orders.ts and the simulation do to  *)
(* it.  Every request runs to completion.                                  *)
(*                                                                         *)
(* Amounts are exact fractions, so a property holds of the code up to the  *)
(* rounding of its floating-point numbers; toFixed, which the order route  *)
(* calls, rounds as the code says.                                         *)
(***************************************************************************)
EXTENDS Fractions, Integers, Sequences, FiniteSetsExt, Functions

CONSTANTS
  Wallets,   \* wallets, "anon" for requests that name none
  InitialA, InitialB, Fee, \* arguments of the constructor
  Swaps,     \* amounts that are swapped
  Deposits,  \* pairs of amounts that are added
  Orders,    \* market orders: [side, quantity, filled], filled by the book
  Precision, \* 10^8: what toFixed(8) keeps is a multiple of 1 / Precision
  RateMax, RateWindow, \* RATE_MAX and RATE_WINDOW
  MaxOps,    \* bound: requests that change the pool
  MaxTime    \* bound: time

Tokens == {"A", "B"}
OtherToken(t) == IF t = "A" THEN "B" ELSE "A"

ASSUME AmmAssumption ==
  /\ IsFiniteSet(Wallets) /\ "anon" \in Wallets
  /\ IsFinite(InitialA) /\ IsFinite(InitialB) /\ Zero \prec InitialA /\ Zero \prec InitialB
  /\ IsSquare(InitialA ** InitialB)
  /\ IsFinite(Fee) /\ Zero \preceq Fee /\ Fee \prec One
  /\ \A a \in Swaps : IsFinite(a)
  /\ \A d \in Deposits : IsFinite(d[1]) /\ IsFinite(d[2])
  /\ \A o \in Orders : /\ o.side \in {"buy", "sell"} /\ IsFinite(o.filled) /\ IsFinite(o.quantity)
                       /\ Zero \preceq o.filled /\ o.filled \preceq o.quantity
  /\ Precision \in Nat \ {0}
  /\ RateMax \in Nat \ {0} /\ RateWindow \in Nat /\ MaxOps \in Nat /\ MaxTime \in Nat

VARIABLES
  reserve,        \* reserveA and reserveB
  totalLiquidity,
  lpPositions,    \* by wallet: its shares and its last deposit; history: what that issued
  rateLimits,     \* by wallet: count and windowStart
  time,
  ops,            \* requests so far
  granted,        \* history: the times of the orders let in, by wallet
  lastFill        \* history: the last market order and what the pool added

ammVars == <<reserve, totalLiquidity, lpPositions, ops, lastFill>>
rateVars == <<rateLimits, time, granted>>

NoPosition == [shares |-> Zero, entryReserveA |-> NaN, entryReserveB |-> NaN, issued |-> Zero]
NoRate == [count |-> 0, windowStart |-> 0]
NoFill == [side |-> "sell", quantity |-> Zero, filled |-> Zero, fromPool |-> Zero]

AmmInit ==
  /\ reserve = [t \in Tokens |-> IF t = "A" THEN InitialA ELSE InitialB]
  /\ totalLiquidity = SquareRoot(InitialA ** InitialB)
  /\ lpPositions = [w \in Wallets |-> NoPosition]
  /\ rateLimits = [w \in Wallets |-> NoRate]
  /\ time = 0 /\ granted = [w \in Wallets |-> <<>>]
  /\ ops = 0 /\ lastFill = NoFill

-----------------------------------------------------------------------------
\* engine/amm.ts

SpotPrice == reserve["B"] // reserve["A"]

\* quoteSwap: what a swap pays out.
AmountOut(amountIn, t) ==
  LET withFee == amountIn ** (One -- Fee) IN
  (reserve[OtherToken(t)] ** withFee) // (reserve[t] ++ withFee)

\* Mutant of Swapped: the fee is taken out of the reserve.
SwappedFeeOut(amountIn, t) ==
  [reserve EXCEPT ![t] = (@ ++ amountIn) -- ((Fee ++ Fee) ** amountIn),
                  ![OtherToken(t)] = @ -- AmountOut(amountIn, t)]
\* executeSwap: the fee, which amountIn contains, is added once more.
Swapped(amountIn, t) ==
  [reserve EXCEPT ![t] = (@ ++ amountIn) ++ (Fee ** amountIn),
                  ![OtherToken(t)] = @ -- AmountOut(amountIn, t)]

\* addLiquidity: of the two amounts, what fits the ratio of the reserves.
Actual(a, b) ==
  LET ratio == SpotPrice IN
  IF ~(Zero \prec reserve["A"] /\ Zero \prec reserve["B"]) THEN <<a, b>>
  ELSE IF b \prec a ** ratio THEN <<b // ratio, b>> ELSE <<a, a ** ratio>>

\* Mutant of SharesIssued: the amount offered counts, not the amount taken.
SharesOffered(a, b) ==
  IF totalLiquidity = Zero THEN SquareRoot(a ** b) ELSE (a // reserve["A"]) ** totalLiquidity
SharesIssued(a, b) ==
  LET actual == Actual(a, b) IN
  IF totalLiquidity = Zero THEN SquareRoot(actual[1] ** actual[2])
  ELSE (actual[1] // reserve["A"]) ** totalLiquidity

\* removeLiquidity: what shares are worth.
Share(t, shares) == (shares // totalLiquidity) ** reserve[t]

Square(x) == x ** x

\* Mutant of currentValueLP: a price that halved counts as one that doubled.
currentValueLPInverted(position) ==
  LET priceRatio == SpotPrice // (position.entryReserveB // position.entryReserveA)
      hold == (position.entryReserveA ** SpotPrice) ++ position.entryReserveB
  IN Square(hold) ** ((Frac(4, 1) // priceRatio) // Square(One ++ priceRatio))
\* calcImpermanentLoss: the square of the value it gives the deposit of a position;
\* the square of the loss factor, 2 sqrt(r) / (1 + r), is a fraction.
currentValueLP(position) ==
  LET priceRatio == SpotPrice // (position.entryReserveB // position.entryReserveA)
      hold == (position.entryReserveA ** SpotPrice) ++ position.entryReserveB
  IN Square(hold) ** ((Frac(4, 1) ** priceRatio) // Square(One ++ priceRatio))

-----------------------------------------------------------------------------
\* services/amm.service.ts

\* A position of so many shares after a deposit.
Position(shares, actual, issued) ==
  [shares |-> shares, entryReserveA |-> actual[1], entryReserveB |-> actual[2], issued |-> issued]

\* Mutant of Recorded: the last deposit is the position.
RecordedLast(w, shares, actual) ==
  [lpPositions EXCEPT ![w] = Position(shares, actual, shares)]
\* recordLPPosition: shares add up, the entry is that of the last deposit.
Recorded(w, shares, actual) ==
  [lpPositions EXCEPT ![w] = Position(@.shares ++ shares, actual, shares)]

\* removeLPPosition: never below 0, and gone at 0.
Released(w, shares) ==
  LET left == lpPositions[w].shares -- shares IN
  IF lpPositions[w] = NoPosition THEN lpPositions
  ELSE [lpPositions EXCEPT ![w] = IF left \preceq Zero THEN NoPosition ELSE [@ EXCEPT !.shares = left]]

-----------------------------------------------------------------------------
\* routes/amm.ts and the order route

Counted == ops < MaxOps /\ ops' = ops + 1

\* POST /amm/swap, and the swap of a tick of the simulation.
Swap(amountIn, t) ==
  /\ Counted /\ Zero \prec amountIn
  /\ reserve' = Swapped(amountIn, t)
  /\ UNCHANGED <<totalLiquidity, lpPositions, lastFill, rateVars>>

\* POST /amm/liquidity and /amm/liquidity/add; the minimums are not looked at.
\* Bound: amounts whose root is a fraction, when the pool is empty.
AddLiquidity(w, a, b) ==
  /\ Counted /\ Zero \prec a /\ Zero \prec b
  /\ LET actual == Actual(a, b) IN
     /\ totalLiquidity = Zero => IsSquare(actual[1] ** actual[2])
     /\ reserve' = [t \in Tokens |-> reserve[t] ++ IF t = "A" THEN actual[1] ELSE actual[2]]
     /\ lpPositions' = Recorded(w, SharesIssued(a, b), actual)
  /\ totalLiquidity' = totalLiquidity ++ SharesIssued(a, b)
  /\ UNCHANGED <<lastFill, rateVars>>

\* POST /amm/liquidity/remove: not compared with what the wallet has.
RemoveLiquidity(w, shares) ==
  /\ Counted /\ Zero \prec shares
  /\ reserve' = [t \in Tokens |-> reserve[t] -- Share(t, shares)]
  /\ totalLiquidity' = totalLiquidity -- shares
  /\ lpPositions' = Released(w, shares)
  /\ UNCHANGED <<lastFill, rateVars>>

\* Mutant of Allowed: a window is over as soon as its time has passed by one.
AllowedTwice(w) ==
  rateLimits[w] = NoRate \/ time > rateLimits[w].windowStart \/ rateLimits[w].count < RateMax
\* checkRateLimit: is there no window, is it over, or is it not full?
Allowed(w) ==
  \/ rateLimits[w] = NoRate \/ time - rateLimits[w].windowStart > RateWindow
  \/ rateLimits[w].count < RateMax

\* The record checkRateLimit leaves.
NextRate(w) ==
  IF rateLimits[w] = NoRate \/ time - rateLimits[w].windowStart > RateWindow
  THEN [count |-> 1, windowStart |-> time]
  ELSE [count |-> rateLimits[w].count + 1, windowStart |-> rateLimits[w].windowStart]

\* toFixed(8): the nearest multiple, and of two the one further from zero; what is
\* not a number stays so.
toFixed(x) ==
  IF IsNumber(x)
  THEN Frac(SignOf(x[1]) * ((2 * Abs(x[1]) * Precision + x[2]) \div (2 * x[2])), Precision)
  ELSE x

\* The unfilled part of a market order is swapped, a buy at the spot price, and is
\* rounded before: it may come out as more than is left, and as nothing.
PoolIn(o) ==
  LET unfilled == toFixed(o.quantity -- o.filled)
  IN IF o.side = "buy" THEN toFixed(unfilled ** SpotPrice) ELSE unfilled

\* Mutant of PoolFill: the whole quantity goes to the pool.
PoolFillWhole(o) ==
  IF o.side = "buy" THEN AmountOut(toFixed(o.quantity ** SpotPrice), "B") ELSE toFixed(o.quantity)
\* ethQty of the answer.
PoolFill(o) == IF o.side = "buy" THEN AmountOut(PoolIn(o), "B") ELSE PoolIn(o)

\* POST /orders, for a market order the book has filled in part.
HybridOrder(w, o) ==
  /\ Allowed(w)
  /\ rateLimits' = [rateLimits EXCEPT ![w] = NextRate(w)]
  /\ granted' = [granted EXCEPT ![w] = Append(@, time)]
  /\ IF o.filled \prec o.quantity
     THEN /\ Counted
          /\ reserve' = Swapped(PoolIn(o), IF o.side = "buy" THEN "B" ELSE "A")
          /\ lastFill' = [side |-> o.side, quantity |-> o.quantity, filled |-> o.filled,
                          fromPool |-> PoolFill(o)]
     ELSE UNCHANGED <<reserve, lastFill, ops>>
  /\ UNCHANGED <<totalLiquidity, lpPositions, time>>

Tick == /\ time < MaxTime /\ time' = time + 1
        /\ UNCHANGED <<ammVars, rateLimits, granted>>

-----------------------------------------------------------------------------
Positive(x) == IsNumber(x) /\ Zero \prec x
Sound == Positive(reserve["A"]) /\ Positive(reserve["B"]) /\ Positive(totalLiquidity)

\* No request takes value from those who stay in the pool: the product of the
\* reserves per square of the shares never falls, and only a swap moves the
\* price (executeSwap, addLiquidity, removeLiquidity).
PoolIsFair ==
  [][Sound /\ Sound' =>
       /\ LET growth == totalLiquidity' // totalLiquidity IN
          (growth ** growth) \preceq
            ((reserve["A"]' // reserve["A"]) ** (reserve["B"]' // reserve["B"]))
       /\ totalLiquidity' # totalLiquidity => SpotPrice' = SpotPrice]_ammVars

SharesKnown ==
  FoldFunctionOnSet(++, SquareRoot(InitialA ** InitialB), [w \in Wallets |-> lpPositions[w].shares], Wallets)

\* What a position would be paid, counted in the second token.
Worth(position) == (Share("A", position.shares) ** SpotPrice) ++ Share("B", position.shares)

\* As long as the shares of the pool are a number, they are those it started with
\* and those of the positions, or fewer, when somebody removed more than its
\* position.  As long as nobody has,
\* the loss calculator never promises a position more than a removal would pay it,
\* whatever was swapped and deposited in between; but a position that is smaller
\* than the deposit it remembers is told the worth of the whole deposit
\* (recordLPPosition, removeLPPosition, calcImpermanentLoss).
PositionsCover ==
  IsNumber(totalLiquidity) =>
  /\ ~(SharesKnown \prec totalLiquidity)
  /\ SharesKnown = totalLiquidity =>
       \A w \in Wallets :
         LET position == lpPositions[w]
         IN position # NoPosition /\ position.issued \preceq position.shares
              => currentValueLP(position) \preceq Square(Worth(position))

\* What rounding adds to an order at most: half a unit of toFixed, and for a buy
\* what the pool gives for half a unit of the second token.
Half == Frac(1, 2 * Precision)
Slack(side) == IF side = "buy" THEN Half ++ (Half // SpotPrice) ELSE Half

\* Whatever the price impact, book and pool together give a market order no more
\* than it asks for and what its amounts were rounded up by (the order route).
NeverOverfilled ==
  [][Sound /\ lastFill' # lastFill =>
       (lastFill'.filled ++ lastFill'.fromPool)
         \preceq (lastFill'.quantity ++ Slack(lastFill'.side))]_ammVars

\* However the windows fall, no time of one window's length sees more than two
\* windows' worth of orders of a wallet (checkRateLimit).
RateBound ==
  \A w \in Wallets : \A i, j \in DOMAIN granted[w] :
    j - i >= 2 * RateMax => granted[w][j] - granted[w][i] > RateWindow
=============================================================================
