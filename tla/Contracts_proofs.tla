--------------------------- MODULE Contracts_proofs ---------------------------
(***************************************************************************)
(* Proofs about Exchange: the escrow, the fees, the registry and the book  *)
(* as they are wired together, for every set of accounts, tokens, pairs,   *)
(* orders and amounts, and any number of transactions; and about           *)
(* LiquidityPool, for all amounts and fees: the pool can pay its reserves  *)
(* and is never drained, no token and no share is made or lost, and a      *)
(* share never loses value.                                                *)
(***************************************************************************)
EXTENDS Exchange, LiquidityPool, OrderBookContract_proofs, Library_proofs

-----------------------------------------------------------------------------
(***************************************************************************)
(* Ledgers: what one entry changes, and the total of a token.              *)
(***************************************************************************)
Ledger == [Accounts -> [Assets -> Int]]
\* Ledger g is ledger f with d more in one entry.
Differs(g, f, a, t, d) ==
  \A x \in Accounts, u \in Assets : g[x][u] = f[x][u] + (IF x = a /\ u = t THEN d ELSE 0)

\* Add changes one entry of a ledger.
LEMMA AddFacts ==
  ASSUME NEW f \in Ledger, NEW a \in Accounts, NEW t \in Assets, NEW d \in Int
  PROVE  Add(f, a, t, d) \in Ledger /\ Differs(Add(f, a, t, d), f, a, t, d)
  <1>1. /\ f[a] \in [Assets -> Int] /\ f[a][t] + d \in Int
        /\ Add(f, a, t, d) = [f EXCEPT ![a][t] = @ + d]
    BY DEF Add, Ledger
  <1>2. [f[a] EXCEPT ![t] = @ + d] \in [Assets -> Int]
    BY <1>1
  <1>3. Add(f, a, t, d) = [f EXCEPT ![a] = [f[a] EXCEPT ![t] = @ + d]]
    BY <1>1 DEF Ledger
  <1>4. Add(f, a, t, d) \in Ledger
    BY <1>2, <1>3 DEF Ledger
  <1>5. ASSUME NEW x \in Accounts, NEW u \in Assets
        PROVE  Add(f, a, t, d)[x][u] = f[x][u] + (IF x = a /\ u = t THEN d ELSE 0)
    <2>1. f[x] \in [Assets -> Int] /\ f[x][u] \in Int
      BY DEF Ledger
    <2>2. CASE x = a
      BY <1>1, <1>3, <2>1, <2>2 DEF Ledger
    <2>3. CASE x # a
      BY <1>1, <1>3, <2>1, <2>3 DEF Ledger
    <2>4. QED
      BY <2>2, <2>3
  <1>6. QED
    BY <1>4, <1>5 DEF Differs

\* The column of a token in a ledger.
Column(f, u) == [x \in Accounts |-> f[x][u]]

\* A total is an integer, and natural when the entries are.
LEMMA TotalType ==
  ASSUME NEW f, NEW u \in Assets
  PROVE  /\ f \in Ledger => Total(f, u) \in Int
         /\ f \in [Accounts -> [Assets -> Nat]] => /\ Total(f, u) \in Nat
                                                  /\ \A x \in Accounts : f[x][u] <= Total(f, u)
  <1> DEFINE c == Column(f, u)
  <1>1. IsFiniteSet(Accounts) /\ Total(f, u) = SumFunctionOnSet(c, Accounts)
    BY SettlementAssumption DEF Total, Column
  <1>2. \A x \in Accounts : c[x] = f[x][u]
    BY DEF Column
  <1>3. (f \in Ledger => IntOn(c, Accounts))
        /\ (f \in [Accounts -> [Assets -> Nat]] => NatOn(c, Accounts))
    BY <1>2 DEF Ledger, IntOn, NatOn
  <1> HIDE DEF c
  <1>4. f \in Ledger => Total(f, u) \in Int
    BY <1>1, <1>3, SumInt
  <1>5. f \in [Accounts -> [Assets -> Nat]] => Total(f, u) \in Nat
    BY <1>1, <1>3, SumNat
  <1>6. ASSUME f \in [Accounts -> [Assets -> Nat]], NEW x \in Accounts
        PROVE  f[x][u] <= Total(f, u)
    <2>1. NatOn(c, Accounts)
      BY <1>3, <1>6
    <2>2. c[x] <= SumFunctionOnSet(c, Accounts)
      BY <1>1, <2>1, SumOfOne
    <2>3. QED
      BY <1>1, <1>2, <2>2
  <1>7. QED
    BY <1>4, <1>5, <1>6

\* One entry more changes the total of its token, and of no other.
LEMMA TotalAdd ==
  ASSUME NEW f \in Ledger, NEW g \in Ledger, NEW a \in Accounts, NEW t \in Assets, NEW d \in Int,
         Differs(g, f, a, t, d), NEW u \in Assets
  PROVE  Total(g, u) = Total(f, u) + (IF u = t THEN d ELSE 0)
  <1> DEFINE c == Column(f, u)
             e == Column(g, u)
  <1>1. IsFiniteSet(Accounts) /\ Total(f, u) = SumFunctionOnSet(c, Accounts)
        /\ Total(g, u) = SumFunctionOnSet(e, Accounts)
    BY SettlementAssumption DEF Total, Column
  <1>2. \A x \in Accounts : c[x] = f[x][u] /\ e[x] = g[x][u] /\ c[x] \in Int /\ e[x] \in Int
    BY DEF Column, Ledger
  <1>3. e[a] = c[a] + (IF u = t THEN d ELSE 0) /\ c[a] \in Int /\ e[a] \in Int
    BY <1>2 DEF Differs
  <1>4. \A x \in Accounts \ {a} : e[x] = c[x]
    BY <1>2 DEF Differs
  <1>5. IntOn(c, Accounts) /\ IntOn(e, Accounts) /\ SameOn(c, e, Accounts \ {a})
    BY <1>2, <1>4 DEF IntOn, SameOn
  <1> HIDE DEF c, e
  <1>6. SumFunctionOnSet(e, Accounts) = SumFunctionOnSet(c, Accounts) + (e[a] - c[a])
    BY <1>1, <1>5, SumChange
  <1>7. SumFunctionOnSet(c, Accounts) \in Int
    BY <1>1, <1>5, SumInt
  <1>8. QED
    BY <1>1, <1>3, <1>6, <1>7

-----------------------------------------------------------------------------
(***************************************************************************)
(* The books of the escrow.                                                *)
(***************************************************************************)
SettledEvent == [by: {"owner", "book"}, buyer: Accounts, seller: Accounts, base: Assets,
                 quote: Assets, quantity: Nat, price: Nat, fee: Nat, recipient: Accounts]
Purse == [Accounts -> [Assets -> Nat]]
CreditSum(log, a, t) == SumFunction([i \in DOMAIN log |-> Credit(log[i], a, t)])

\* The sums of EscrowConserved and LedgerReconciles for any ledgers and log.
Sound(bal, wal, hel, sh, log) ==
  /\ bal \in Purse /\ wal \in Purse /\ hel \in [Assets -> Nat] /\ sh \in Ledger
  /\ log \in Seq(SettledEvent)
  /\ \A t \in Assets : Total(bal, t) = hel[t] /\ hel[t] + Total(wal, t) = Total(InitialWallet, t)
  /\ \A a \in Accounts, t \in Assets :
       bal[a][t] = (InitialWallet[a][t] + sh[a][t] - wal[a][t]) + CreditSum(log, a, t)

\* A quotient by a positive number is natural.
LEMMA Quotient ==
  ASSUME NEW n \in Nat, NEW d \in Nat \ {0}
  PROVE  n \div d \in Nat /\ d * (n \div d) <= n /\ n < d * (n \div d) + d
  OBVIOUS

\* A share of an amount is not more than the amount.
LEMMA ShareOf ==
  ASSUME NEW n \in Nat, NEW k \in Nat, NEW d \in Nat \ {0}, k <= d
  PROVE  (n * k) \div d \in Nat /\ (n * k) \div d <= n
  <1>1. n * k \in Nat /\ n * k <= n * d
    OBVIOUS
  <1> DEFINE q == (n * k) \div d
  <1>2. q \in Nat /\ d * q <= n * k
    BY <1>1, Quotient
  <1> HIDE DEF q
  <1>3. d * q <= n * d
    BY <1>1, <1>2
  <1>4. q <= n
    <2> SUFFICES ASSUME q >= n + 1 PROVE FALSE
      BY <1>2
    <2>1. d * q >= d * (n + 1)
      BY <1>2
    <2>2. d * (n + 1) = n * d + d
      OBVIOUS
    <2>3. d * q \in Nat /\ n * d \in Nat
      BY <1>2
    <2>4. QED
      BY <1>3, <2>1, <2>2, <2>3
  <1>5. QED
    BY <1>2, <1>4 DEF q

\* A natural ledger is a ledger.
LEMMA PurseLedger == Purse \subseteq Ledger
  BY DEF Purse, Ledger

\* What an event credits is an integer.
LEMMA CreditType ==
  ASSUME NEW e \in SettledEvent, NEW a, NEW t
  PROVE  QuoteAmount(e.quantity, e.price) \in Nat /\ Credit(e, a, t) \in Int
  <1>1. e.quantity \in Nat /\ e.price \in Nat /\ e.fee \in Nat
    BY DEF SettledEvent
  <1>2. e.quantity * e.price \in Nat
    BY <1>1
  <1>3. QuoteAmount(e.quantity, e.price) \in Nat
    BY <1>2, Quotient, SettlementAssumption DEF QuoteAmount
  <1>4. QED
    BY <1>1, <1>3 DEF Credit

\* What the log credits is an integer; one event more adds its own credit.
LEMMA CreditFacts ==
  ASSUME NEW log \in Seq(SettledEvent), NEW a, NEW t
  PROVE  /\ CreditSum(log, a, t) \in Int
         /\ \A e \in SettledEvent :
              CreditSum(Append(log, e), a, t) = CreditSum(log, a, t) + Credit(e, a, t)
  <1> DEFINE n == Len(log)
             w == [i \in DOMAIN log |-> Credit(log[i], a, t)]
  <1>1. n \in Nat /\ DOMAIN log = 1..n /\ \A i \in 1..n : log[i] \in SettledEvent
    OBVIOUS
  <1>2. DOMAIN w = 1..n /\ \A i \in 1..n : w[i] = Credit(log[i], a, t)
    BY <1>1
  <1>3. CreditSum(log, a, t) = SumFunctionOnSet(w, 1..n)
    BY <1>2 DEF CreditSum, SumFunction
  <1>4. IntOn(w, 1..n) /\ IsFiniteSet(1..n)
    BY <1>1, <1>2, CreditType, FS_Interval DEF IntOn
  <1> HIDE DEF w
  <1>5. CreditSum(log, a, t) \in Int
    <2> DEFINE S == 1..n
    <2>1. IsFiniteSet(S) /\ IntOn(w, S) /\ CreditSum(log, a, t) = SumFunctionOnSet(w, S)
      BY <1>3, <1>4
    <2> HIDE DEF S
    <2>2. QED
      BY <2>1, SumInt
  <1>6. ASSUME NEW e \in SettledEvent
        PROVE  CreditSum(Append(log, e), a, t) = CreditSum(log, a, t) + Credit(e, a, t)
    <2> DEFINE v == [i \in DOMAIN Append(log, e) |-> Credit(Append(log, e)[i], a, t)]
    <2>1. /\ DOMAIN Append(log, e) = 1..(n + 1) /\ Append(log, e)[n + 1] = e
          /\ \A i \in 1..n : Append(log, e)[i] = log[i]
      BY <1>1
    <2>2. /\ DOMAIN v = 1..(n + 1) /\ v[n + 1] = Credit(e, a, t)
          /\ \A i \in 1..n : v[i] = w[i]
      BY <1>1, <1>2, <2>1
    <2>3. CreditSum(Append(log, e), a, t) = SumFunctionOnSet(v, 1..(n + 1))
      BY <2>2 DEF CreditSum, SumFunction
    <2> HIDE DEF v
    <2>4. \A i \in 1..(n + 1) : i \in 1..n \/ i = n + 1
      BY <1>1
    <2>5. IntOn(v, 1..(n + 1)) /\ SameOn(v, w, 1..n)
      BY <1>4, <2>2, <2>4, CreditType DEF IntOn, SameOn
    <2> HIDE DEF n
    <2>6. SumFunctionOnSet(v, 1..(n + 1)) = SumFunctionOnSet(w, 1..n) + v[n + 1]
      BY <1>1, <1>4, <2>5, SumNext
    <2>7. QED
      BY <1>3, <2>2, <2>3, <2>6
  <1>7. QED
    BY <1>5, <1>6

\* Moving an amount between the wallet and the escrow of an account, either way.
LEMMA MoveSound ==
  ASSUME NEW bal, NEW wal, NEW hel, NEW sh, NEW log, Sound(bal, wal, hel, sh, log),
         NEW a \in Accounts, NEW t \in Assets, NEW n \in Int,
         bal[a][t] + n >= 0, wal[a][t] - n >= 0
  PROVE  /\ Sound(Add(bal, a, t, n), Add(wal, a, t, -n), [hel EXCEPT ![t] = @ + n], sh, log)
         /\ Add(wal, a, t, -n)[a][t] = wal[a][t] - n
  <1> DEFINE b == Add(bal, a, t, n)
             w == Add(wal, a, t, -n)
             h == [hel EXCEPT ![t] = @ + n]
  <1>1. /\ bal \in Purse /\ wal \in Purse /\ bal \in Ledger /\ wal \in Ledger /\ -n \in Int
        /\ hel \in [Assets -> Nat] /\ sh \in Ledger /\ log \in Seq(SettledEvent)
    BY PurseLedger DEF Sound
  <1>2. b \in Ledger /\ Differs(b, bal, a, t, n) /\ w \in Ledger /\ Differs(w, wal, a, t, -n)
    BY <1>1, AddFacts
  <1> HIDE DEF b, w
  <1>3. b \in Purse /\ w \in Purse
    <2>1. \A x \in Accounts, u \in Assets :
            /\ bal[x][u] \in Nat /\ wal[x][u] \in Nat
            /\ b[x][u] = bal[x][u] + (IF x = a /\ u = t THEN n ELSE 0)
            /\ w[x][u] = wal[x][u] + (IF x = a /\ u = t THEN -n ELSE 0)
      BY <1>1, <1>2 DEF Differs, Purse
    <2>2. \A x \in Accounts, u \in Assets : b[x][u] \in Nat /\ w[x][u] \in Nat
      BY <2>1
    <2>3. QED
      BY <1>2, <2>2 DEF Ledger, Purse
  <1>4. ASSUME NEW u \in Assets
        PROVE  /\ Total(b, u) = Total(bal, u) + (IF u = t THEN n ELSE 0)
               /\ Total(w, u) = Total(wal, u) + (IF u = t THEN -n ELSE 0)
               /\ Total(b, u) \in Nat /\ Total(bal, u) \in Nat /\ Total(wal, u) \in Nat
    BY <1>1, <1>2, <1>3, TotalAdd, TotalType DEF Purse
  <1>5. ASSUME NEW u \in Assets
        PROVE  h[u] = hel[u] + (IF u = t THEN n ELSE 0) /\ hel[u] = Total(bal, u)
    BY <1>1 DEF Sound
  <1>6. h \in [Assets -> Nat]
    <2>1. \A u \in Assets : h[u] \in Nat
      BY <1>4, <1>5
    <2>2. h = [u \in Assets |-> h[u]]
      BY <1>1
    <2> HIDE DEF h
    <2>3. QED
      BY <2>1, <2>2
  <1> HIDE DEF h
  <1>7. ASSUME NEW u \in Assets
        PROVE  Total(b, u) = h[u] /\ h[u] + Total(w, u) = Total(InitialWallet, u)
    <2>1. hel[u] + Total(wal, u) = Total(InitialWallet, u)
      BY DEF Sound
    <2>2. QED
      BY <1>4, <1>5, <2>1
  <1>8. ASSUME NEW x \in Accounts, NEW u \in Assets
        PROVE  b[x][u] = (InitialWallet[x][u] + sh[x][u] - w[x][u]) + CreditSum(log, x, u)
    <2>1. bal[x][u] = (InitialWallet[x][u] + sh[x][u] - wal[x][u]) + CreditSum(log, x, u)
      BY DEF Sound
    <2>2. /\ b[x][u] = bal[x][u] + (IF x = a /\ u = t THEN n ELSE 0)
          /\ w[x][u] = wal[x][u] + (IF x = a /\ u = t THEN -n ELSE 0)
      BY <1>2 DEF Differs
    <2>3. InitialWallet[x][u] \in Int /\ sh[x][u] \in Int /\ wal[x][u] \in Int /\ bal[x][u] \in Int
          /\ CreditSum(log, x, u) \in Int
      BY <1>1, CreditFacts, SettlementAssumption DEF Ledger
    <2>4. QED
      BY <2>1, <2>2, <2>3
  <1>9. Sound(b, w, h, sh, log)
    BY <1>1, <1>3, <1>6, <1>7, <1>8 DEF Sound
  <1>10. w[a][t] = wal[a][t] - n
    BY <1>1, <1>2 DEF Differs, Purse
  <1>11. QED
    BY <1>9, <1>10 DEF b, w, h

\* What sharing b of token t gives an account, or takes from it.
ShareGiven(t, b, x, u) ==
    (IF x = Manager /\ u = t THEN -b ELSE 0)
  + (IF x = treasury /\ u = t THEN ToTreasury(b) ELSE 0)
  + (IF x = lpRewardPool /\ u = t THEN b - ToTreasury(b) ELSE 0)

ManagerTypeOK ==
  /\ treasury \in Accounts \ {Manager} /\ lpRewardPool \in Accounts \ {Manager}
  /\ treasuryShareBps \in 0..Denominator
  /\ totalCollected \in [Assets -> Nat] /\ totalDistributed \in [Assets -> Nat]

\* Sharing takes from the manager what it gives to the treasury and to the pool.
LEMMA SplitFacts ==
  ASSUME ManagerTypeOK, NEW f \in Ledger, NEW t \in Assets, NEW b \in Nat
  PROVE  /\ ToTreasury(b) \in Nat /\ ToTreasury(b) <= b
         /\ Split(f, t, b) \in Ledger
         /\ \A x \in Accounts, u \in Assets : Split(f, t, b)[x][u] = f[x][u] + ShareGiven(t, b, x, u)
         /\ \A u \in Assets : Total(Split(f, t, b), u) = Total(f, u)
  <1> DEFINE s == ToTreasury(b)
             g == Add(f, Manager, t, -b)
             h == Add(g, treasury, t, s)
             k == Add(h, lpRewardPool, t, b - s)
  <1>1. s \in Nat /\ s <= b
    <2>1. treasuryShareBps \in Nat /\ treasuryShareBps <= Denominator /\ Denominator \in Nat \ {0}
      BY FeeManagerAssumption DEF ManagerTypeOK
    <2>2. QED
      BY <2>1, ShareOf DEF ToTreasury
  <1>2. Manager \in Accounts /\ treasury \in Accounts /\ lpRewardPool \in Accounts
    BY FeeManagerAssumption DEF ManagerTypeOK
  <1>3. s \in Int /\ -b \in Int /\ b - s \in Int
    BY <1>1
  <1> HIDE DEF s
  <1>4. g \in Ledger /\ Differs(g, f, Manager, t, -b)
    BY <1>2, <1>3, AddFacts
  <1> HIDE DEF g
  <1>5. h \in Ledger /\ Differs(h, g, treasury, t, s)
    BY <1>2, <1>3, <1>4, AddFacts
  <1> HIDE DEF h
  <1>6. k \in Ledger /\ Differs(k, h, lpRewardPool, t, b - s)
    BY <1>2, <1>3, <1>5, AddFacts
  <1>7. k = Split(f, t, b)
    BY DEF g, h, k, s, Split
  <1> HIDE DEF k
  <1>8. ASSUME NEW x \in Accounts, NEW u \in Assets
        PROVE  k[x][u] = f[x][u] + ShareGiven(t, b, x, u)
    <2>1. f[x][u] \in Int /\ g[x][u] \in Int /\ h[x][u] \in Int
      BY <1>4, <1>5 DEF Ledger
    <2>2. /\ g[x][u] = f[x][u] + (IF x = Manager /\ u = t THEN -b ELSE 0)
          /\ h[x][u] = g[x][u] + (IF x = treasury /\ u = t THEN s ELSE 0)
          /\ k[x][u] = h[x][u] + (IF x = lpRewardPool /\ u = t THEN b - s ELSE 0)
      BY <1>4, <1>5, <1>6 DEF Differs
    <2>3. ShareGiven(t, b, x, u) = (IF x = Manager /\ u = t THEN -b ELSE 0)
                                   + (IF x = treasury /\ u = t THEN s ELSE 0)
                                   + (IF x = lpRewardPool /\ u = t THEN b - s ELSE 0)
      BY DEF ShareGiven, s
    <2>4. QED
      BY <1>3, <2>1, <2>2, <2>3
  <1>9. ASSUME NEW u \in Assets
        PROVE  Total(k, u) = Total(f, u)
    <2>1. /\ Total(g, u) = Total(f, u) + (IF u = t THEN -b ELSE 0)
          /\ Total(h, u) = Total(g, u) + (IF u = t THEN s ELSE 0)
          /\ Total(k, u) = Total(h, u) + (IF u = t THEN b - s ELSE 0)
      BY <1>2, <1>3, <1>4, <1>5, <1>6, TotalAdd
    <2>2. Total(f, u) \in Int
      BY TotalType
    <2>3. QED
      BY <1>3, <2>1, <2>2
  <1>10. QED
    BY <1>1, <1>6, <1>7, <1>8, <1>9 DEF s

\* Sharing what the manager's wallet holds keeps the books.
LEMMA SplitSound ==
  ASSUME ManagerTypeOK, NEW bal, NEW wal, NEW hel, NEW sh, NEW log, Sound(bal, wal, hel, sh, log),
         NEW t \in Assets, NEW b, b = wal[Manager][t]
  PROVE  /\ Sound(bal, Split(wal, t, b), hel, Split(sh, t, b), log)
         /\ \A u \in Assets :
              /\ Split(wal, t, b)[Manager][u] = wal[Manager][u] - (IF u = t THEN b ELSE 0)
              /\ Split(sh, t, b)[Manager][u] = sh[Manager][u] - (IF u = t THEN b ELSE 0)
  <1> DEFINE w == Split(wal, t, b)
             s == Split(sh, t, b)
  <1>1. /\ bal \in Purse /\ wal \in Purse /\ bal \in Ledger /\ wal \in Ledger
        /\ hel \in [Assets -> Nat] /\ sh \in Ledger /\ log \in Seq(SettledEvent)
        /\ Manager \in Accounts
    BY PurseLedger, FeeManagerAssumption DEF Sound
  <1>2. b \in Nat
    BY <1>1 DEF Purse
  <1>3. /\ w \in Ledger /\ s \in Ledger
        /\ \A x \in Accounts, u \in Assets : /\ w[x][u] = wal[x][u] + ShareGiven(t, b, x, u)
                                             /\ s[x][u] = sh[x][u] + ShareGiven(t, b, x, u)
        /\ \A u \in Assets : Total(w, u) = Total(wal, u)
        /\ ToTreasury(b) \in Nat /\ ToTreasury(b) <= b
    <2>1. /\ ToTreasury(b) \in Nat /\ ToTreasury(b) <= b /\ w \in Ledger
          /\ \A x \in Accounts, u \in Assets : w[x][u] = wal[x][u] + ShareGiven(t, b, x, u)
          /\ \A u \in Assets : Total(w, u) = Total(wal, u)
      BY <1>1, <1>2, SplitFacts
    <2>2. /\ s \in Ledger
          /\ \A x \in Accounts, u \in Assets : s[x][u] = sh[x][u] + ShareGiven(t, b, x, u)
      BY <1>1, <1>2, SplitFacts
    <2> HIDE DEF w, s
    <2>3. QED
      BY <2>1, <2>2
  <1> HIDE DEF w, s
  <1>4. ASSUME NEW x \in Accounts, NEW u \in Assets
        PROVE  /\ ShareGiven(t, b, x, u) \in Int /\ wal[x][u] + ShareGiven(t, b, x, u) >= 0
               /\ x = Manager => ShareGiven(t, b, x, u) = -(IF u = t THEN b ELSE 0)
    <2>1. wal[x][u] \in Nat
      BY <1>1 DEF Purse
    <2>2. QED
      BY <1>2, <1>3, <2>1 DEF ShareGiven, ManagerTypeOK
  <1>5. w \in Purse
    <2>1. \A x \in Accounts, u \in Assets : w[x][u] \in Nat
      BY <1>1, <1>3, <1>4 DEF Ledger
    <2>2. QED
      BY <1>3, <2>1 DEF Ledger, Purse
  <1>6. ASSUME NEW u \in Assets
        PROVE  Total(bal, u) = hel[u] /\ hel[u] + Total(w, u) = Total(InitialWallet, u)
    BY <1>3 DEF Sound
  <1>7. ASSUME NEW x \in Accounts, NEW u \in Assets
        PROVE  bal[x][u] = (InitialWallet[x][u] + s[x][u] - w[x][u]) + CreditSum(log, x, u)
    <2>1. bal[x][u] = (InitialWallet[x][u] + sh[x][u] - wal[x][u]) + CreditSum(log, x, u)
      BY DEF Sound
    <2>2. InitialWallet[x][u] \in Int /\ sh[x][u] \in Int /\ wal[x][u] \in Int
      BY <1>1, SettlementAssumption DEF Ledger
    <2>3. InitialWallet[x][u] + s[x][u] - w[x][u] = InitialWallet[x][u] + sh[x][u] - wal[x][u]
      BY <1>3, <1>4, <2>2
    <2>4. QED
      BY <2>1, <2>3
  <1>8. Sound(bal, w, hel, s, log)
    BY <1>1, <1>3, <1>5, <1>6, <1>7 DEF Sound
  <1>9. ASSUME NEW u \in Assets
        PROVE  /\ w[Manager][u] = wal[Manager][u] - (IF u = t THEN b ELSE 0)
               /\ s[Manager][u] = sh[Manager][u] - (IF u = t THEN b ELSE 0)
    <2>1. wal[Manager][u] \in Int /\ sh[Manager][u] \in Int
      BY <1>1 DEF Ledger
    <2>2. QED
      BY <1>1, <1>2, <1>3, <1>4, <2>1
  <1>10. QED
    BY <1>8, <1>9 DEF w, s

\* The updates of _settle take effect one after the other, also when the accounts or
\* the tokens coincide: every balance changes by what the event credits, none falls
\* below zero, and nothing is made or lost.
LEMMA MovedFacts ==
  ASSUME balances \in Purse, feeBps \in 0..MaxFeeBps, feeRecipient \in Accounts,
         NEW by \in {"owner", "book"}, NEW buyer \in Accounts, NEW seller \in Accounts,
         NEW base \in Assets, NEW quote \in Assets, NEW quantity \in Nat, NEW price \in Nat,
         balances[buyer][quote] >= QuoteAmount(quantity, price),
         balances[seller][base] >= quantity,
         NEW e, e = [by |-> by, buyer |-> buyer, seller |-> seller, base |-> base, quote |-> quote,
                     quantity |-> quantity, price |-> price, fee |-> Fee(quantity, price),
                     recipient |-> feeRecipient],
         NEW new, new = Moved(buyer, seller, base, quote, quantity, price)
  PROVE  /\ e \in SettledEvent /\ new \in Purse
         /\ \A x \in Accounts, u \in Assets : new[x][u] = balances[x][u] + Credit(e, x, u)
         /\ \A u \in Assets : Total(new, u) = Total(balances, u)
  <1> DEFINE m == QuoteAmount(quantity, price)
             fee == Fee(quantity, price)
             g1 == Add(balances, seller, base, -quantity)
             g2 == Add(g1, buyer, base, quantity)
             g3 == Add(g2, buyer, quote, -m)
             g4 == Add(g3, seller, quote, m - fee)
  <1>1. m \in Nat /\ fee \in Nat /\ fee <= m
    <2>1. quantity * price \in Nat
      OBVIOUS
    <2>2. m \in Nat
      BY <2>1, Quotient, SettlementAssumption DEF QuoteAmount
    <2>3. feeBps \in Nat /\ feeBps <= SettlementDenominator /\ SettlementDenominator \in Nat \ {0}
      BY SettlementAssumption
    <2> HIDE DEF m
    <2>4. fee = (m * feeBps) \div SettlementDenominator
      BY DEF Fee, m
    <2>5. QED
      BY <2>2, <2>3, <2>4, ShareOf
  <1>2. e \in SettledEvent
    BY <1>1 DEF SettledEvent
  <1>3. /\ e.buyer = buyer /\ e.seller = seller /\ e.base = base /\ e.quote = quote
        /\ e.quantity = quantity /\ e.fee = fee /\ e.recipient = feeRecipient
        /\ QuoteAmount(e.quantity, e.price) = m
    OBVIOUS
  <1>4. /\ -quantity \in Int /\ quantity \in Int /\ -m \in Int /\ m - fee \in Int /\ fee \in Int
        /\ balances \in Ledger
    BY <1>1, PurseLedger
  <1>5. new = Add(g4, feeRecipient, quote, fee)
    BY DEF Moved
  <1>6. balances[buyer][quote] >= m /\ balances[seller][base] >= quantity
    OBVIOUS
  <1> HIDE DEF m, fee
  <1>7. g1 \in Ledger /\ Differs(g1, balances, seller, base, -quantity)
    BY <1>4, AddFacts
  <1> HIDE DEF g1
  <1>8. g2 \in Ledger /\ Differs(g2, g1, buyer, base, quantity)
    BY <1>4, <1>7, AddFacts
  <1> HIDE DEF g2
  <1>9. g3 \in Ledger /\ Differs(g3, g2, buyer, quote, -m)
    BY <1>4, <1>8, AddFacts
  <1> HIDE DEF g3
  <1>10. g4 \in Ledger /\ Differs(g4, g3, seller, quote, m - fee)
    BY <1>4, <1>9, AddFacts
  <1> HIDE DEF g4
  <1>11. new \in Ledger /\ Differs(new, g4, feeRecipient, quote, fee)
    BY <1>4, <1>5, <1>10, AddFacts
  <1>12. ASSUME NEW x \in Accounts, NEW u \in Assets
         PROVE  /\ new[x][u] = balances[x][u] + Credit(e, x, u)
                /\ balances[x][u] + Credit(e, x, u) >= 0 /\ new[x][u] \in Int
    <2> DEFINE atBaseS == x = seller /\ u = base
               atBaseB == x = buyer /\ u = base
               atQuoteB == x = buyer /\ u = quote
               atQuoteS == x = seller /\ u = quote
               atFee == x = feeRecipient /\ u = quote
    <2>1. /\ balances[x][u] \in Nat /\ g1[x][u] \in Int /\ g2[x][u] \in Int /\ g3[x][u] \in Int
          /\ g4[x][u] \in Int /\ new[x][u] \in Int
      BY <1>4, <1>7, <1>8, <1>9, <1>10, <1>11 DEF Ledger, Purse
    <2>2. /\ g1[x][u] = balances[x][u] + (IF atBaseS THEN -quantity ELSE 0)
          /\ g2[x][u] = g1[x][u] + (IF atBaseB THEN quantity ELSE 0)
          /\ g3[x][u] = g2[x][u] + (IF atQuoteB THEN -m ELSE 0)
          /\ g4[x][u] = g3[x][u] + (IF atQuoteS THEN m - fee ELSE 0)
          /\ new[x][u] = g4[x][u] + (IF atFee THEN fee ELSE 0)
      BY <1>7, <1>8, <1>9, <1>10, <1>11 DEF Differs
    <2>3. Credit(e, x, u) = (IF atBaseB THEN quantity ELSE 0) - (IF atBaseS THEN quantity ELSE 0)
                            - (IF atQuoteB THEN m ELSE 0) + (IF atQuoteS THEN m - fee ELSE 0)
                            + (IF atFee THEN fee ELSE 0)
      BY <1>3 DEF Credit
    <2>4. /\ atQuoteB => balances[x][u] >= m
          /\ atBaseS => balances[x][u] >= quantity
          /\ atQuoteB /\ atBaseS => atBaseB /\ atQuoteS
      BY <1>6
    <2> HIDE DEF atBaseS, atBaseB, atQuoteB, atQuoteS, atFee
    <2>5. QED
      BY <1>1, <2>1, <2>2, <2>3, <2>4
  <1>13. new \in Purse
    <2>1. \A x \in Accounts, u \in Assets : new[x][u] \in Nat
      BY <1>12
    <2>2. QED
      BY <1>11, <2>1 DEF Ledger, Purse
  <1>14. ASSUME NEW u \in Assets
         PROVE  Total(new, u) = Total(balances, u)
    <2>1. /\ Total(g1, u) = Total(balances, u) + (IF u = base THEN -quantity ELSE 0)
          /\ Total(g2, u) = Total(g1, u) + (IF u = base THEN quantity ELSE 0)
          /\ Total(g3, u) = Total(g2, u) + (IF u = quote THEN -m ELSE 0)
      BY <1>4, <1>7, <1>8, <1>9, TotalAdd
    <2>2. /\ Total(g4, u) = Total(g3, u) + (IF u = quote THEN m - fee ELSE 0)
          /\ Total(new, u) = Total(g4, u) + (IF u = quote THEN fee ELSE 0)
      BY <1>4, <1>9, <1>10, <1>11, TotalAdd
    <2>3. Total(balances, u) \in Int
      BY <1>4, TotalType
    <2>4. QED
      BY <1>1, <2>1, <2>2, <2>3
  <1>15. QED
    BY <1>2, <1>12, <1>13, <1>14

\* A settlement keeps the books: what the escrow gained is what the event credits.
LEMMA SettleSound ==
  ASSUME Sound(balances, wallet, held, shared, settledLog),
         NEW e \in SettledEvent, NEW new \in Purse,
         \A x \in Accounts, u \in Assets : new[x][u] = balances[x][u] + Credit(e, x, u),
         \A u \in Assets : Total(new, u) = Total(balances, u)
  PROVE  Sound(new, wallet, held, shared, Append(settledLog, e))
  <1>1. /\ balances \in Purse /\ wallet \in Purse /\ held \in [Assets -> Nat] /\ shared \in Ledger
        /\ settledLog \in Seq(SettledEvent)
    BY DEF Sound
  <1>2. Append(settledLog, e) \in Seq(SettledEvent)
    BY <1>1
  <1>3. \A t \in Assets : Total(new, t) = held[t] /\ held[t] + Total(wallet, t) = Total(InitialWallet, t)
    BY DEF Sound
  <1>4. ASSUME NEW x \in Accounts, NEW u \in Assets
        PROVE  new[x][u] = (InitialWallet[x][u] + shared[x][u] - wallet[x][u])
                           + CreditSum(Append(settledLog, e), x, u)
    <2>1. balances[x][u] = (InitialWallet[x][u] + shared[x][u] - wallet[x][u])
                           + CreditSum(settledLog, x, u)
      BY DEF Sound
    <2>2. /\ CreditSum(settledLog, x, u) \in Int /\ Credit(e, x, u) \in Int
          /\ CreditSum(Append(settledLog, e), x, u) = CreditSum(settledLog, x, u) + Credit(e, x, u)
      BY <1>1, CreditFacts, CreditType
    <2>3. InitialWallet[x][u] + shared[x][u] - wallet[x][u] \in Int
      BY <1>1, SettlementAssumption DEF Ledger, Purse
    <2>4. new[x][u] = balances[x][u] + Credit(e, x, u)
      OBVIOUS
    <2> HIDE DEF CreditSum
    <2>5. QED
      BY <2>1, <2>2, <2>3, <2>4
  <1>5. QED
    BY <1>1, <1>2, <1>3, <1>4 DEF Sound

-----------------------------------------------------------------------------
(***************************************************************************)
(* The escrow and its fees, transaction by transaction.                    *)
(***************************************************************************)
ConfigTypeOK ==
  /\ feeBps \in 0..MaxFeeBps /\ feeRecipient \in Accounts
  /\ bookAuthorized \in BOOLEAN /\ escrowPaused \in BOOLEAN

\* What is kept: the books are sound, and the totals of the manager agree with what
\* it holds.
EscrowIInv ==
  /\ Sound(balances, wallet, held, shared, settledLog)
  /\ ConfigTypeOK /\ ManagerTypeOK /\ TotalsAgree

\* The parts of EscrowInv are among them.
LEMMA EscrowParts == EscrowIInv => EscrowInv
  <1> SUFFICES ASSUME EscrowIInv PROVE EscrowInv
    OBVIOUS
  <1>1. EscrowTypeOK
    BY DEF EscrowIInv, Sound, Purse, ConfigTypeOK, EscrowTypeOK
  <1>2. EscrowConserved
    BY DEF EscrowIInv, Sound, EscrowConserved
  <1>3. LedgerReconciles
    BY DEF EscrowIInv, Sound, CreditSum, LedgerReconciles
  <1>4. QED
    BY <1>1, <1>2, <1>3 DEF EscrowIInv, EscrowInv

\* A deposit, a withdrawal or a release moves an amount between a wallet and its
\* escrow; what the manager's wallet gains was collected, or released to it.
LEMMA MoveKeeps ==
  ASSUME EscrowIInv, NEW a \in Accounts, NEW t \in Assets, NEW n \in Int,
         balances[a][t] + n >= 0, wallet[a][t] - n >= 0,
         balances' = Add(balances, a, t, n), wallet' = Add(wallet, a, t, -n),
         held' = [held EXCEPT ![t] = @ + n],
         UNCHANGED <<escrowConfig, settledLog, shareConfig, totalDistributed, shared>>,
         \/ a # Manager /\ totalCollected' = totalCollected
         \/ n <= 0 /\ totalCollected' = totalCollected
         \/ a = Manager /\ n <= 0 /\ totalCollected' = [totalCollected EXCEPT ![t] = @ - n]
  PROVE  EscrowIInv'
  <1>1. Sound(balances, wallet, held, shared, settledLog)
    BY DEF EscrowIInv
  <1>2. Sound(balances', wallet', held', shared, settledLog)
    <2>1. Sound(Add(balances, a, t, n), Add(wallet, a, t, -n), [held EXCEPT ![t] = @ + n],
                shared, settledLog)
      BY <1>1, MoveSound
    <2>2. QED
      BY <2>1
  <1>3. shared' = shared /\ settledLog' = settledLog
    OBVIOUS
  <1>4. Sound(balances, wallet, held, shared, settledLog)'
    BY <1>2, <1>3
  <1>5. ConfigTypeOK'
    BY DEF EscrowIInv, ConfigTypeOK, escrowConfig
  <1>6. wallet \in Ledger /\ Manager \in Accounts /\ shared \in Ledger
    BY <1>1, PurseLedger, FeeManagerAssumption DEF Sound
  <1>7. totalCollected \in [Assets -> Nat] /\ totalDistributed \in [Assets -> Nat]
    BY DEF EscrowIInv, ManagerTypeOK
  <1>8. \A u \in Assets : wallet'[Manager][u] = wallet[Manager][u] + (IF Manager = a /\ u = t THEN -n ELSE 0)
    BY <1>6, AddFacts DEF Differs
  <1>9. /\ totalCollected' \in [Assets -> Nat]
        /\ \A u \in Assets : \/ totalCollected'[u] = totalCollected[u]
                             \/ u = t /\ a = Manager /\ totalCollected'[u] = totalCollected[u] - n
    <2>1. CASE totalCollected' = totalCollected
      BY <1>7, <2>1
    <2>2. CASE a = Manager /\ n <= 0 /\ totalCollected' = [totalCollected EXCEPT ![t] = @ - n]
      <3>1. totalCollected[t] \in Nat /\ totalCollected[t] - n \in Nat
        BY <1>7, <2>2
      <3>2. QED
        BY <1>7, <2>2, <3>1
    <2>3. QED
      BY <2>1, <2>2
  <1>10. ManagerTypeOK'
    BY <1>7, <1>9 DEF EscrowIInv, ManagerTypeOK, shareConfig
  <1>11. ASSUME NEW u \in Assets
         PROVE  /\ shared'[Manager][u] = -totalDistributed'[u]
                /\ totalCollected'[u] <= totalDistributed'[u] + wallet'[Manager][u]
    <2>1. /\ shared[Manager][u] = -totalDistributed[u]
          /\ totalCollected[u] <= totalDistributed[u] + wallet[Manager][u]
      BY DEF EscrowIInv, TotalsAgree
    <2>2. /\ totalCollected[u] \in Nat /\ totalDistributed[u] \in Nat /\ wallet[Manager][u] \in Int
      BY <1>6, <1>7 DEF Ledger
    <2>3. shared' = shared /\ totalDistributed' = totalDistributed
      OBVIOUS
    <2>4. wallet'[Manager][u] = wallet[Manager][u] + (IF Manager = a /\ u = t THEN -n ELSE 0)
      BY <1>8
    <2>5. \/ a # Manager /\ totalCollected'[u] = totalCollected[u]
          \/ n <= 0 /\ totalCollected'[u] = totalCollected[u]
          \/ n <= 0 /\ a = Manager /\ u = t /\ totalCollected'[u] = totalCollected[u] - n
      BY <1>9, <1>7
    <2>6. QED
      BY <2>1, <2>2, <2>3, <2>4, <2>5
  <1>12. QED
    BY <1>4, <1>5, <1>10, <1>11 DEF EscrowIInv, TotalsAgree

\* Setting a balance to zero is adding what it lacks.
LEMMA AddEmpties ==
  ASSUME NEW f \in Ledger, NEW a \in Accounts, NEW t \in Assets
  PROVE  [f EXCEPT ![a][t] = 0] = Add(f, a, t, -f[a][t])
  <1>1. f[a] \in [Assets -> Int] /\ f[a][t] \in Int /\ f[a][t] + (-f[a][t]) = 0
    BY DEF Ledger
  <1>2. QED
    BY <1>1 DEF Add, Ledger

\* The holder of an account pays in or takes out.
LEMMA HolderKeeps ==
  ASSUME EscrowIInv, NEW a \in Accounts \ {Manager}, HolderCall(a), UNCHANGED managerVars
  PROVE  EscrowIInv'
  <1>1. balances \in Ledger /\ wallet \in Purse /\ balances \in Purse /\ held \in [Assets -> Nat]
    BY PurseLedger DEF EscrowIInv, Sound
  <1>2. UNCHANGED <<shareConfig, totalDistributed, shared, totalCollected>>
    BY DEF managerVars
  <1>3. PICK t \in Assets, k \in Amounts : Deposit(a, t, k) \/ Withdraw(a, t, k)
    BY DEF HolderCall
  <1>4. k \in Nat /\ balances[a][t] \in Nat /\ wallet[a][t] \in Nat /\ held[t] \in Nat
    BY <1>1, SettlementAssumption DEF Purse
  <1>5. CASE Deposit(a, t, k)
    <2>1. /\ wallet' = Add(wallet, a, t, -k) /\ balances' = Add(balances, a, t, k)
          /\ held' = [held EXCEPT ![t] = @ + k] /\ wallet[a][t] >= k
          /\ UNCHANGED <<escrowConfig, settledLog>>
      BY <1>5 DEF Deposit
    <2>2. k \in Int /\ balances[a][t] + k >= 0 /\ wallet[a][t] - k >= 0
      BY <1>4, <2>1
    <2>3. QED
      BY <1>2, <2>1, <2>2, MoveKeeps
  <1>6. CASE Withdraw(a, t, k)
    <2> DEFINE n == -k
    <2>1. /\ wallet' = Add(wallet, a, t, k) /\ balances' = Add(balances, a, t, -k)
          /\ held' = [held EXCEPT ![t] = @ - k] /\ balances[a][t] >= k
          /\ UNCHANGED <<escrowConfig, settledLog>>
      BY <1>6 DEF Withdraw, PayOut
    <2>2. n \in Int /\ k = -n /\ balances[a][t] + n >= 0 /\ wallet[a][t] - n >= 0
          /\ held[t] - k = held[t] + n
      BY <1>4, <2>1
    <2>3. balances' = Add(balances, a, t, n) /\ wallet' = Add(wallet, a, t, -n)
          /\ held' = [held EXCEPT ![t] = @ + n]
      BY <2>1, <2>2
    <2> HIDE DEF n
    <2>4. QED
      BY <1>2, <2>1, <2>2, <2>3, MoveKeeps
  <1>7. QED
    BY <1>3, <1>5, <1>6

\* The owner returns what an account holds.
LEMMA ReleaseKept ==
  ASSUME EscrowIInv, NEW a \in Accounts, NEW t \in Assets, ReleaseFunds(a, t), UNCHANGED managerVars
  PROVE  EscrowIInv'
  <1> DEFINE n == -balances[a][t]
  <1>1. balances \in Ledger /\ wallet \in Purse /\ balances \in Purse /\ held \in [Assets -> Nat]
    BY PurseLedger DEF EscrowIInv, Sound
  <1>2. UNCHANGED <<shareConfig, totalDistributed, shared, totalCollected>>
    BY DEF managerVars
  <1>3. balances[a][t] \in Nat /\ wallet[a][t] \in Nat /\ held[t] \in Nat
    BY <1>1 DEF Purse
  <1>4. /\ balances' = Add(balances, a, t, n) /\ wallet' = Add(wallet, a, t, balances[a][t])
        /\ held' = [held EXCEPT ![t] = @ - balances[a][t]]
        /\ UNCHANGED <<escrowConfig, settledLog>>
    BY <1>1, AddEmpties DEF ReleaseFunds, PayOut
  <1>5. /\ n \in Int /\ balances[a][t] = -n /\ n <= 0 /\ balances[a][t] + n >= 0
        /\ wallet[a][t] - n >= 0 /\ held[t] - balances[a][t] = held[t] + n
    BY <1>3
  <1>6. wallet' = Add(wallet, a, t, -n) /\ held' = [held EXCEPT ![t] = @ + n]
    BY <1>4, <1>5
  <1> HIDE DEF n
  <1>7. QED
    BY <1>2, <1>4, <1>5, <1>6, MoveKeeps

\* Anybody has the fees of a token collected.
LEMMA CollectKept ==
  ASSUME EscrowIInv, NEW t \in Assets, CollectFees(t)
  PROVE  EscrowIInv'
  <1> DEFINE k == balances[Manager][t]
             n == -k
  <1>1. balances \in Ledger /\ wallet \in Purse /\ balances \in Purse /\ held \in [Assets -> Nat]
        /\ Manager \in Accounts
    BY PurseLedger, FeeManagerAssumption DEF EscrowIInv, Sound
  <1>2. /\ k \in Nat /\ wallet[Manager][t] \in Nat /\ held[t] \in Nat
        /\ totalCollected \in [Assets -> Nat] /\ totalCollected[t] \in Nat
    BY <1>1 DEF Purse, EscrowIInv, ManagerTypeOK
  <1>3. /\ balances' = Add(balances, Manager, t, n) /\ wallet' = Add(wallet, Manager, t, k)
        /\ held' = [held EXCEPT ![t] = @ - k]
        /\ totalCollected' = [totalCollected EXCEPT ![t] = @ + k]
        /\ UNCHANGED <<escrowConfig, settledLog, shareConfig, totalDistributed, shared>>
    BY DEF CollectFees, Withdraw, PayOut
  <1>4. /\ n \in Int /\ k = -n /\ n <= 0 /\ balances[Manager][t] + n >= 0
        /\ wallet[Manager][t] - n >= 0 /\ held[t] - k = held[t] + n
        /\ totalCollected[t] + k = totalCollected[t] - n
    BY <1>2
  <1>5. /\ wallet' = Add(wallet, Manager, t, -n) /\ held' = [held EXCEPT ![t] = @ + n]
        /\ totalCollected' = [totalCollected EXCEPT ![t] = @ - n]
    BY <1>3, <1>4
  <1> HIDE DEF n, k
  <1>6. QED
    BY <1>1, <1>3, <1>4, <1>5, MoveKeeps

\* What the totals say of any wallets and of any amount collected.
Counted(wal, col) ==
  \A u \in Assets : /\ shared[Manager][u] = -totalDistributed[u]
                    /\ col[u] <= totalDistributed[u] + wal[Manager][u]

\* Sharing what the manager holds counts as distributed.
LEMMA ShareKept ==
  ASSUME ConfigTypeOK, ManagerTypeOK, NEW bal, NEW wal, NEW hel, NEW col,
         Sound(bal, wal, hel, shared, settledLog), col \in [Assets -> Nat], Counted(wal, col),
         NEW t \in Assets, NEW b, b = wal[Manager][t],
         balances' = bal, held' = hel, totalCollected' = col,
         wallet' = Split(wal, t, b), shared' = Split(shared, t, b),
         totalDistributed' = [totalDistributed EXCEPT ![t] = @ + b],
         UNCHANGED <<escrowConfig, settledLog, shareConfig>>
  PROVE  EscrowIInv'
  <1>1. /\ Sound(bal, Split(wal, t, b), hel, Split(shared, t, b), settledLog)
        /\ \A u \in Assets :
             /\ Split(wal, t, b)[Manager][u] = wal[Manager][u] - (IF u = t THEN b ELSE 0)
             /\ Split(shared, t, b)[Manager][u] = shared[Manager][u] - (IF u = t THEN b ELSE 0)
    BY SplitSound
  <1>2. settledLog' = settledLog
    OBVIOUS
  <1>3. Sound(balances', wallet', held', shared', settledLog)
    BY <1>1
  <1>4. Sound(balances, wallet, held, shared, settledLog)'
    BY <1>2, <1>3
  <1>5. ConfigTypeOK'
    BY DEF ConfigTypeOK, escrowConfig
  <1>6. /\ wal \in Purse /\ shared \in Ledger /\ Manager \in Accounts
        /\ totalDistributed \in [Assets -> Nat]
    BY FeeManagerAssumption DEF Sound, ManagerTypeOK
  <1>7. b \in Nat
    BY <1>6 DEF Purse
  <1>8. /\ totalDistributed' \in [Assets -> Nat]
        /\ \A u \in Assets : totalDistributed'[u] = totalDistributed[u] + (IF u = t THEN b ELSE 0)
    BY <1>6, <1>7
  <1>9. ManagerTypeOK'
    <2>1. treasury' = treasury /\ lpRewardPool' = lpRewardPool /\ treasuryShareBps' = treasuryShareBps
      BY DEF shareConfig
    <2>2. QED
      BY <1>8, <2>1 DEF ManagerTypeOK
  <1>10. ASSUME NEW u \in Assets
         PROVE  /\ shared'[Manager][u] = -totalDistributed'[u]
                /\ totalCollected'[u] <= totalDistributed'[u] + wallet'[Manager][u]
    <2>1. shared[Manager][u] = -totalDistributed[u] /\ col[u] <= totalDistributed[u] + wal[Manager][u]
      BY DEF Counted
    <2>2. /\ shared[Manager][u] \in Int /\ totalDistributed[u] \in Nat /\ col[u] \in Nat
          /\ wal[Manager][u] \in Nat
      BY <1>6 DEF Ledger, Purse
    <2>3. /\ shared'[Manager][u] = shared[Manager][u] - (IF u = t THEN b ELSE 0)
          /\ wallet'[Manager][u] = wal[Manager][u] - (IF u = t THEN b ELSE 0)
      BY <1>1
    <2>4. totalCollected'[u] = col[u]
          /\ totalDistributed'[u] = totalDistributed[u] + (IF u = t THEN b ELSE 0)
      BY <1>8
    <2>5. QED
      BY <1>7, <2>1, <2>2, <2>3, <2>4
  <1>11. QED
    BY <1>4, <1>5, <1>9, <1>10 DEF EscrowIInv, TotalsAgree

\* The owner of the manager distributes, collects and distributes, or reconfigures.
LEMMA ManagerKeeps ==
  ASSUME EscrowIInv, ManagerOwnerCall
  PROVE  EscrowIInv'
  <1>1. /\ balances \in Purse /\ wallet \in Purse /\ balances \in Ledger /\ wallet \in Ledger
        /\ held \in [Assets -> Nat] /\ Manager \in Accounts /\ totalCollected \in [Assets -> Nat]
        /\ ConfigTypeOK /\ ManagerTypeOK /\ Sound(balances, wallet, held, shared, settledLog)
    BY PurseLedger, FeeManagerAssumption DEF EscrowIInv, Sound, ManagerTypeOK
  <1>2. ASSUME NEW t \in Assets, DistributeFees(t)
        PROVE  EscrowIInv'
    <2> DEFINE b == wallet[Manager][t]
    <2>1. /\ wallet' = Split(wallet, t, b) /\ shared' = Split(shared, t, b)
          /\ totalDistributed' = [totalDistributed EXCEPT ![t] = @ + b]
          /\ balances' = balances /\ held' = held /\ totalCollected' = totalCollected
          /\ UNCHANGED <<escrowConfig, settledLog, shareConfig>>
      BY <1>2 DEF DistributeFees, Distribute
    <2>2. Counted(wallet, totalCollected)
      BY DEF EscrowIInv, TotalsAgree, Counted
    <2>3. QED
      BY <1>1, <2>1, <2>2, ShareKept
  <1>3. ASSUME NEW t \in Assets, CollectAndDistribute(t)
        PROVE  EscrowIInv'
    <2> DEFINE k == balances[Manager][t]
               n == -k
               wal == Add(wallet, Manager, t, k)
               bal == Add(balances, Manager, t, n)
               hel == [held EXCEPT ![t] = @ - k]
               col == [totalCollected EXCEPT ![t] = @ + k]
               b == wal[Manager][t]
    <2>1. /\ balances' = bal /\ held' = hel /\ totalCollected' = col
          /\ wallet' = Split(wal, t, b) /\ shared' = Split(shared, t, b)
          /\ totalDistributed' = [totalDistributed EXCEPT ![t] = @ + b]
          /\ UNCHANGED <<escrowConfig, settledLog, shareConfig>>
      BY <1>3 DEF CollectAndDistribute, Distribute
    <2>2. /\ k \in Nat /\ wallet[Manager][t] \in Nat /\ held[t] \in Nat
          /\ totalCollected[t] \in Nat
      BY <1>1 DEF Purse
    <2>3. /\ n \in Int /\ k = -n /\ balances[Manager][t] + n >= 0 /\ wallet[Manager][t] - n >= 0
          /\ held[t] - k = held[t] + n
      BY <2>2
    <2>4. wal = Add(wallet, Manager, t, -n) /\ hel = [held EXCEPT ![t] = @ + n]
      BY <2>3
    <2> HIDE DEF n
    <2>5. /\ Sound(bal, Add(wallet, Manager, t, -n), [held EXCEPT ![t] = @ + n], shared, settledLog)
          /\ Add(wallet, Manager, t, -n)[Manager][t] = wallet[Manager][t] - n
          /\ Differs(Add(wallet, Manager, t, -n), wallet, Manager, t, -n)
      <3>1. /\ Sound(Add(balances, Manager, t, n), Add(wallet, Manager, t, -n),
                     [held EXCEPT ![t] = @ + n], shared, settledLog)
            /\ Add(wallet, Manager, t, -n)[Manager][t] = wallet[Manager][t] - n
        <4>1. n \in Int /\ balances[Manager][t] + n >= 0 /\ wallet[Manager][t] - n >= 0
          BY <2>3
        <4>2. Manager \in Accounts /\ Sound(balances, wallet, held, shared, settledLog)
          BY <1>1
        <4> HIDE DEF k, wal, bal, hel, col, b
        <4>3. QED
          BY <4>1, <4>2, MoveSound
      <3>2. -n \in Int
        BY <2>3
      <3>3. Differs(Add(wallet, Manager, t, -n), wallet, Manager, t, -n)
        BY <1>1, <3>2, AddFacts
      <3>4. QED
        BY <3>1, <3>3
    <2>6. Sound(bal, wal, hel, shared, settledLog)
      BY <2>4, <2>5
    <2>7. /\ col \in [Assets -> Nat]
          /\ \A u \in Assets : col[u] = totalCollected[u] + (IF u = t THEN k ELSE 0)
      BY <1>1, <2>2
    <2>8. \A u \in Assets : wal[Manager][u] = wallet[Manager][u] + (IF u = t THEN k ELSE 0)
      <3>1. \A u \in Assets : wal[Manager][u] = wallet[Manager][u] + (IF u = t THEN -n ELSE 0)
        BY <1>1, <2>4, <2>5 DEF Differs
      <3>2. QED
        BY <2>3, <3>1
    <2>9. \A u \in Assets : /\ totalDistributed[u] \in Nat /\ wallet[Manager][u] \in Nat
                            /\ totalCollected[u] \in Nat
      BY <1>1 DEF Purse, ManagerTypeOK
    <2> HIDE DEF wal, col, k, bal, hel
    <2>10. Counted(wal, col)
      <3>1. \A u \in Assets : /\ shared[Manager][u] = -totalDistributed[u]
                              /\ totalCollected[u] <= totalDistributed[u] + wallet[Manager][u]
        BY DEF EscrowIInv, TotalsAgree
      <3>2. QED
        BY <2>2, <2>7, <2>8, <2>9, <3>1 DEF Counted
    <2>11. QED
      BY <1>1, <2>1, <2>6, <2>7, <2>10, ShareKept
  <1>4. CASE \/ \E a \in Beneficiaries : SetTreasury(a) \/ SetLPRewardPool(a)
             \/ \E n \in ShareChoices : SetTreasuryShareBps(n)
    <2>1. UNCHANGED <<escrowVars, totalCollected, totalDistributed, shared>>
      BY <1>4 DEF SetTreasury, SetLPRewardPool, SetTreasuryShareBps
    <2>2. UNCHANGED <<balances, wallet, held, feeBps, feeRecipient, bookAuthorized, escrowPaused,
                      settledLog>>
      BY <2>1 DEF escrowVars, funds, escrowConfig
    <2>3. ManagerTypeOK'
      BY <1>4, <2>1, FeeManagerAssumption
      DEF SetTreasury, SetLPRewardPool, SetTreasuryShareBps, EscrowIInv, ManagerTypeOK
    <2>4. ConfigTypeOK' /\ TotalsAgree' /\ Sound(balances, wallet, held, shared, settledLog)'
      BY <2>1, <2>2 DEF EscrowIInv, ConfigTypeOK, TotalsAgree
    <2>5. QED
      BY <2>3, <2>4 DEF EscrowIInv
  <1>5. QED
    BY <1>2, <1>3, <1>4 DEF ManagerOwnerCall

\* A trade is settled, by hand or for the book.
LEMMA SettleKept ==
  ASSUME EscrowIInv, NEW by \in {"owner", "book"}, NEW buyer \in Accounts, NEW seller \in Accounts,
         NEW base \in Assets, NEW quote \in Assets, NEW quantity \in Nat, NEW price \in Nat,
         NEW minBase, NEW minQuote,
         Settles(buyer, seller, base, quote, quantity, price, minBase, minQuote),
         Settle(by, buyer, seller, base, quote, quantity, price), UNCHANGED managerVars
  PROVE  /\ EscrowIInv' /\ UNCHANGED escrowConfig
         /\ \E e \in SettledEvent :
              /\ settledLog' = Append(settledLog, e)
              /\ e.by = by /\ e.buyer = buyer /\ e.seller = seller /\ e.base = base
              /\ e.quote = quote /\ e.quantity = quantity /\ e.price = price
  <1> DEFINE e == [by |-> by, buyer |-> buyer, seller |-> seller, base |-> base, quote |-> quote,
                   quantity |-> quantity, price |-> price, fee |-> Fee(quantity, price),
                   recipient |-> feeRecipient]
             new == Moved(buyer, seller, base, quote, quantity, price)
  <1>1. /\ Sound(balances, wallet, held, shared, settledLog) /\ balances \in Purse
        /\ feeBps \in 0..MaxFeeBps /\ feeRecipient \in Accounts
    BY DEF EscrowIInv, Sound, ConfigTypeOK
  <1>2. balances[buyer][quote] >= QuoteAmount(quantity, price) /\ balances[seller][base] >= quantity
    BY DEF Settles
  <1>3. /\ balances' = new /\ settledLog' = Append(settledLog, e)
        /\ UNCHANGED <<wallet, held, escrowConfig>>
    BY DEF Settle
  <1>4. /\ e.by = by /\ e.buyer = buyer /\ e.seller = seller /\ e.base = base
        /\ e.quote = quote /\ e.quantity = quantity /\ e.price = price
    OBVIOUS
  <1>5. UNCHANGED <<treasury, lpRewardPool, treasuryShareBps, totalCollected, totalDistributed, shared>>
    BY DEF managerVars, shareConfig
  <1>6. /\ e \in SettledEvent /\ new \in Purse
        /\ \A x \in Accounts, u \in Assets : new[x][u] = balances[x][u] + Credit(e, x, u)
        /\ \A u \in Assets : Total(new, u) = Total(balances, u)
    BY <1>1, <1>2, MovedFacts
  <1> HIDE DEF e, new
  <1>7. Sound(new, wallet, held, shared, Append(settledLog, e))
    BY <1>1, <1>6, SettleSound
  <1>8. Sound(balances', wallet', held', shared', settledLog')
    BY <1>3, <1>5, <1>7
  <1>9. ConfigTypeOK' /\ ManagerTypeOK' /\ TotalsAgree'
    BY <1>3, <1>5 DEF EscrowIInv, ConfigTypeOK, escrowConfig, ManagerTypeOK, TotalsAgree
  <1>10. QED
    BY <1>3, <1>4, <1>6, <1>8, <1>9 DEF EscrowIInv

\* The configuration of the escrow changes.
LEMMA ConfigKept ==
  ASSUME EscrowIInv, UNCHANGED <<funds, settledLog, managerVars>>,
         \/ \E f \in FeeChoices : SetFeeBps(f)
         \/ \E r \in Recipients : SetFeeRecipient(r)
         \/ SetFeeRecipient(Manager)
         \/ \E set \in BOOLEAN : SetAuthorizedOrderBook(set)
         \/ PauseEscrow \/ UnpauseEscrow
         \/ UNCHANGED escrowConfig
  PROVE  EscrowIInv'
  <1>1. UNCHANGED <<balances, wallet, held, settledLog, treasury, lpRewardPool, treasuryShareBps,
                    totalCollected, totalDistributed, shared>>
    BY DEF funds, managerVars, shareConfig
  <1>2. Sound(balances, wallet, held, shared, settledLog)' /\ ManagerTypeOK' /\ TotalsAgree'
    BY <1>1 DEF EscrowIInv, ManagerTypeOK, TotalsAgree
  <1>3. ConfigTypeOK'
    <2>1. /\ feeBps \in 0..MaxFeeBps /\ feeRecipient \in Accounts
          /\ bookAuthorized \in BOOLEAN /\ escrowPaused \in BOOLEAN
      BY DEF EscrowIInv, ConfigTypeOK
    <2>2. CASE \E f \in FeeChoices : SetFeeBps(f)
      BY <2>1, <2>2, SettlementAssumption DEF ConfigTypeOK, SetFeeBps
    <2>3. CASE (\E r \in Recipients : SetFeeRecipient(r)) \/ SetFeeRecipient(Manager)
      BY <2>1, <2>3, SettlementAssumption, FeeManagerAssumption DEF ConfigTypeOK, SetFeeRecipient
    <2>4. CASE \E set \in BOOLEAN : SetAuthorizedOrderBook(set)
      BY <2>1, <2>4 DEF ConfigTypeOK, SetAuthorizedOrderBook
    <2>5. CASE PauseEscrow \/ UnpauseEscrow
      BY <2>1, <2>5 DEF ConfigTypeOK, PauseEscrow, UnpauseEscrow
    <2>6. CASE UNCHANGED escrowConfig
      BY <2>1, <2>6 DEF ConfigTypeOK, escrowConfig
    <2>7. QED
      BY <2>2, <2>3, <2>4, <2>5, <2>6
  <1>4. QED
    BY <1>2, <1>3 DEF EscrowIInv

\* The owner of the escrow.
LEMMA EscrowOwnerKeeps ==
  ASSUME EscrowIInv, EscrowOwnerCall, UNCHANGED managerVars
  PROVE  EscrowIInv'
  <1>1. ASSUME NEW a \in Accounts, NEW t \in Assets, ReleaseFunds(a, t)
        PROVE  EscrowIInv'
    BY <1>1, ReleaseKept
  <1>2. CASE \/ \E f \in FeeChoices : SetFeeBps(f)
             \/ \E r \in Recipients : SetFeeRecipient(r)
             \/ \E set \in BOOLEAN : SetAuthorizedOrderBook(set)
             \/ PauseEscrow \/ UnpauseEscrow
    <2>1. UNCHANGED <<funds, settledLog>>
      BY <1>2 DEF SetFeeBps, SetFeeRecipient, SetAuthorizedOrderBook, PauseEscrow, UnpauseEscrow
    <2>2. QED
      BY <1>2, <2>1, ConfigKept
  <1>3. ASSUME NEW buyer \in Accounts, NEW seller \in Accounts, NEW base \in Assets,
               NEW quote \in Assets, NEW q \in Quantities, NEW p \in Prices,
               NEW minBase \in MinimumsOut, NEW minQuote \in MinimumsOut,
               SettleTrade(buyer, seller, base, quote, q, p, minBase, minQuote)
        PROVE  EscrowIInv'
    <2>1. q \in Nat /\ p \in Nat /\ "owner" \in {"owner", "book"}
      BY SettlementAssumption
    <2>2. /\ Settles(buyer, seller, base, quote, q, p, minBase, minQuote)
          /\ Settle("owner", buyer, seller, base, quote, q, p)
      BY <1>3 DEF SettleTrade
    <2>3. QED
      BY <2>1, <2>2, SettleKept
  <1>4. QED
    BY <1>1, <1>2, <1>3 DEF EscrowOwnerCall

-----------------------------------------------------------------------------
(***************************************************************************)
(* The book inside the exchange.                                           *)
(***************************************************************************)
\* Every step of the exchange is one of the book, or leaves it alone.
LEMMA BookSteps == [ExchangeNext]_exchangeVars => [ContractNext]_contractVars
  <1> SUFFICES ASSUME [ExchangeNext]_exchangeVars
               PROVE  [ContractNext]_contractVars
    OBVIOUS
  <1>1. CASE BookCall
    BY <1>1 DEF BookCall, ContractNext
  <1>2. CASE ExecuteAndSettle
    <2>1. \/ settlementSet /\ Execute(TRUE)
          \/ Execute(FALSE)
      BY <1>2 DEF ExecuteAndSettle, HeadSettles
    <2>2. SettleAttempt
      BY <2>1 DEF SettleAttempt
    <2>3. QED
      BY <2>2 DEF ContractNext
  <1>3. CASE EscrowCall
    BY <1>3 DEF EscrowCall
  <1>4. CASE AdminCall
    BY <1>4 DEF AdminCall, ContractNext
  <1>5. CASE Wire
    <2>1. SetSettlement(TRUE) \/ UNCHANGED contractVars
      BY <1>5 DEF Wire
    <2>2. QED
      BY <2>1 DEF ContractNext, OwnerCall
  <1>6. CASE UNCHANGED exchangeVars
    BY <1>6 DEF exchangeVars
  <1>7. QED
    BY <1>1, <1>2, <1>3, <1>4, <1>5, <1>6 DEF ExchangeNext

\* Put between a registry that closes pairs and an escrow that refuses, the book behaves
\* as the book alone, which leaves both open: whatever is proved of ContractSpec, its order
\* of matching and its refinement of Market included, holds of the exchange.
THEOREM ExchangeIsABook == ExchangeSpec => ContractSpec
  <1>1. ExchangeInit => ContractInit
    BY DEF ExchangeInit
  <1>2. QED
    BY <1>1, BookSteps, PTL DEF ExchangeSpec, ContractSpec

\* The two heads are orders of accounts, on a pair of tokens.
LEMMA HeadAccounts ==
  ASSUME Book, HeadsMeet, NEW b, b = Head(Bids), NEW a, a = Head(Asks)
  PROVE  /\ orders[b].trader \in Accounts /\ orders[a].trader \in Accounts
         /\ matching[1] \in Assets /\ matching[2] \in Assets /\ matching = <<matching[1], matching[2]>>
         /\ orders[a].price \in Nat /\ orders[b].price \in Nat
         /\ MatchQty(b, a) \in Nat
  <1>1. matching \in Pairs /\ b \in Placed /\ a \in Placed
    BY HeadFacts
  <1>2. matching \in Tokens \X Tokens /\ Tokens = Assets /\ Traders \subseteq Accounts
    BY <1>1, ExchangeAssumption
  <1>3. /\ b \in Id /\ a \in Id /\ orders[b] \in OrderRecord /\ orders[a] \in OrderRecord
        /\ filled[b] \in Nat /\ filled[a] \in Nat
    BY <1>1, PlacedFacts DEF Book
  <1>4. filled[b] <= orders[b].quantity /\ filled[a] <= orders[a].quantity
    BY <1>1 DEF Book, FillsAgree
  <1>5. /\ orders[b].trader \in Traders /\ orders[a].trader \in Traders
        /\ orders[b].price \in Nat /\ orders[a].price \in Nat
        /\ orders[b].quantity \in Nat /\ orders[a].quantity \in Nat
    BY <1>3 DEF OrderRecord
  <1>6. MatchQty(b, a) \in Nat
    BY <1>3, <1>4, <1>5 DEF MatchQty, Remaining
  <1>7. QED
    BY <1>2, <1>5, <1>6

\* The settlement of the heads of the book.
LEMMA HeadsKept ==
  ASSUME EscrowIInv, Book, HeadsMeet, NEW b, b = Head(Bids), NEW a, a = Head(Asks),
         SettleHeads(b, a), UNCHANGED managerVars
  PROVE  /\ EscrowIInv'
         /\ \E e \in SettledEvent :
              /\ settledLog' = Append(settledLog, e)
              /\ e.by = "book" /\ e.buyer = orders[b].trader /\ e.seller = orders[a].trader
              /\ <<e.base, e.quote>> = matching
              /\ e.quantity = MatchQty(b, a) /\ e.price = orders[a].price
  <1>1. /\ orders[b].trader \in Accounts /\ orders[a].trader \in Accounts
        /\ matching[1] \in Assets /\ matching[2] \in Assets /\ matching = <<matching[1], matching[2]>>
        /\ orders[a].price \in Nat /\ MatchQty(b, a) \in Nat
    BY HeadAccounts
  <1>2. /\ Settles(orders[b].trader, orders[a].trader, matching[1], matching[2], MatchQty(b, a),
                   orders[a].price, 0, 0)
        /\ Settle("book", orders[b].trader, orders[a].trader, matching[1], matching[2],
                  MatchQty(b, a), orders[a].price)
    BY DEF SettleHeads, SettleMatch, MatchSettles
  <1>3. "book" \in {"owner", "book"}
    OBVIOUS
  <1>4. /\ EscrowIInv'
        /\ \E e \in SettledEvent :
              /\ settledLog' = Append(settledLog, e)
              /\ e.by = "book" /\ e.buyer = orders[b].trader /\ e.seller = orders[a].trader
              /\ e.base = matching[1] /\ e.quote = matching[2]
              /\ e.quantity = MatchQty(b, a) /\ e.price = orders[a].price
    BY <1>1, <1>2, <1>3, SettleKept
  <1>5. QED
    BY <1>1, <1>4

\* Where the deployment leaves the escrow.
LEMMA EscrowStarts == EscrowInit /\ ManagerInit => EscrowIInv
  <1> SUFFICES ASSUME EscrowInit, ManagerInit
               PROVE  EscrowIInv
    OBVIOUS
  <1> DEFINE none == [a \in Accounts |-> [t \in Assets |-> 0]]
  <1>1. /\ balances = none /\ wallet = InitialWallet /\ shared = none
        /\ held = [t \in Assets |-> 0] /\ settledLog = <<>>
        /\ \A a \in Accounts, t \in Assets : none[a][t] = 0
    BY DEF EscrowInit, ManagerInit
  <1>2. none \in Purse /\ none \in Ledger /\ InitialWallet \in Purse /\ held \in [Assets -> Nat]
        /\ settledLog \in Seq(SettledEvent)
    BY <1>1, SettlementAssumption DEF Purse, Ledger
  <1> HIDE DEF none
  <1>3. ASSUME NEW t \in Assets
        PROVE  Total(none, t) = 0
    <2> DEFINE w == [a \in Accounts |-> none[a][t]]
    <2>1. \A a \in Accounts : w[a] = 0
      BY <1>1
    <2>2. Total(none, t) = SumFunctionOnSet(w, Accounts) /\ IsFiniteSet(Accounts)
      BY SettlementAssumption DEF Total
    <2> HIDE DEF w
    <2>3. QED
      BY <2>1, <2>2, SumZero
  <1>4. ASSUME NEW t \in Assets
        PROVE  Total(balances, t) = held[t] /\ held[t] + Total(wallet, t) = Total(InitialWallet, t)
    <2>1. Total(InitialWallet, t) \in Nat
      BY <1>2, TotalType DEF Purse
    <2>2. QED
      BY <1>1, <1>3, <2>1
  <1>5. ASSUME NEW a \in Accounts, NEW t \in Assets
        PROVE  CreditSum(settledLog, a, t) = 0
    <2> DEFINE w == [i \in DOMAIN settledLog |-> Credit(settledLog[i], a, t)]
    <2>1. DOMAIN w = {}
      BY <1>1
    <2>2. CreditSum(settledLog, a, t) = SumFunctionOnSet(w, DOMAIN w)
      BY DEF CreditSum, SumFunction
    <2> HIDE DEF w
    <2>3. QED
      BY <2>1, <2>2, SumEmpty
  <1>6. ASSUME NEW a \in Accounts, NEW t \in Assets
        PROVE  balances[a][t] = (InitialWallet[a][t] + shared[a][t] - wallet[a][t])
                                + CreditSum(settledLog, a, t)
    <2>1. InitialWallet[a][t] \in Nat
      BY SettlementAssumption
    <2>2. QED
      BY <1>1, <1>5, <2>1
  <1>7. Sound(balances, wallet, held, shared, settledLog)
    BY <1>1, <1>2, <1>4, <1>6 DEF Sound
  <1>8. ConfigTypeOK
    <2>1. InitialFeeBps \in 0..MaxFeeBps /\ Deployer \in Accounts
      BY SettlementAssumption
    <2>2. /\ feeBps = InitialFeeBps /\ feeRecipient = Deployer
          /\ bookAuthorized = FALSE /\ escrowPaused = FALSE
      BY DEF EscrowInit
    <2>3. QED
      BY <2>1, <2>2 DEF ConfigTypeOK
  <1>9. ManagerTypeOK
    BY SettlementAssumption, FeeManagerAssumption DEF ManagerInit, ManagerTypeOK
  <1>10. TotalsAgree
    <2>1. \A t \in Assets : shared[Manager][t] = 0 /\ wallet[Manager][t] \in Nat
      BY <1>1, <1>2, FeeManagerAssumption DEF Purse
    <2>2. \A t \in Assets : totalCollected[t] = 0 /\ totalDistributed[t] = 0
      BY DEF ManagerInit
    <2>3. QED
      BY <2>1, <2>2 DEF TotalsAgree
  <1>11. QED
    BY <1>7, <1>8, <1>9, <1>10 DEF EscrowIInv

\* Every transaction keeps the escrow, whatever the book does.
LEMMA StepEscrow == EscrowIInv /\ BookInv /\ [ExchangeNext]_exchangeVars => EscrowIInv'
  <1> SUFFICES ASSUME EscrowIInv, BookInv, [ExchangeNext]_exchangeVars
               PROVE  EscrowIInv'
    OBVIOUS
  <1>1. ASSUME UNCHANGED escrowSide
        PROVE  EscrowIInv'
    BY <1>1, ConfigKept DEF escrowSide, escrowVars
  <1>2. CASE BookCall
    BY <1>1, <1>2 DEF BookCall
  <1>3. CASE ExecuteAndSettle
    <2>1. PICK b, a : /\ b = Head(Bids) /\ a = Head(Asks) /\ HeadsMeet /\ UNCHANGED managerVars
                      /\ SettleHeads(b, a) \/ UNCHANGED escrowVars
      BY <1>3 DEF ExecuteAndSettle
    <2>2. CASE SettleHeads(b, a)
      BY <2>1, <2>2, BookInvParts, HeadsKept
    <2>3. CASE UNCHANGED escrowVars
      BY <1>1, <2>1, <2>3 DEF escrowSide
    <2>4. QED
      BY <2>1, <2>2, <2>3
  <1>4. CASE EscrowCall
    BY <1>4, HolderKeeps, CollectKept DEF EscrowCall
  <1>5. CASE AdminCall
    <2>1. CASE OwnerCall /\ UNCHANGED <<escrowSide, registryVars>>
      BY <1>1, <2>1
    <2>2. CASE EscrowOwnerCall /\ UNCHANGED <<contractVars, managerVars, registryVars>>
      BY <2>2, EscrowOwnerKeeps
    <2>3. CASE ManagerOwnerCall
      BY <2>3, ManagerKeeps
    <2>4. CASE RegistryNext /\ UNCHANGED <<contractVars, escrowSide>>
      BY <1>1, <2>4
    <2>5. QED
      BY <1>5, <2>1, <2>2, <2>3, <2>4 DEF AdminCall
  <1>6. CASE Wire
    <2>1. /\ UNCHANGED managerVars
          /\ SetFeeRecipient(Manager) \/ SetAuthorizedOrderBook(TRUE) \/ UNCHANGED escrowVars
      BY <1>6 DEF Wire
    <2>2. UNCHANGED <<funds, settledLog>>
      BY <2>1 DEF SetFeeRecipient, SetAuthorizedOrderBook, escrowVars
    <2>3. /\ UNCHANGED <<funds, settledLog, managerVars>>
          /\ \/ SetFeeRecipient(Manager)
             \/ \E set \in BOOLEAN : SetAuthorizedOrderBook(set)
             \/ UNCHANGED escrowConfig
      BY <2>1, <2>2 DEF escrowVars
    <2>4. QED
      BY <2>3, ConfigKept
  <1>7. CASE UNCHANGED exchangeVars
    BY <1>1, <1>7 DEF exchangeVars
  <1>8. QED
    BY <1>2, <1>3, <1>4, <1>5, <1>6, <1>7 DEF ExchangeNext

\* The books of the escrow and of its fees balance in every state of the exchange.
THEOREM EscrowKept == ExchangeSpec => []EscrowInv
  <1>1. ExchangeInit => BookInv /\ EscrowIInv
    BY InitBook, EscrowStarts DEF ExchangeInit
  <1>2. BookInv /\ EscrowIInv /\ [ExchangeNext]_exchangeVars => (BookInv /\ EscrowIInv)'
    BY BookSteps, StepBook, StepEscrow
  <1>3. EscrowIInv => EscrowInv
    BY EscrowParts
  <1>4. QED
    BY <1>1, <1>2, <1>3, PTL DEF ExchangeSpec

-----------------------------------------------------------------------------
(***************************************************************************)
(* What a pause of the escrow and the closing of a pair stop.              *)
(***************************************************************************)
\* What PauseFreezes says of one step.
Frozen ==
  \A a \in Accounts, t \in Assets :
    \/ balances'[a][t] = balances[a][t]
    \/ balances'[a][t] = 0 /\ wallet'[a][t] = wallet[a][t] + balances[a][t]
       /\ \A x \in Accounts, u \in Assets : <<x, u>> # <<a, t>> => balances'[x][u] = balances[x][u]

\* A release empties one entry and touches no other.
LEMMA ReleaseFrozen ==
  ASSUME balances \in Ledger, wallet \in Ledger, NEW c \in Accounts, NEW v \in Assets,
         ReleaseFunds(c, v)
  PROVE  Frozen
  <1> DEFINE n == balances[c][v]
  <1>1. n \in Int /\ -n \in Int /\ n + (-n) = 0
    BY DEF Ledger
  <1>2. balances' = Add(balances, c, v, -n) /\ wallet' = Add(wallet, c, v, n)
    BY AddEmpties DEF ReleaseFunds, PayOut
  <1>3. Differs(balances', balances, c, v, -n) /\ Differs(wallet', wallet, c, v, n)
    BY <1>1, <1>2, AddFacts
  <1>4. ASSUME NEW x \in Accounts, NEW u \in Assets, <<x, u>> # <<c, v>>
        PROVE  balances'[x][u] = balances[x][u]
    <2>1. balances'[x][u] = balances[x][u] + (IF x = c /\ u = v THEN -n ELSE 0)
      BY <1>3 DEF Differs
    <2>2. balances[x][u] \in Int /\ ~(x = c /\ u = v)
      BY <1>4 DEF Ledger
    <2>3. QED
      BY <2>1, <2>2
  <1>5. balances'[c][v] = 0 /\ wallet'[c][v] = wallet[c][v] + balances[c][v]
    <2>1. balances'[c][v] = n + (-n) /\ wallet'[c][v] = wallet[c][v] + n
      BY <1>3 DEF Differs
    <2>2. QED
      BY <1>1, <2>1
  <1>6. SUFFICES ASSUME NEW a \in Accounts, NEW t \in Assets, balances'[a][t] # balances[a][t]
                 PROVE  a = c /\ t = v
    BY <1>4, <1>5 DEF Frozen
  <1>7. QED
    BY <1>4, <1>6

\* A paused escrow settles, takes and pays nothing but what its owner releases.
THEOREM PauseHolds == ExchangeSpec => PauseFreezes
  <1>1. ExchangeInit => BookInv /\ EscrowIInv
    BY InitBook, EscrowStarts DEF ExchangeInit
  <1>2. BookInv /\ EscrowIInv /\ [ExchangeNext]_exchangeVars => (BookInv /\ EscrowIInv)'
    BY BookSteps, StepBook, StepEscrow
  <1>3. ASSUME EscrowIInv, [ExchangeNext]_exchangeVars, escrowPaused, ~UNCHANGED escrowVars
        PROVE  Frozen
    <2>1. balances \in Ledger /\ wallet \in Ledger /\ balances \in Purse
      BY <1>3, PurseLedger DEF EscrowIInv, Sound
    <2>2. balances' = balances => Frozen
      BY DEF Frozen
    <2>3. CASE ExecuteAndSettle
      BY <1>3, <2>3 DEF ExecuteAndSettle, SettleHeads, SettleMatch, MatchSettles
    <2>4. CASE EscrowCall
      BY <1>3, <2>4 DEF EscrowCall, HolderCall, Deposit, CollectFees, Withdraw
    <2>5. CASE AdminCall
      <3>1. ASSUME NEW a \in Accounts, NEW t \in Assets, ReleaseFunds(a, t)
            PROVE  Frozen
        BY <2>1, <3>1, ReleaseFrozen
      <3>2. ASSUME NEW t \in Assets, CollectAndDistribute(t)
            PROVE  Frozen
        <4>1. Manager \in Accounts
          BY FeeManagerAssumption
        <4>2. balances[Manager][t] = 0 /\ balances' = Add(balances, Manager, t, 0)
          <5>1. balances[Manager][t] \in Nat /\ ~(balances[Manager][t] > 0)
            BY <1>3, <2>1, <3>2, <4>1 DEF CollectAndDistribute, Purse
          <5>2. balances[Manager][t] = 0 /\ -balances[Manager][t] = 0
            BY <5>1
          <5>3. QED
            BY <3>2, <5>2 DEF CollectAndDistribute
        <4>3. Differs(balances', balances, Manager, t, 0)
          BY <2>1, <4>1, <4>2, AddFacts
        <4>4. ASSUME NEW x \in Accounts, NEW u \in Assets
              PROVE  balances'[x][u] = balances[x][u]
          BY <2>1, <4>3 DEF Differs, Ledger
        <4>5. QED
          BY <4>4 DEF Frozen
      <3>3. ASSUME NEW t \in Assets, DistributeFees(t)
            PROVE  balances' = balances
        BY <3>3 DEF DistributeFees
      <3>4. CASE EscrowOwnerCall
        BY <1>3, <2>2, <3>1, <3>4 DEF EscrowOwnerCall, SettleTrade, SetFeeBps, SetFeeRecipient,
           SetAuthorizedOrderBook, PauseEscrow, UnpauseEscrow, funds
      <3>5. CASE ManagerOwnerCall
        BY <1>3, <2>2, <3>2, <3>3, <3>5 DEF ManagerOwnerCall, SetTreasury, SetLPRewardPool,
           SetTreasuryShareBps, escrowVars, funds
      <3>6. QED
        BY <1>3, <2>5, <3>4, <3>5 DEF AdminCall, escrowSide
    <2>6. CASE Wire
      BY <2>2, <2>6 DEF Wire, SetFeeRecipient, SetAuthorizedOrderBook, escrowVars, funds
    <2>7. QED
      BY <1>3, <2>3, <2>4, <2>5, <2>6 DEF ExchangeNext, BookCall, exchangeVars, escrowSide
  <1>4. EscrowIInv /\ [ExchangeNext]_exchangeVars => [escrowPaused => Frozen]_escrowVars
    BY <1>3
  <1>5. QED
    BY <1>1, <1>2, <1>4, PTL DEF ExchangeSpec, PauseFreezes, Frozen

\* What is crossed in the running transaction is on a pair the registry calls active:
\* only the order that has just been placed can cross anything, and its pair was asked
\* for; matchOrder does not ask, but finds nothing crossed.
CrossedIsActive == matching # NoPair /\ ~Uncrossed(matching) => pairActive[matching]

\* The loop never crosses what was not.
LEMMA StaysUncrossed ==
  ASSUME Book, matching \in Pairs, Pops, orders' = orders, matching' = matching, Uncrossed(matching)
  PROVE  Uncrossed(matching)'
  <1>1. ASSUME NEW i \in DOMAIN queue'[matching]["BUY"], NEW j \in DOMAIN queue'[matching]["SELL"]
        PROVE  orders'[queue'[matching]["BUY"][i]].price < orders'[queue'[matching]["SELL"][j]].price
    <2>1. "BUY" \in Side /\ "SELL" \in Side
      BY DEF Side
    <2>2. PICK x \in DOMAIN queue[matching]["BUY"] : queue'[matching]["BUY"][i] = queue[matching]["BUY"][x]
      BY <1>1, <2>1, PopFacts
    <2>3. PICK y \in DOMAIN queue[matching]["SELL"] : queue'[matching]["SELL"][j] = queue[matching]["SELL"][y]
      BY <1>1, <2>1, PopFacts
    <2>4. orders[queue[matching]["BUY"][x]].price < orders[queue[matching]["SELL"][y]].price
      BY DEF Uncrossed
    <2>5. QED
      BY <2>2, <2>3, <2>4
  <1>2. QED
    BY <1>1 DEF Uncrossed

\* A head that is pruned leaves its array, and the others stay.
LEMMA PrunePops ==
  ASSUME Book, PruneBid \/ PruneAsk
  PROVE  Pops /\ matching \in Pairs /\ UNCHANGED <<orders, matching, executed>>
  <1>1. PICK s \in Side : queue[matching][s] # <<>> /\ queue' = [queue EXCEPT ![matching][s] = Tail(@)]
    BY DEF PruneBid, PruneAsk, HeadsMeet, Bids, Asks, Side
  <1>2. queue \in [Pairs -> [Side -> Seq(Placed)]] /\ matching \in Pairs
    BY HeadFacts DEF PruneBid, PruneAsk, Book, BookTypeOK
  <1>3. /\ queue'[matching][s] = Tail(queue[matching][s])
        /\ \A p \in Pairs, t \in Side : ~(p = matching /\ t = s) => queue'[p][t] = queue[p][t]
    BY <1>1, <1>2
  <1>4. Pops
    BY <1>1, <1>3 DEF Pops
  <1>5. QED
    BY <1>2, <1>4 DEF PruneBid, PruneAsk

\* Every step keeps it.
LEMMA StepCrossed ==
  BookInv /\ CrossedIsActive /\ [ExchangeNext]_exchangeVars => CrossedIsActive'
  <1> SUFFICES ASSUME BookInv, CrossedIsActive, [ExchangeNext]_exchangeVars,
                      matching' # NoPair, ~Uncrossed(matching)'
               PROVE  (pairActive[matching])'
    BY DEF CrossedIsActive
  <1>1. Book
    BY BookInvParts
  <1>2. ASSUME NEW r \in Submission, NEW nonce \in Nat, CreateOrder(r, nonce), PairChecked,
               pairActive' = pairActive
        PROVE  (pairActive[matching])'
    <2>1. /\ orderNonce' = orderNonce + 1 /\ orderNonce \in Nat
          /\ orders'[orderNonce + 1] = OrderOf(r, nonce)
          /\ matching' = r.pair
      BY <1>1, <1>2, CreateFacts, PlacedFacts DEF Book
    <2>2. orderNonce' > orderNonce
      BY <2>1
    <2>3. orders'[orderNonce'].pair = r.pair
      BY <2>1 DEF OrderOf
    <2>4. QED
      BY <1>2, <2>1, <2>2, <2>3 DEF PairChecked, IsPairActive
  <1>3. ASSUME Idle, matching' = matching
        PROVE  FALSE
    BY <1>3 DEF Idle
  <1>4. ASSUME NEW p \in Pairs, MatchOrder(p)
        PROVE  FALSE
    <2>1. Uncrossed(p)
      BY <1>1, <1>4, IdleUncrossed DEF MatchOrder
    <2>2. matching' = p /\ queue' = queue /\ orders' = orders
      BY <1>4 DEF MatchOrder
    <2>3. QED
      BY <2>1, <2>2 DEF Uncrossed
  <1>5. ASSUME Pops, matching \in Pairs, UNCHANGED <<orders, matching, pairActive>>
        PROVE  (pairActive[matching])'
    <2>1. ~Uncrossed(matching) /\ matching # NoPair
      BY <1>1, <1>5, StaysUncrossed
    <2>2. QED
      BY <1>5, <2>1 DEF CrossedIsActive
  <1>6. CASE BookCall
    <2>1. PairChecked /\ pairActive' = pairActive
      BY <1>6 DEF BookCall, registryVars
    <2>2. CASE TurnOfLoop
      <3>1. CASE EndMatch
        BY <3>1 DEF EndMatch
      <3>2. CASE PruneBid \/ PruneAsk
        BY <1>1, <1>5, <2>1, <3>2, PrunePops
      <3>3. QED
        BY <2>2, <3>1, <3>2 DEF TurnOfLoop
    <2>3. CASE TraderCall
      BY <1>2, <1>3, <1>4, <2>1, <2>3, CallKinds
    <2>4. CASE NewBlock
      BY <1>3, <2>4 DEF NewBlock, bookVars
    <2>5. QED
      BY <1>6, <2>2, <2>3, <2>4 DEF BookCall
  <1>7. CASE ExecuteAndSettle
    <2>1. pairActive' = pairActive
      BY <1>7 DEF ExecuteAndSettle, registryVars
    <2>2. PICK ok \in BOOLEAN : Execute(ok)
      BY <1>7 DEF ExecuteAndSettle
    <2>3. Pops /\ matching \in Pairs /\ UNCHANGED <<orders, matching>>
      BY <1>1, <2>2, ExecuteFacts, ExecutedQueue
    <2>4. QED
      BY <1>5, <2>1, <2>3
  <1>8. CASE EscrowCall
    BY <1>3, <1>8 DEF EscrowCall, contractVars, bookVars
  <1>9. CASE AdminCall
    BY <1>3, <1>9 DEF AdminCall, contractVars, bookVars, OwnerCall, SetSettlement, SetMinCommitBlocks,
       PauseBook, UnpauseBook
  <1>10. CASE Wire
    BY <1>3, <1>10 DEF Wire, contractVars, bookVars, SetSettlement
  <1>11. CASE UNCHANGED exchangeVars
    <2>1. UNCHANGED <<matching, queue, orders, pairActive>>
      BY <1>11 DEF exchangeVars, contractVars, bookVars, registryVars
    <2>2. ~Uncrossed(matching) /\ matching # NoPair
      BY <2>1 DEF Uncrossed
    <2>3. QED
      BY <2>1, <2>2 DEF CrossedIsActive
  <1>12. QED
    BY <1>6, <1>7, <1>8, <1>9, <1>10, <1>11 DEF ExchangeNext

\* Nothing trades on a pair that is closed, although the loop never asks the registry.
THEOREM ClosedPairsRest == ExchangeSpec => NoTradeOnInactivePair
  <1>1. ExchangeInit => BookInv /\ CrossedIsActive
    BY InitBook DEF ExchangeInit, ContractInit, CrossedIsActive
  <1>2. BookInv /\ CrossedIsActive /\ [ExchangeNext]_exchangeVars => (BookInv /\ CrossedIsActive)'
    BY BookSteps, StepBook, StepCrossed
  <1>3. ASSUME BookInv, CrossedIsActive, [ExchangeNext]_exchangeVars, IsTrade
        PROVE  IsPairActive(matching)
    <2>1. Book
      BY <1>3, BookInvParts
    <2>2. [ContractNext]_contractVars
      BY <1>3, BookSteps
    <2>3. ContractNext
      BY <1>3, <2>2 DEF contractVars, bookVars, IsTrade
    <2>4. PICK ok \in BOOLEAN : Execute(ok)
      BY <1>3, <2>3, OnlyExecuteTrades
    <2>5. PICK b, a : b = Head(Bids) /\ a = Head(Asks)
      OBVIOUS
    <2>6. /\ matching \in Pairs /\ b \in Placed /\ a \in Placed /\ Crosses(b, a)
          /\ b = queue[matching]["BUY"][1] /\ a = queue[matching]["SELL"][1]
          /\ 1 \in DOMAIN queue[matching]["BUY"] /\ 1 \in DOMAIN queue[matching]["SELL"]
      BY <2>1, <2>4, <2>5, ExecuteFacts
    <2>7. orders[b].price \in Nat /\ orders[a].price \in Nat
      BY <2>1, <2>6, PlacedFacts DEF Book
    <2>8. ~Uncrossed(matching)
      BY <2>6, <2>7 DEF Uncrossed, Crosses
    <2>9. matching # NoPair
      BY <2>6, ContractAssumption
    <2>10. QED
      BY <1>3, <2>8, <2>9 DEF CrossedIsActive, IsPairActive
  <1>4. BookInv /\ CrossedIsActive /\ [ExchangeNext]_exchangeVars
          => [IsTrade => IsPairActive(matching)]_exchangeVars
    BY <1>3
  <1>5. QED
    BY <1>1, <1>2, <1>4, PTL DEF ExchangeSpec, NoTradeOnInactivePair

-----------------------------------------------------------------------------
(***************************************************************************)
(* What the book executed and what the escrow settled.                     *)
(***************************************************************************)
\* Counting the members of a set of numbers before one of them, when a larger number
\* joins the set.
LEMMA EarlierFacts ==
  ASSUME NEW n \in Nat, NEW S, S \subseteq 1..n, NEW T, T = S \cup {n + 1}
  PROVE  /\ Cardinality(S) \in Nat /\ Cardinality(T) = Cardinality(S) + 1
         /\ \A i \in S : Earlier(T, i) = Earlier(S, i) /\ Earlier(S, i) \in Nat
                         /\ Earlier(S, i) < Cardinality(S)
         /\ Earlier(T, n + 1) = Cardinality(S)
  <1>1. IsFiniteSet(S)
    <2>1. IsFiniteSet(1..n)
      BY FS_Interval
    <2>2. QED
      BY <2>1, FS_Subset
  <1>2. /\ \A i \in S : i \in Nat /\ i < n + 1
        /\ ~(n + 1 < n + 1)
    OBVIOUS
  <1>3. Cardinality(S) \in Nat /\ Cardinality(T) = Cardinality(S) + 1
    <2>1. n + 1 \notin S
      BY <1>2
    <2>2. QED
      BY <1>1, <2>1, FS_AddElement, FS_CardinalityType
  <1>4. ASSUME NEW i \in S
        PROVE  Earlier(T, i) = Earlier(S, i) /\ Earlier(S, i) \in Nat /\ Earlier(S, i) < Cardinality(S)
    <2> DEFINE B == {j \in S : j < i}
    <2>1. {j \in T : j < i} = B
      BY <1>2
    <2>2. B \in SUBSET S /\ B # S
      BY <1>2
    <2>3. Earlier(T, i) = Cardinality(B) /\ Earlier(S, i) = Cardinality(B)
      BY <2>1 DEF Earlier
    <2> HIDE DEF B
    <2>4. IsFiniteSet(B) /\ Cardinality(B) <= Cardinality(S) /\ Cardinality(B) # Cardinality(S)
      BY <1>1, <2>2, FS_Subset
    <2>5. Cardinality(B) \in Nat
      BY <2>4, FS_CardinalityType
    <2>6. QED
      BY <1>3, <2>3, <2>4, <2>5
  <1>5. Earlier(T, n + 1) = Cardinality(S)
    <2>1. {j \in T : j < n + 1} = S
      BY <1>2
    <2>2. QED
      BY <2>1 DEF Earlier
  <1>6. QED
    BY <1>3, <1>4, <1>5

\* The trades the book announced are between orders it holds, a bid and an ask, at a
\* price the bid allows.
TradesKnown ==
  \A i \in DOMAIN executed :
    /\ executed[i].buy \in Placed /\ executed[i].sell \in Placed
    /\ orders[executed[i].buy].side = "BUY" /\ executed[i].price <= orders[executed[i].buy].price

\* What an order says stays as it is while the book grows.
OrdersKept == Placed \subseteq Placed' /\ \A o \in Placed : orders'[o] = orders[o]

\* An event log that grew by one.
Grew(new, old, e) ==
  /\ Len(old) \in Nat /\ DOMAIN old = 1..Len(old)
  /\ Len(new) = Len(old) + 1 /\ DOMAIN new = 1..(Len(old) + 1)
  /\ new[Len(old) + 1] = e /\ \A i \in 1..Len(old) : new[i] = old[i]

\* Appending to a sequence makes it grow.
LEMMA AppendGrows ==
  ASSUME NEW S, NEW old \in Seq(S), NEW e, NEW new, new = Append(old, e)
  PROVE  Grew(new, old, e)
  <1>1. /\ Len(old) \in Nat /\ DOMAIN old = 1..Len(old)
        /\ Len(new) = Len(old) + 1 /\ DOMAIN new = 1..Len(new)
    OBVIOUS
  <1>2. new[Len(old) + 1] = e /\ \A i \in 1..Len(old) : new[i] = old[i]
    OBVIOUS
  <1>3. QED
    BY <1>1, <1>2 DEF Grew

\* EventsAgree of any orders and logs.
Settled(ex) == {i \in DOMAIN ex : ex[i].settled}
ByBook(log) == {i \in DOMAIN log : log[i].by = "book"}
AgreeIn(ord, x, e) ==
  /\ e.buyer = ord[x.buy].trader /\ e.seller = ord[x.sell].trader
  /\ <<e.base, e.quote>> = ord[x.buy].pair
  /\ e.price = x.price /\ e.quantity = x.quantity
LogsAgree(ord, ex, log) ==
  /\ Cardinality(ByBook(log)) = Cardinality(Settled(ex))
  /\ \A i \in Settled(ex), j \in ByBook(log) :
       Earlier(Settled(ex), i) = Earlier(ByBook(log), j) => AgreeIn(ord, ex[i], log[j])

\* An event of neither kind changes neither set; one of the kind joins it.
LEMMA SettledGrows ==
  ASSUME NEW ex, NEW new, NEW x, Grew(new, ex, x)
  PROVE  /\ Settled(ex) \subseteq 1..Len(ex) /\ \A i \in Settled(ex) : new[i] = ex[i]
         /\ ~x.settled => Settled(new) = Settled(ex)
         /\ x.settled = TRUE => Settled(new) = Settled(ex) \cup {Len(ex) + 1}
  <1>1. \A i \in 1..(Len(ex) + 1) : i \in 1..Len(ex) \/ i = Len(ex) + 1
    BY DEF Grew
  <1>2. \A i \in 1..Len(ex) : i \in 1..(Len(ex) + 1) /\ i # Len(ex) + 1
    BY DEF Grew
  <1>3. Len(ex) + 1 \in 1..(Len(ex) + 1)
    BY DEF Grew
  <1>4. QED
    BY <1>1, <1>2, <1>3 DEF Grew, Settled

\* The entries a settlement by the book adds to the log.
LEMMA ByBookGrows ==
  ASSUME NEW log, NEW new, NEW e, Grew(new, log, e)
  PROVE  /\ ByBook(log) \subseteq 1..Len(log) /\ \A i \in ByBook(log) : new[i] = log[i]
         /\ e.by # "book" => ByBook(new) = ByBook(log)
         /\ e.by = "book" => ByBook(new) = ByBook(log) \cup {Len(log) + 1}
  <1>1. \A i \in 1..(Len(log) + 1) : i \in 1..Len(log) \/ i = Len(log) + 1
    BY DEF Grew
  <1>2. \A i \in 1..Len(log) : i \in 1..(Len(log) + 1) /\ i # Len(log) + 1
    BY DEF Grew
  <1>3. Len(log) + 1 \in 1..(Len(log) + 1)
    BY DEF Grew
  <1>4. QED
    BY <1>1, <1>2, <1>3 DEF Grew, ByBook

\* When one trade is both executed and settled the logs keep agreeing: the events
\* before it are counted as before, and the new ones are counted after all of them.
LEMMA BothGrow ==
  ASSUME NEW ord, NEW ex, NEW log, LogsAgree(ord, ex, log),
         NEW newEx, NEW newLog, NEW x, NEW e,
         Grew(newEx, ex, x), x.settled = TRUE, Grew(newLog, log, e), e.by = "book",
         AgreeIn(ord, x, e)
  PROVE  LogsAgree(ord, newEx, newLog)
  <1> DEFINE n == Len(ex)
             m == Len(log)
             S == Settled(ex)
             B == ByBook(log)
             T == S \cup {n + 1}
             D == B \cup {m + 1}
  <1>1. /\ n \in Nat /\ S \subseteq 1..n /\ Settled(newEx) = T /\ newEx[n + 1] = x
        /\ \A i \in S : newEx[i] = ex[i]
    BY SettledGrows DEF Grew
  <1>2. /\ m \in Nat /\ B \subseteq 1..m /\ ByBook(newLog) = D /\ newLog[m + 1] = e
        /\ \A i \in B : newLog[i] = log[i]
    BY ByBookGrows DEF Grew
  <1>3. /\ Cardinality(S) = Cardinality(B)
        /\ \A i \in S, j \in B : Earlier(S, i) = Earlier(B, j) => AgreeIn(ord, ex[i], log[j])
    BY DEF LogsAgree
  <1> HIDE DEF S, B, n, m
  <1>4. /\ Cardinality(S) \in Nat /\ Cardinality(T) = Cardinality(S) + 1
        /\ \A i \in S : Earlier(T, i) = Earlier(S, i) /\ Earlier(S, i) \in Nat
                        /\ Earlier(S, i) < Cardinality(S)
        /\ Earlier(T, n + 1) = Cardinality(S)
    BY <1>1, EarlierFacts
  <1>5. /\ Cardinality(B) \in Nat /\ Cardinality(D) = Cardinality(B) + 1
        /\ \A i \in B : Earlier(D, i) = Earlier(B, i) /\ Earlier(B, i) \in Nat
                        /\ Earlier(B, i) < Cardinality(B)
        /\ Earlier(D, m + 1) = Cardinality(B)
    BY <1>2, EarlierFacts
  <1>6. ASSUME NEW i \in T, NEW j \in D, Earlier(T, i) = Earlier(D, j)
        PROVE  AgreeIn(ord, newEx[i], newLog[j])
    <2>1. CASE i \in S /\ j \in B
      <3>1. Earlier(S, i) = Earlier(B, j)
        BY <1>4, <1>5, <1>6, <2>1
      <3>2. newEx[i] = ex[i] /\ newLog[j] = log[j]
        BY <1>1, <1>2, <2>1
      <3>3. QED
        BY <1>3, <2>1, <3>1, <3>2
    <2>2. CASE i = n + 1 /\ j = m + 1
      BY <1>1, <1>2, <2>2
    <2>3. CASE i \in S /\ j = m + 1
      <3>1. Earlier(T, i) \in Nat /\ Earlier(T, i) < Cardinality(S)
        BY <1>4, <2>3
      <3>2. Earlier(D, j) = Cardinality(B)
        BY <1>5, <2>3
      <3>3. QED
        BY <1>3, <1>4, <1>6, <3>1, <3>2
    <2>4. CASE i = n + 1 /\ j \in B
      <3>1. Earlier(D, j) \in Nat /\ Earlier(D, j) < Cardinality(B)
        BY <1>5, <2>4
      <3>2. Earlier(T, i) = Cardinality(S)
        BY <1>4, <2>4
      <3>3. QED
        BY <1>3, <1>5, <1>6, <3>1, <3>2
    <2>5. QED
      BY <2>1, <2>2, <2>3, <2>4
  <1>7. QED
    BY <1>1, <1>2, <1>3, <1>4, <1>5, <1>6 DEF LogsAgree

\* An event that is no trade of the book settled by it changes nothing.
LEMMA OneGrows ==
  ASSUME NEW ord, NEW ex, NEW log, LogsAgree(ord, ex, log), NEW newEx, NEW newLog,
         newEx = ex \/ (\E x : Grew(newEx, ex, x) /\ ~x.settled),
         newLog = log \/ (\E e : Grew(newLog, log, e) /\ e.by # "book")
  PROVE  LogsAgree(ord, newEx, newLog)
  <1>1. Settled(newEx) = Settled(ex) /\ \A i \in Settled(ex) : newEx[i] = ex[i]
    BY SettledGrows
  <1>2. ByBook(newLog) = ByBook(log) /\ \A i \in ByBook(log) : newLog[i] = log[i]
    BY ByBookGrows
  <1>3. QED
    BY <1>1, <1>2 DEF LogsAgree

\* Orders that stay as they are keep the logs in agreement.
LEMMA OrdersAgree ==
  ASSUME EventsAgree, TradesKnown, OrdersKept
  PROVE  LogsAgree(orders', executed, settledLog)
  <1>1. LogsAgree(orders, executed, settledLog)
    BY DEF EventsAgree, LogsAgree, BookEvents, SettledTrades, ByBook, Settled, Agree, AgreeIn
  <1>2. \A i \in Settled(executed) : /\ orders'[executed[i].buy] = orders[executed[i].buy]
                                     /\ orders'[executed[i].sell] = orders[executed[i].sell]
    BY DEF TradesKnown, OrdersKept, Settled
  <1>3. \A i \in Settled(executed) : \A e : AgreeIn(orders, executed[i], e) => AgreeIn(orders', executed[i], e)
    BY <1>2 DEF AgreeIn
  <1>4. QED
    BY <1>1, <1>3 DEF LogsAgree

-----------------------------------------------------------------------------
(***************************************************************************)
(* What the book makes a trader pay.                                       *)
(***************************************************************************)
\* What a settlement takes from a trader as the buyer, and what the book has taken.
Charge(e, t) == IF e.buyer = t THEN QuoteAmount(e.quantity, e.price) ELSE 0
Collected(log, t) == SumFunction([i \in ByBook(log) |-> Charge(log[i], t)])

\* One more settlement of the book takes its own charge, one of the owner nothing.
LEMMA TakenFacts ==
  ASSUME NEW log \in Seq(SettledEvent), NEW t
  PROVE  /\ Collected(log, t) \in Int
         /\ \A e \in SettledEvent :
              Collected(Append(log, e), t) = Collected(log, t) + (IF e.by = "book" THEN Charge(e, t) ELSE 0)
  <1> DEFINE B == ByBook(log)
             w == [i \in B |-> Charge(log[i], t)]
  <1>1. /\ Len(log) \in Nat /\ DOMAIN log = 1..Len(log)
        /\ \A i \in 1..Len(log) : log[i] \in SettledEvent
    OBVIOUS
  <1>2. IsFiniteSet(B)
    <2>1. IsFiniteSet(1..Len(log)) /\ B \in SUBSET (1..Len(log))
      BY <1>1, FS_Interval DEF ByBook
    <2>2. QED
      BY <2>1, FS_Subset
  <1>3. \A e \in SettledEvent : Charge(e, t) \in Nat
    BY CreditType DEF Charge
  <1>4. DOMAIN w = B /\ \A i \in B : w[i] = Charge(log[i], t) /\ w[i] \in Nat /\ i \in 1..Len(log)
    BY <1>1, <1>3 DEF ByBook
  <1>5. Collected(log, t) = SumFunctionOnSet(w, B)
    BY <1>4 DEF Collected, SumFunction
  <1> HIDE DEF w, B
  <1>6. IntOn(w, B)
    BY <1>4 DEF IntOn
  <1>7. Collected(log, t) \in Int
    BY <1>2, <1>5, <1>6, SumInt
  <1>8. ASSUME NEW e \in SettledEvent
        PROVE  Collected(Append(log, e), t) = Collected(log, t) + (IF e.by = "book" THEN Charge(e, t) ELSE 0)
    <2> DEFINE new == Append(log, e)
               n == Len(log) + 1
               D == ByBook(new)
               v == [i \in D |-> Charge(new[i], t)]
    <2>1. Grew(new, log, e)
      BY AppendGrows
    <2>2. /\ \A i \in B : new[i] = log[i]
          /\ e.by # "book" => D = B
          /\ e.by = "book" => D = B \cup {n}
      BY <2>1, ByBookGrows DEF B
    <2>3. new[n] = e /\ n \notin B
      BY <1>1, <1>4, <2>1 DEF Grew
    <2>4. DOMAIN v = D /\ \A i \in D : v[i] = Charge(new[i], t)
      OBVIOUS
    <2>5. Collected(new, t) = SumFunctionOnSet(v, D)
      BY <2>4 DEF Collected, SumFunction
    <2>6. B \subseteq D
      BY <2>2
    <2> HIDE DEF new, n, D, v
    <2>7. \A i \in B : v[i] = w[i]
      BY <1>4, <2>2, <2>4, <2>6
    <2>8. SameOn(v, w, B) /\ IntOn(v, B)
      BY <1>4, <2>7 DEF SameOn, IntOn
    <2>9. SumFunctionOnSet(v, B) = SumFunctionOnSet(w, B)
      BY <1>2, <2>8, SumSame
    <2>10. CASE e.by # "book"
      BY <1>5, <1>7, <2>2, <2>5, <2>9, <2>10 DEF new
    <2>11. CASE e.by = "book"
      <3>1. D = B \cup {n} /\ v[n] = Charge(e, t) /\ v[n] \in Int
        BY <1>3, <2>2, <2>3, <2>4, <2>11
      <3>2. IntOn(v, B \cup {n})
        BY <1>4, <2>7, <3>1 DEF IntOn
      <3>3. SumFunctionOnSet(v, B \cup {n}) = v[n] + SumFunctionOnSet(v, B)
        BY <1>2, <2>3, <3>2, SumAdd
      <3>4. Collected(new, t) = Charge(e, t) + Collected(log, t)
        BY <1>5, <2>5, <2>9, <3>1, <3>3
      <3>5. QED
        BY <1>7, <2>11, <3>1, <3>4 DEF new
    <2>12. QED
      BY <2>10, <2>11
  <1>9. QED
    BY <1>7, <1>8

\* Two amounts rounded down are worth at most their sum rounded down, and a lower price
\* never costs more.
LEMMA RoundedApart ==
  ASSUME NEW x \in Nat, NEW y \in Nat, NEW p \in Nat, NEW r \in Nat, r <= p
  PROVE  /\ QuoteAmount(x, p) \in Nat /\ QuoteAmount(y, r) \in Nat /\ QuoteAmount(x + y, p) \in Nat
         /\ QuoteAmount(x, p) + QuoteAmount(y, r) <= QuoteAmount(x + y, p)
  <1> DEFINE a == QuoteAmount(x, p)
             b == QuoteAmount(y, r)
             c == QuoteAmount(x + y, p)
  <1>1. Scale \in Nat \ {0}
    BY SettlementAssumption
  <1>2. x * p \in Nat /\ y * r \in Nat /\ (x + y) * p \in Nat /\ y * p \in Nat
    OBVIOUS
  <1>3. /\ a \in Nat /\ Scale * a <= x * p
        /\ b \in Nat /\ Scale * b <= y * r
        /\ c \in Nat /\ (x + y) * p < Scale * c + Scale
    BY <1>1, <1>2, Quotient DEF QuoteAmount
  <1>4. y * r <= y * p /\ (x + y) * p = x * p + y * p
    OBVIOUS
  <1> HIDE DEF a, b, c
  <1>5. Scale * a \in Nat /\ Scale * b \in Nat /\ Scale * c \in Nat
    BY <1>1, <1>3
  <1>6. Scale * a + Scale * b < Scale * c + Scale
    BY <1>1, <1>2, <1>3, <1>4, <1>5
  <1>7. a + b <= c
    <2> SUFFICES ASSUME a + b >= c + 1 PROVE FALSE
      BY <1>3
    <2>1. Scale * (a + b) >= Scale * (c + 1)
      BY <1>1, <1>3
    <2>2. Scale * (a + b) = Scale * a + Scale * b /\ Scale * (c + 1) = Scale * c + Scale
      BY <1>1, <1>3
    <2>3. QED
      BY <1>1, <1>5, <1>6, <2>1, <2>2
  <1>8. QED
    BY <1>3, <1>7 DEF a, b, c

\* What the fills of some orders are worth at their own prices.
Worth(ord, fil, S) == SumFunction([o \in S |-> QuoteAmount(fil[o], ord[o].price)])
Priced(ord, fil, S) == \A o \in S : QuoteAmount(fil[o], ord[o].price) \in Nat

\* Only what an order was filled and its price count.
LEMMA WorthSame ==
  ASSUME NEW S, IsFiniteSet(S), NEW ord, NEW fil, NEW newOrd, NEW newFil, Priced(ord, fil, S),
         \A o \in S : newOrd[o] = ord[o] /\ newFil[o] = fil[o]
  PROVE  /\ Worth(newOrd, newFil, S) = Worth(ord, fil, S) /\ Worth(ord, fil, S) \in Nat
         /\ Priced(newOrd, newFil, S)
  <1> DEFINE w == [o \in S |-> QuoteAmount(fil[o], ord[o].price)]
             v == [o \in S |-> QuoteAmount(newFil[o], newOrd[o].price)]
  <1>1. /\ Worth(ord, fil, S) = SumFunctionOnSet(w, S)
        /\ Worth(newOrd, newFil, S) = SumFunctionOnSet(v, S)
    BY DEF Worth, SumFunction
  <1>2. SameOn(v, w, S) /\ NatOn(w, S) /\ Priced(newOrd, newFil, S)
    BY DEF SameOn, NatOn, Priced
  <1> HIDE DEF w, v
  <1>3. SumFunctionOnSet(v, S) = SumFunctionOnSet(w, S)
    BY <1>2, SumSame
  <1>4. SumFunctionOnSet(w, S) \in Nat
    BY <1>2, SumNat
  <1>5. QED
    BY <1>1, <1>2, <1>3, <1>4

\* An order that joins adds its own worth.
LEMMA WorthJoin ==
  ASSUME NEW S, IsFiniteSet(S), NEW ord, NEW fil, NEW n, n \notin S, Priced(ord, fil, S \cup {n})
  PROVE  Worth(ord, fil, S \cup {n}) = Worth(ord, fil, S) + QuoteAmount(fil[n], ord[n].price)
  <1> DEFINE R == S \cup {n}
             w == [o \in S |-> QuoteAmount(fil[o], ord[o].price)]
             v == [o \in R |-> QuoteAmount(fil[o], ord[o].price)]
  <1>1. Worth(ord, fil, S) = SumFunctionOnSet(w, S) /\ Worth(ord, fil, R) = SumFunctionOnSet(v, R)
    BY DEF Worth, SumFunction
  <1>2. SameOn(v, w, S) /\ IntOn(v, S \cup {n}) /\ IntOn(w, S)
        /\ v[n] = QuoteAmount(fil[n], ord[n].price) /\ v[n] \in Nat
    BY DEF SameOn, IntOn, Priced
  <1> HIDE DEF w, v
  <1>3. SumFunctionOnSet(v, S) = SumFunctionOnSet(w, S)
    BY <1>2, SumSame
  <1>4. SumFunctionOnSet(v, S \cup {n}) = v[n] + SumFunctionOnSet(v, S)
    BY <1>2, SumAdd
  <1>5. SumFunctionOnSet(w, S) \in Int
    BY <1>2, SumInt
  <1>6. QED
    BY <1>1, <1>2, <1>3, <1>4, <1>5

\* An order that is filled further is worth more by what the fill is worth.
LEMMA WorthFill ==
  ASSUME NEW S, IsFiniteSet(S), NEW ord, NEW fil, NEW newFil, NEW b \in S,
         Priced(ord, fil, S), Priced(ord, newFil, S), \A o \in S \ {b} : newFil[o] = fil[o]
  PROVE  Worth(ord, newFil, S) - Worth(ord, fil, S)
           = QuoteAmount(newFil[b], ord[b].price) - QuoteAmount(fil[b], ord[b].price)
  <1> DEFINE w == [o \in S |-> QuoteAmount(fil[o], ord[o].price)]
             v == [o \in S |-> QuoteAmount(newFil[o], ord[o].price)]
  <1>1. Worth(ord, fil, S) = SumFunctionOnSet(w, S) /\ Worth(ord, newFil, S) = SumFunctionOnSet(v, S)
    BY DEF Worth, SumFunction
  <1>2. IntOn(w, S) /\ IntOn(v, S) /\ SameOn(w, v, S \ {b})
    BY DEF SameOn, IntOn, Priced
  <1>3. /\ w[b] = QuoteAmount(fil[b], ord[b].price) /\ v[b] = QuoteAmount(newFil[b], ord[b].price)
        /\ w[b] \in Int /\ v[b] \in Int
    BY DEF Priced
  <1> HIDE DEF w, v
  <1>4. SumFunctionOnSet(v, S) = SumFunctionOnSet(w, S) + (v[b] - w[b])
    BY <1>2, SumChange
  <1>5. SumFunctionOnSet(w, S) \in Int
    BY <1>2, SumInt
  <1>6. QED
    BY <1>1, <1>3, <1>4, <1>5

\* The orders of a trader that exist are finitely many, and have their worth.
LEMMA BuysFacts ==
  ASSUME Book, NEW t
  PROVE  /\ BuysOf(t) \subseteq Placed /\ IsFiniteSet(BuysOf(t))
         /\ Priced(orders, filled, BuysOf(t))
  <1>1. orderNonce \in Nat /\ \A o \in Placed : filled[o] \in Nat /\ orders[o].price \in Nat
    BY PlacedFacts DEF Book
  <1>2. IsFiniteSet(Placed) /\ BuysOf(t) \in SUBSET Placed
    <2>1. IsFiniteSet(1..orderNonce)
      BY <1>1, FS_Interval
    <2>2. QED
      BY <2>1 DEF Placed, BuysOf
  <1>3. IsFiniteSet(BuysOf(t))
    BY <1>2, FS_Subset
  <1>4. \A o \in Placed : filled[o] * orders[o].price \in Nat
    BY <1>1
  <1>5. \A o \in Placed : QuoteAmount(filled[o], orders[o].price) \in Nat
    BY <1>4, Quotient, SettlementAssumption DEF QuoteAmount
  <1>6. QED
    BY <1>2, <1>3, <1>5 DEF Priced

\* PaidWithinLimits in these words.
LEMMA PaidMeans ==
  /\ PaidWithinLimits <=> \A t \in Traders : Collected(settledLog, t) <= Worth(orders, filled, BuysOf(t))
  /\ PaidWithinLimits' <=>
       \A t \in Traders : Collected(settledLog', t) <= Worth(orders', filled', BuysOf(t)')
  BY DEF PaidWithinLimits, TakenFrom, Collected, Worth, BookEvents, ByBook, Charge
\* EventsAgree in these words.
LEMMA AgreeMeans ==
  /\ EventsAgree <=> LogsAgree(orders, executed, settledLog)
  /\ EventsAgree' <=> LogsAgree(orders', executed', settledLog')
  BY DEF EventsAgree, LogsAgree, BookEvents, SettledTrades, ByBook, Settled, Agree, AgreeIn

\* Book and escrow agree, and what was traded is known.
AgreeIInv == SettlementsAgree /\ TradesKnown

\* A step that neither trades nor places an order: the owner may settle by hand.
LEMMA QuietAgrees ==
  ASSUME Book, AgreeIInv, settledLog \in Seq(SettledEvent),
         UNCHANGED <<orderNonce, orders, filled, executed>>,
         \/ settledLog' = settledLog
         \/ \E e \in SettledEvent : settledLog' = Append(settledLog, e) /\ e.by # "book"
  PROVE  AgreeIInv'
  <1>1. Placed' = Placed /\ TradesKnown'
    BY DEF AgreeIInv, TradesKnown, Placed
  <1>2. EventsAgree'
    <2>1. LogsAgree(orders, executed, settledLog)
      BY AgreeMeans DEF AgreeIInv, SettlementsAgree
    <2>2. settledLog' = settledLog \/ \E e : Grew(settledLog', settledLog, e) /\ e.by # "book"
      BY AppendGrows
    <2>3. LogsAgree(orders, executed, settledLog')
      BY <2>1, <2>2, OneGrows
    <2>4. QED
      BY <2>3, AgreeMeans
  <1>3. PaidWithinLimits'
    <2>1. \A t \in Traders : Collected(settledLog, t) <= Worth(orders, filled, BuysOf(t))
      BY PaidMeans DEF AgreeIInv, SettlementsAgree
    <2>2. \A t : BuysOf(t)' = BuysOf(t)
      BY <1>1 DEF BuysOf
    <2>3. \A t \in Traders : Collected(settledLog', t) = Collected(settledLog, t)
      <3>1. CASE settledLog' = settledLog
        BY <3>1
      <3>2. ASSUME NEW e \in SettledEvent, settledLog' = Append(settledLog, e), e.by # "book",
                   NEW t
            PROVE  Collected(settledLog', t) = Collected(settledLog, t)
        <4>1. Collected(settledLog', t) = Collected(settledLog, t) + 0 /\ Collected(settledLog, t) \in Int
          BY <3>2, TakenFacts
        <4>2. QED
          BY <4>1
      <3>3. QED
        BY <3>1, <3>2
    <2>4. QED
      BY <2>1, <2>2, <2>3, PaidMeans
  <1>4. QED
    BY <1>1, <1>2, <1>3 DEF AgreeIInv, SettlementsAgree

\* A new order has not been filled.
LEMMA CreateAgrees ==
  ASSUME Book, Book', AgreeIInv, settledLog \in Seq(SettledEvent), settledLog' = settledLog,
         NEW r \in Submission, NEW nonce \in Nat, CreateOrder(r, nonce)
  PROVE  AgreeIInv'
  <1> DEFINE n == orderNonce + 1
  <1>1. /\ Placed' = Placed \cup {n} /\ n \notin Placed /\ filled[n] = 0
        /\ \A o \in Placed : orders'[o] = orders[o]
        /\ UNCHANGED <<filled, executed>>
        /\ orders'[n] \in OrderRecord
    BY CreateFacts
  <1>2. OrdersKept
    BY <1>1 DEF OrdersKept
  <1>3. TradesKnown'
    BY <1>1 DEF AgreeIInv, TradesKnown
  <1>4. EventsAgree'
    <2>1. LogsAgree(orders', executed, settledLog)
      BY <1>2, OrdersAgree DEF AgreeIInv, SettlementsAgree
    <2>2. QED
      BY <1>1, <2>1, AgreeMeans
  <1>5. ASSUME NEW t \in Traders
        PROVE  Collected(settledLog', t) <= Worth(orders', filled', BuysOf(t)')
    <2> DEFINE S == BuysOf(t)
               T == BuysOf(t)'
    <2>1. /\ S \subseteq Placed /\ IsFiniteSet(S) /\ Priced(orders, filled, S)
      BY BuysFacts
    <2>2. Priced(orders', filled', T)
      <3>1. (Book => Priced(orders, filled, BuysOf(t)))'
        BY BuysFacts, PTL
      <3>2. QED
        BY <3>1
    <2>3. T = S \/ T = S \cup {n}
      BY <1>1 DEF BuysOf
    <2>4. Collected(settledLog, t) \in Int /\ Collected(settledLog, t) <= Worth(orders, filled, S)
      BY TakenFacts, PaidMeans DEF AgreeIInv, SettlementsAgree
    <2>5. n \notin S /\ filled' = filled /\ \A o \in S : orders'[o] = orders[o]
      BY <1>1, <2>1
    <2> HIDE DEF S, T, n
    <2>6. Worth(orders', filled, S) = Worth(orders, filled, S) /\ Worth(orders, filled, S) \in Nat
      BY <2>1, <2>5, WorthSame
    <2>7. Worth(orders', filled', T) >= Worth(orders', filled, S)
      <3>1. CASE T = S
        BY <2>5, <2>6, <3>1
      <3>2. CASE T = S \cup {n}
        <4>1. Priced(orders', filled, S \cup {n})
          BY <2>2, <2>5, <3>2
        <4>2. Worth(orders', filled, S \cup {n})
                = Worth(orders', filled, S) + QuoteAmount(filled[n], orders'[n].price)
          BY <2>1, <2>5, <4>1, WorthJoin
        <4>3. QuoteAmount(filled[n], orders'[n].price) \in Nat
          BY <4>1 DEF Priced
        <4>4. QED
          BY <2>5, <2>6, <3>2, <4>2, <4>3
      <3>3. QED
        BY <2>3, <3>1, <3>2
    <2>8. Worth(orders', filled', T) \in Int
      <3>1. (Book => IsFiniteSet(BuysOf(t)) /\ Priced(orders, filled, BuysOf(t)))'
        BY BuysFacts, PTL
      <3>2. IsFiniteSet(T) /\ Priced(orders', filled', T)
        BY <3>1 DEF T
      <3>3. QED
        BY <3>2, WorthSame
    <2>9. QED
      BY <2>4, <2>6, <2>7, <2>8 DEF S, T
  <1>6. QED
    BY <1>3, <1>4, <1>5, PaidMeans DEF AgreeIInv, SettlementsAgree

\* The heads trade.  What the trade is charged is within what the bid gains in worth,
\* at its own price; when it is not settled nothing is charged.
LEMMA TradeAgrees ==
  ASSUME Book, Book', AgreeIInv, settledLog \in Seq(SettledEvent),
         NEW ok \in BOOLEAN, Execute(ok), NEW b, b = Head(Bids), NEW a, a = Head(Asks),
         \/ ~ok /\ settledLog' = settledLog
         \/ /\ ok
            /\ \E e \in SettledEvent :
                 /\ settledLog' = Append(settledLog, e) /\ e.by = "book"
                 /\ e.buyer = orders[b].trader /\ e.seller = orders[a].trader
                 /\ <<e.base, e.quote>> = matching
                 /\ e.quantity = MatchQty(b, a) /\ e.price = orders[a].price
  PROVE  AgreeIInv'
  <1> DEFINE q == MatchQty(b, a)
             x == [buy |-> b, sell |-> a, price |-> orders[a].price, quantity |-> q, settled |-> ok]
  <1>1. /\ b \in Placed /\ a \in Placed /\ b # a /\ Crosses(b, a) /\ q \in Nat /\ HeadsMeet
        /\ filled' \in [Id -> Nat] /\ filled'[b] = filled[b] + q
        /\ \A o \in Id : o \notin {a, b} => filled'[o] = filled[o]
        /\ executed' = Append(executed, x)
        /\ UNCHANGED <<orderNonce, orders>>
    BY ExecuteFacts DEF Execute
  <1>2. /\ orders[b].side = "BUY" /\ orders[a].side = "SELL"
        /\ orders[b].pair = matching /\ orders[a].pair = matching
    BY <1>1, HeadFacts
  <1>3. /\ orders[b].price \in Nat /\ orders[a].price \in Nat /\ filled[b] \in Nat /\ filled[a] \in Nat
        /\ \A o \in Placed : o \in Id
        /\ executed \in Seq(TradeRecord) /\ orders[a].price <= orders[b].price
    BY <1>1, PlacedFacts DEF Book, BookTypeOK, Crosses
  <1>4. /\ x.buy = b /\ x.sell = a /\ x.price = orders[a].price /\ x.quantity = q /\ x.settled = ok
    OBVIOUS
  <1>5. Placed' = Placed /\ orders' = orders
    BY <1>1 DEF Placed
  <1> HIDE DEF x, q
  <1>6. Grew(executed', executed, x)
    BY <1>1, <1>3, AppendGrows
  <1>7. TradesKnown'
    <2>1. \A i \in DOMAIN executed' : \/ i \in DOMAIN executed /\ executed'[i] = executed[i]
                                      \/ executed'[i] = x
      BY <1>6 DEF Grew
    <2>2. \A i \in DOMAIN executed : /\ executed[i].buy \in Placed /\ executed[i].sell \in Placed
                                     /\ orders[executed[i].buy].side = "BUY"
                                     /\ executed[i].price <= orders[executed[i].buy].price
      BY DEF AgreeIInv, TradesKnown
    <2>3. x.buy \in Placed /\ x.sell \in Placed /\ orders[x.buy].side = "BUY"
          /\ x.price <= orders[x.buy].price
      BY <1>1, <1>2, <1>3, <1>4
    <2>4. QED
      BY <1>5, <2>1, <2>2, <2>3 DEF TradesKnown
  <1>8. LogsAgree(orders, executed, settledLog)
    BY AgreeMeans DEF AgreeIInv, SettlementsAgree
  <1>9. \A t \in Traders : Collected(settledLog, t) <= Worth(orders, filled, BuysOf(t))
    BY PaidMeans DEF AgreeIInv, SettlementsAgree
  <1>10. EventsAgree'
    <2>1. CASE ~ok
      <3>1. LogsAgree(orders, executed', settledLog')
        BY <1>4, <1>6, <1>8, <2>1, OneGrows
      <3>2. QED
        BY <1>5, <3>1, AgreeMeans
    <2>2. CASE ok
      <3>1. PICK e \in SettledEvent :
                 /\ settledLog' = Append(settledLog, e) /\ e.by = "book"
                 /\ e.buyer = orders[b].trader /\ e.seller = orders[a].trader
                 /\ <<e.base, e.quote>> = matching
                 /\ e.quantity = q /\ e.price = orders[a].price
        BY <2>2 DEF q
      <3>2. Grew(settledLog', settledLog, e)
        BY <3>1, AppendGrows
      <3>3. AgreeIn(orders, x, e)
        BY <1>2, <1>4, <3>1 DEF AgreeIn
      <3>4. LogsAgree(orders, executed', settledLog')
        BY <1>4, <1>6, <1>8, <2>2, <3>1, <3>2, <3>3, BothGrow
      <3>5. QED
        BY <1>5, <3>4, AgreeMeans
    <2>3. QED
      BY <2>1, <2>2
  <1>11. ASSUME NEW t \in Traders
         PROVE  Collected(settledLog', t) <= Worth(orders', filled', BuysOf(t)')
    <2> DEFINE S == BuysOf(t)
    <2>1. /\ S \subseteq Placed /\ IsFiniteSet(S) /\ Priced(orders, filled, S)
      BY BuysFacts
    <2>2. BuysOf(t)' = S
      BY <1>5 DEF BuysOf
    <2>3. Priced(orders, filled', S)
      <3>1. (Book => Priced(orders, filled, BuysOf(t)))'
        BY BuysFacts, PTL
      <3>2. QED
        BY <1>5, <2>2, <3>1
    <2>4. b \in S <=> orders[b].trader = t
      BY <1>1, <1>2 DEF BuysOf
    <2>5. a \notin S
      BY <1>2 DEF BuysOf
    <2>6. /\ Collected(settledLog, t) \in Int /\ Collected(settledLog, t) <= Worth(orders, filled, S)
      BY <1>9, TakenFacts
    <2>7. \/ Collected(settledLog', t) = Collected(settledLog, t)
          \/ /\ orders[b].trader = t
             /\ Collected(settledLog', t) = Collected(settledLog, t) + QuoteAmount(q, orders[a].price)
      <3>1. CASE ~ok
        <4>1. settledLog' = settledLog
          BY <3>1
        <4>2. QED
          BY <4>1
      <3>2. CASE ok
        <4>1. PICK e \in SettledEvent :
                 /\ settledLog' = Append(settledLog, e) /\ e.by = "book"
                 /\ e.buyer = orders[b].trader
                 /\ e.quantity = q /\ e.price = orders[a].price
          BY <3>2 DEF q
        <4>2. Collected(settledLog', t) = Collected(settledLog, t) + Charge(e, t)
          BY <4>1, TakenFacts
        <4>3. Charge(e, t) = IF orders[b].trader = t THEN QuoteAmount(q, orders[a].price) ELSE 0
          BY <4>1 DEF Charge
        <4>4. CASE orders[b].trader = t
          BY <4>2, <4>3, <4>4
        <4>5. CASE orders[b].trader # t
          BY <2>6, <4>2, <4>3, <4>5
        <4>6. QED
          BY <4>4, <4>5
      <3>3. QED
        BY <3>1, <3>2
    <2> HIDE DEF S
    <2>8. Worth(orders, filled, S) \in Nat /\ Worth(orders, filled', S) \in Nat
      BY <2>1, <2>3, WorthSame
    <2>9. CASE b \in S
      <3>1. \A o \in S \ {b} : filled'[o] = filled[o]
        BY <1>1, <1>3, <2>1, <2>5
      <3>2. Worth(orders, filled', S) - Worth(orders, filled, S)
              = QuoteAmount(filled'[b], orders[b].price) - QuoteAmount(filled[b], orders[b].price)
        BY <2>1, <2>3, <2>9, <3>1, WorthFill
      <3>3. /\ QuoteAmount(filled[b], orders[b].price) \in Nat /\ QuoteAmount(q, orders[a].price) \in Nat
            /\ QuoteAmount(filled[b] + q, orders[b].price) \in Nat
            /\ QuoteAmount(filled[b], orders[b].price) + QuoteAmount(q, orders[a].price)
                 <= QuoteAmount(filled[b] + q, orders[b].price)
        BY <1>1, <1>3, RoundedApart
      <3>4. filled'[b] = filled[b] + q
        BY <1>1
      <3>5. Collected(settledLog', t) <= Worth(orders, filled', S)
        BY <2>6, <2>7, <2>8, <3>2, <3>3, <3>4
      <3>6. QED
        BY <1>5, <2>2, <3>5
    <2>10. CASE b \notin S
      <3>1. \A o \in S : filled'[o] = filled[o]
        BY <1>1, <1>3, <2>1, <2>5, <2>10
      <3>2. Worth(orders, filled', S) = Worth(orders, filled, S)
        BY <2>1, <3>1, WorthSame
      <3>3. Collected(settledLog', t) = Collected(settledLog, t)
        BY <2>4, <2>7, <2>10
      <3>4. QED
        BY <1>5, <2>2, <2>6, <3>2, <3>3
    <2>11. QED
      BY <2>9, <2>10
  <1>12. QED
    BY <1>7, <1>10, <1>11, PaidMeans DEF AgreeIInv, SettlementsAgree

\* What the owner of the escrow settles is no event of the book.
LEMMA OwnerLog ==
  ASSUME EscrowIInv, EscrowOwnerCall, UNCHANGED managerVars
  PROVE  \/ settledLog' = settledLog
         \/ \E e \in SettledEvent : settledLog' = Append(settledLog, e) /\ e.by # "book"
  <1>1. ASSUME NEW buyer \in Accounts, NEW seller \in Accounts, NEW base \in Assets,
               NEW quote \in Assets, NEW q \in Quantities, NEW p \in Prices,
               NEW minBase \in MinimumsOut, NEW minQuote \in MinimumsOut,
               SettleTrade(buyer, seller, base, quote, q, p, minBase, minQuote)
        PROVE  \E e \in SettledEvent : settledLog' = Append(settledLog, e) /\ e.by # "book"
    <2>1. q \in Nat /\ p \in Nat /\ "owner" \in {"owner", "book"}
      BY SettlementAssumption
    <2>2. /\ Settles(buyer, seller, base, quote, q, p, minBase, minQuote)
          /\ Settle("owner", buyer, seller, base, quote, q, p)
      BY <1>1 DEF SettleTrade
    <2>3. \E e \in SettledEvent : settledLog' = Append(settledLog, e) /\ e.by = "owner"
      BY <2>1, <2>2, SettleKept
    <2>4. QED
      BY <2>3
  <1>2. QED
    BY <1>1 DEF EscrowOwnerCall, ReleaseFunds, SetFeeBps, SetFeeRecipient, SetAuthorizedOrderBook,
       PauseEscrow, UnpauseEscrow

\* Every step keeps book and escrow in agreement.
LEMMA StepAgree ==
  BookInv /\ BookInv' /\ EscrowIInv /\ AgreeIInv /\ [ExchangeNext]_exchangeVars => AgreeIInv'
  <1> SUFFICES ASSUME BookInv, BookInv', EscrowIInv, AgreeIInv, [ExchangeNext]_exchangeVars
               PROVE  AgreeIInv'
    OBVIOUS
  <1>1. Book /\ Book' /\ settledLog \in Seq(SettledEvent)
    BY BookInvParts DEF EscrowIInv, Sound, BookInv, Book, ContractTypeOK
  <1>2. ASSUME UNCHANGED <<orderNonce, orders, filled, executed, settledLog>>
        PROVE  AgreeIInv'
    BY <1>1, <1>2, QuietAgrees
  <1>3. CASE BookCall
    <2>1. settledLog' = settledLog
      BY <1>3 DEF BookCall, escrowSide, escrowVars
    <2>2. CASE TurnOfLoop
      BY <1>2, <2>1, <2>2 DEF TurnOfLoop, PruneBid, PruneAsk, EndMatch
    <2>3. CASE TraderCall
      BY <1>1, <1>2, <2>1, <2>3, CallKinds, CreateAgrees DEF MatchOrder
    <2>4. CASE NewBlock
      BY <1>2, <2>1, <2>4 DEF NewBlock, bookVars
    <2>5. QED
      BY <1>3, <2>2, <2>3, <2>4 DEF BookCall
  <1>4. CASE ExecuteAndSettle
    <2>1. PICK b, a : /\ b = Head(Bids) /\ a = Head(Asks) /\ HeadsMeet /\ UNCHANGED managerVars
                      /\ \/ SettleHeads(b, a) /\ Execute(TRUE)
                         \/ Execute(FALSE) /\ UNCHANGED escrowVars
      BY <1>4 DEF ExecuteAndSettle
    <2>2. CASE SettleHeads(b, a) /\ Execute(TRUE)
      <3>1. \E e \in SettledEvent :
              /\ settledLog' = Append(settledLog, e) /\ e.by = "book"
              /\ e.buyer = orders[b].trader /\ e.seller = orders[a].trader
              /\ <<e.base, e.quote>> = matching
              /\ e.quantity = MatchQty(b, a) /\ e.price = orders[a].price
        BY <1>1, <2>1, <2>2, HeadsKept
      <3>2. TRUE \in BOOLEAN /\ Execute(TRUE)
        BY <2>2
      <3>3. QED
        BY <1>1, <2>1, <3>1, <3>2, TradeAgrees
    <2>3. CASE Execute(FALSE) /\ UNCHANGED escrowVars
      BY <1>1, <2>1, <2>3, TradeAgrees DEF escrowVars
    <2>4. QED
      BY <2>1, <2>2, <2>3
  <1>5. ASSUME UNCHANGED contractVars
        PROVE  UNCHANGED <<orderNonce, orders, filled, executed>>
    BY <1>5 DEF contractVars, bookVars
  <1>6. CASE EscrowCall
    <2>1. settledLog' = settledLog
      BY <1>6 DEF EscrowCall, HolderCall, Deposit, CollectFees, Withdraw
    <2>2. QED
      BY <1>2, <1>5, <1>6, <2>1 DEF EscrowCall
  <1>7. CASE AdminCall
    <2>1. CASE OwnerCall /\ UNCHANGED <<escrowSide, registryVars>>
      BY <1>2, <2>1 DEF OwnerCall, SetSettlement, SetMinCommitBlocks, PauseBook, UnpauseBook, bookVars,
         escrowSide, escrowVars
    <2>2. CASE EscrowOwnerCall /\ UNCHANGED <<contractVars, managerVars, registryVars>>
      <3>1. UNCHANGED <<orderNonce, orders, filled, executed>>
        BY <1>5, <2>2
      <3>2. \/ settledLog' = settledLog
            \/ \E e \in SettledEvent : settledLog' = Append(settledLog, e) /\ e.by # "book"
        BY <2>2, OwnerLog
      <3>3. QED
        BY <1>1, <3>1, <3>2, QuietAgrees
    <2>3. CASE ManagerOwnerCall /\ UNCHANGED <<contractVars, registryVars>>
      BY <1>2, <1>5, <2>3 DEF ManagerOwnerCall, DistributeFees, CollectAndDistribute, SetTreasury,
         SetLPRewardPool, SetTreasuryShareBps, escrowVars
    <2>4. CASE RegistryNext /\ UNCHANGED <<contractVars, escrowSide>>
      BY <1>2, <1>5, <2>4 DEF escrowSide, escrowVars
    <2>5. QED
      BY <1>7, <2>1, <2>2, <2>3, <2>4 DEF AdminCall
  <1>8. CASE Wire
    BY <1>2, <1>5, <1>8 DEF Wire, SetFeeRecipient, SetAuthorizedOrderBook, SetSettlement, escrowVars, bookVars
  <1>9. CASE UNCHANGED exchangeVars
    BY <1>2, <1>5, <1>9 DEF exchangeVars, escrowSide, escrowVars
  <1>10. QED
    BY <1>3, <1>4, <1>6, <1>7, <1>8, <1>9 DEF ExchangeNext

\* Before the first order nothing was traded or settled.
LEMMA AgreeStarts == ExchangeInit => AgreeIInv
  <1> SUFFICES ASSUME ExchangeInit PROVE AgreeIInv
    OBVIOUS
  <1>1. executed = <<>> /\ settledLog = <<>> /\ orderNonce = 0
    BY DEF ExchangeInit, ContractInit, EscrowInit
  <1>2. Placed = {} /\ DOMAIN executed = {} /\ DOMAIN settledLog = {}
    BY <1>1 DEF Placed
  <1>3. TradesKnown
    BY <1>2 DEF TradesKnown
  <1>4. EventsAgree
    BY <1>2 DEF EventsAgree, BookEvents, SettledTrades
  <1>5. ASSUME NEW t \in Traders
        PROVE  Collected(settledLog, t) <= Worth(orders, filled, BuysOf(t))
    <2> DEFINE w == [i \in ByBook(settledLog) |-> Charge(settledLog[i], t)]
               v == [o \in BuysOf(t) |-> QuoteAmount(filled[o], orders[o].price)]
    <2>1. DOMAIN w = {} /\ DOMAIN v = {}
      BY <1>2 DEF ByBook, BuysOf
    <2>2. Collected(settledLog, t) = SumFunctionOnSet(w, DOMAIN w)
          /\ Worth(orders, filled, BuysOf(t)) = SumFunctionOnSet(v, DOMAIN v)
      BY DEF Collected, Worth, SumFunction
    <2> HIDE DEF w, v
    <2>3. SumFunctionOnSet(w, {}) = 0 /\ SumFunctionOnSet(v, {}) = 0
      BY SumEmpty
    <2>4. QED
      BY <2>1, <2>2, <2>3
  <1>6. QED
    BY <1>3, <1>4, <1>5, PaidMeans DEF AgreeIInv, SettlementsAgree

\* The escrow settles what the book executed, in its order and at its prices, and never
\* takes more from a buyer than its limits allow.
THEOREM BookAndEscrowAgree == ExchangeSpec => []SettlementsAgree
  <1>1. ExchangeInit => BookInv /\ EscrowIInv /\ AgreeIInv
    BY InitBook, EscrowStarts, AgreeStarts DEF ExchangeInit
  <1>2. BookInv /\ EscrowIInv /\ AgreeIInv /\ [ExchangeNext]_exchangeVars
          => (BookInv /\ EscrowIInv /\ AgreeIInv)'
    BY BookSteps, StepBook, StepEscrow, StepAgree
  <1>3. AgreeIInv => SettlementsAgree
    BY DEF AgreeIInv
  <1>4. QED
    BY <1>1, <1>2, <1>3, PTL DEF ExchangeSpec

-----------------------------------------------------------------------------
(***************************************************************************)
(* The liquidity pool.                                                     *)
(***************************************************************************)
(***************************************************************************)
(* Arithmetic.                                                             *)
(***************************************************************************)
\* A quotient is rounded down.
LEMMA Floor ==
  ASSUME NEW x \in Nat, NEW y \in Nat \ {0}
  PROVE  x \div y \in Nat /\ (x \div y) * y <= x
  OBVIOUS

\* Factors of an inequality.
LEMMA Scaled ==
  ASSUME NEW x \in Int, NEW y \in Int, NEW k \in Nat, x <= y
  PROVE  x * k <= y * k
  OBVIOUS

\* A comparison keeps when both sides are scaled twice.
LEMMA ScaledTwice ==
  ASSUME NEW x \in Nat, NEW y \in Nat, NEW k \in Nat, x <= y
  PROVE  x * k * k <= y * k * k
<1>1. x * k <= y * k /\ x * k \in Nat /\ y * k \in Nat
  BY Scaled
<1> QED
  BY <1>1, Scaled

\* A positive factor can be left out of a comparison.
LEMMA Unscaled ==
  ASSUME NEW x \in Int, NEW y \in Int, NEW k \in Nat \ {0}, x * k <= y * k
  PROVE  x <= y
  OBVIOUS

\* Two comparisons multiply.
LEMMA BothScaled ==
  ASSUME NEW x \in Nat, NEW y \in Nat, NEW u \in Nat, NEW v \in Nat, x <= y, u <= v
  PROVE  x * u <= y * v
<1>1. x * u <= y * u
  BY Scaled
<1>2. u * y <= v * y
  BY Scaled
<1> QED
  BY <1>1, <1>2

(***************************************************************************)
(* The three operations that change reserves or shares.                    *)
(***************************************************************************)
\* Reserves that fall by no more, or grow by no less, than the shares do in
\* proportion: r and q before, t and u after, for a supply of s before and w after.
LEMMA InProportion ==
  ASSUME NEW r \in Nat, NEW q \in Nat, NEW t \in Nat, NEW u \in Nat,
         NEW s \in Nat, NEW w \in Nat,
         r * w <= t * s, q * w <= u * s
  PROVE  (r * q) * w * w <= (t * u) * s * s
<1>1. (r * w) * (q * w) <= (t * s) * (u * s)
  <2>1. r * w \in Nat /\ t * s \in Nat /\ q * w \in Nat /\ u * s \in Nat
    OBVIOUS
  <2> QED
    BY <2>1, BothScaled
<1>2. (r * w) * (q * w) = (r * q) * w * w
  OBVIOUS
<1>3. (t * s) * (u * s) = (t * u) * s * s
  OBVIOUS
<1> QED
  BY <1>1, <1>2, <1>3

\* removeLiquidity pays no more than its part of a reserve r.
LEMMA WithdrawnInProportion ==
  ASSUME NEW r \in Nat, NEW s \in Nat \ {0}, NEW n \in Nat, n < s
  PROVE  LET a == (n * r) \div s
         IN a \in Nat /\ a <= r /\ (r > 0 => a < r) /\ r * (s - n) <= (r - a) * s
<1> DEFINE a == (n * r) \div s
<1>1. n * r \in Nat
  OBVIOUS
<1>2. a \in Nat /\ a * s <= n * r
  BY <1>1, Floor
<1> HIDE DEF a
<1>3. r * (s - n) = r * s - n * r /\ (r - a) * s = r * s - a * s
  BY <1>2
<1>4. r * (s - n) <= (r - a) * s
  BY <1>2, <1>3
<1>5. ASSUME r > 0 PROVE a < r
  <2>1. SUFFICES ASSUME a >= r PROVE FALSE
    BY <1>2
  <2>2. r * s <= a * s
    BY <2>1, <1>2, Scaled
  <2>3. n * r < s * r
    BY <1>5
  <2> QED
    BY <1>1, <1>2, <2>2, <2>3
<1>6. a <= r
  <2>1. CASE r = 0
    <3>1. a * s <= 0 * s
      BY <1>2, <2>1
    <3> QED
      BY <1>2, <2>1, <3>1, Unscaled
  <2> QED
    BY <1>2, <1>5, <2>1
<1> QED
  BY <1>2, <1>4, <1>5, <1>6 DEF a

\* addLiquidity mints no more than the part of a reserve r that the amount a is.
LEMMA MintedInProportion ==
  ASSUME NEW r \in Nat \ {0}, NEW s \in Nat, NEW a \in Nat, NEW m \in Nat,
         m <= (a * s) \div r
  PROVE  r * (s + m) <= (r + a) * s
<1> DEFINE q == (a * s) \div r
<1>1. a * s \in Nat
  OBVIOUS
<1>2. q \in Nat /\ q * r <= a * s
  BY <1>1, Floor
<1> HIDE DEF q
<1>3. m <= q
  BY DEF q
<1>4. m * r <= q * r
  BY <1>2, <1>3, Scaled
<1>5. r * (s + m) = r * s + m * r /\ (r + a) * s = r * s + a * s
  OBVIOUS
<1> QED
  BY <1>1, <1>2, <1>4, <1>5

\* swap: what goes out leaves the product of the reserves in and out no smaller.
LEMMA SwapKeepsProduct ==
  ASSUME NEW in \in Nat \ {0}, NEW out \in Nat \ {0}, NEW n \in Nat \ {0},
         PoolAssumption, AmountOut(n, in, out) < out
  PROVE  /\ AmountOut(n, in, out) \in Nat
         /\ in * out <= (in + n) * (out - AmountOut(n, in, out))
<1> DEFINE g == FeeDenominator - FeeBps
           net == n * g
           den == in * FeeDenominator + net
           x == AmountOut(n, in, out)
<1>1. g \in Nat \ {0} /\ FeeDenominator \in Nat \ {0} /\ g <= FeeDenominator
  BY DEF PoolAssumption
<1> HIDE DEF g
<1>2. net \in Nat /\ in * FeeDenominator \in Nat \ {0}
  BY <1>1
<1>3. den \in Nat \ {0}
  BY <1>2
<1>4. out * net \in Nat
  BY <1>2
<1>5. x = (out * net) \div den
  BY DEF AmountOut, g
<1> HIDE DEF x, net, den
<1>6. x \in Nat /\ x * den <= out * net
  BY <1>3, <1>4, <1>5, Floor
<1>7. out - x \in Nat
  BY <1>6 DEF x
<1>8. (out - x) * den = out * den - x * den
  BY <1>3, <1>6
<1>9. out * den = out * (in * FeeDenominator) + out * net
  BY <1>2 DEF den
<1>10. out * (in * FeeDenominator) <= den * (out - x)
  <2>1. out * (in * FeeDenominator) \in Nat /\ x * den \in Nat /\ out * den \in Nat
    BY <1>2, <1>3, <1>6
  <2>2. (out - x) * den = den * (out - x)
    BY <1>3, <1>7
  <2> QED
    BY <1>4, <1>6, <1>8, <1>9, <2>1, <2>2
<1>11. den <= (in + n) * FeeDenominator
  <2>1. g * n <= FeeDenominator * n
    BY <1>1, Scaled
  <2>2. (in + n) * FeeDenominator = in * FeeDenominator + FeeDenominator * n
    BY <1>1
  <2>3. net = g * n
    BY <1>1 DEF net
  <2> QED
    BY <1>1, <1>2, <2>1, <2>2, <2>3 DEF den
<1>12. den * (out - x) <= ((in + n) * FeeDenominator) * (out - x)
  <2>1. (in + n) * FeeDenominator \in Nat
    BY <1>1
  <2> QED
    BY <1>3, <1>7, <1>11, <2>1, Scaled
<1>13. (in * out) * FeeDenominator <= ((in + n) * (out - x)) * FeeDenominator
  <2>1. (in * out) * FeeDenominator = out * (in * FeeDenominator)
    BY <1>1
  <2>2. ((in + n) * (out - x)) * FeeDenominator = ((in + n) * FeeDenominator) * (out - x)
    BY <1>1, <1>7
  <2>3. /\ out * (in * FeeDenominator) \in Int /\ den * (out - x) \in Int
        /\ ((in + n) * FeeDenominator) * (out - x) \in Int
    BY <1>1, <1>2, <1>3, <1>7
  <2> QED
    BY <1>10, <1>12, <2>1, <2>2, <2>3
<1>14. in * out \in Int /\ (in + n) * (out - x) \in Int
  BY <1>7
<1>15. in * out <= (in + n) * (out - x)
  BY <1>1, <1>13, <1>14, Unscaled
<1> QED
  BY <1>6, <1>15 DEF x

(***************************************************************************)
(* The steps.                                                              *)
(***************************************************************************)
\* Funds is the part of PoolTypeOK that a transfer between account and pool can
\* disturb.
LEMMA PaysKeeps ==
  ASSUME PoolTypeOK, NEW p \in Providers, NEW amount \in [Coin -> Int], Pays(p, amount)
  PROVE  /\ purse' \in [Providers -> [Coin -> Nat]]
         /\ vault' = [c \in Coin |-> vault[c] + amount[c]]
<1>1. \A c \in Coin : purse[p][c] - amount[c] \in Nat
  BY DEF PoolTypeOK, Pays
<1>2. [c \in Coin |-> purse[p][c] - amount[c]] \in [Coin -> Nat]
  BY <1>1
<1> QED
  BY <1>2 DEF PoolTypeOK, Pays

\* What the type of the pool says of its reserves.
LEMMA Reserves ==
  ASSUME PoolTypeOK
  PROVE  /\ reserve["A"] \in Nat /\ reserve["B"] \in Nat
         /\ supply > 0 <=> reserve["A"] > 0
         /\ supply > 0 <=> reserve["B"] > 0
BY DEF PoolTypeOK, Coin

\* What the pool takes of an offer.
LEMMA TakenType ==
  ASSUME PoolTypeOK, NEW a \in Nat, NEW b \in Nat
  PROVE  /\ Taken(a, b) \in [Coin -> Nat]
         /\ IsEmpty => Taken(a, b)["A"] = a /\ Taken(a, b)["B"] = b
<1>1. CASE IsEmpty
  BY <1>1 DEF Taken, Coin
<1>2. CASE ~IsEmpty
  <2>1. reserve["A"] \in Nat \ {0} /\ reserve["B"] \in Nat \ {0}
    BY <1>2, Reserves DEF IsEmpty
  <2>2. a * reserve["B"] \in Nat /\ b * reserve["A"] \in Nat
    BY <2>1
  <2>3. BFor(a) \in Nat /\ AFor(b) \in Nat
    BY <2>1, <2>2, Floor DEF BFor, AFor
  <2> QED
    BY <1>2, <2>3 DEF Taken, Coin
<1> QED
  BY <1>1, <1>2

\* addLiquidity.
LEMMA AddStep ==
  ASSUME PoolAssumption, PoolTypeOK,
         NEW p \in Providers, NEW a \in Desired, NEW b \in Desired,
         NEW minA, NEW minB, AddLiquidity(p, a, b, minA, minB)
  PROVE  /\ PoolTypeOK'
         /\ Product * supply' * supply' <= Product' * supply * supply
<1> DEFINE amount == Taken(a, b)
           m == Minted(amount)
           locked == IF supply = 0 THEN MinimumLiquidity ELSE 0
<1>1. a \in Nat \ {0} /\ b \in Nat \ {0}
  <2>1. a \in Nat /\ b \in Nat
    BY DEF PoolAssumption
  <2>2. a > 0 /\ b > 0
    BY DEF AddLiquidity
  <2> QED
    BY <2>1, <2>2
<1>2. /\ amount \in [Coin -> Nat]
      /\ IsEmpty => amount["A"] = a /\ amount["B"] = b
  BY <1>1, TakenType
<1>3. m \in Nat \ {0} /\ locked \in Nat
  BY DEF AddLiquidity, PoolAssumption
<1>4. /\ shares' = [shares EXCEPT ![p] = @ + m, ![Lock] = @ + locked]
      /\ supply' = supply + m + locked
      /\ reserve' = [c \in Coin |-> reserve[c] + amount[c]]
      /\ Pays(p, amount) /\ poolPaused' = poolPaused
      /\ entryPrice' = [entryPrice EXCEPT ![p] = PriceOf(reserve')]
  BY DEF AddLiquidity
<1>5. supply = 0 => IsEmpty
  BY Reserves DEF IsEmpty, PoolTypeOK
<1> HIDE DEF amount, m, locked
<1>6. PoolTypeOK'
  <2>1. purse' \in [Providers -> [Coin -> Nat]] /\ vault' = [c \in Coin |-> vault[c] + amount[c]]
    <3>1. amount \in [Coin -> Int]
      BY <1>2
    <3> QED
      BY <1>4, <3>1, PaysKeeps
  <2>2. reserve' \in [Coin -> Nat] /\ vault' \in [Coin -> Nat] /\ supply' \in Nat \ {0}
    BY <1>2, <1>3, <1>4, <2>1 DEF PoolTypeOK
  <2>3. shares' \in [Holders -> Nat]
    <3>1. shares \in [Holders -> Nat] /\ p \in Holders /\ Lock \in Holders
      BY DEF PoolTypeOK, Holders
    <3> QED
      BY <1>3, <1>4, <3>1
  <2>4. ASSUME NEW c \in Coin PROVE vault'[c] >= reserve'[c] /\ reserve'[c] > 0
    <3>1. amount[c] \in Nat /\ vault[c] \in Nat /\ reserve[c] \in Nat
      BY <1>2 DEF PoolTypeOK
    <3>2. reserve[c] > 0 \/ amount[c] > 0
      BY <1>1, <1>2, <1>5 DEF PoolTypeOK, Coin
    <3> QED
      BY <1>4, <2>1, <3>1, <3>2 DEF PoolTypeOK
  <2>5. entryPrice' \in [Providers -> Nat]
    <3>1. reserve'["A"] \in Nat \ {0} /\ reserve'["B"] \in Nat
      BY <2>2, <2>4 DEF Coin
    <3>2. reserve'["B"] * PriceScale \in Nat
      BY <3>1, PoolAssumption DEF PoolAssumption
    <3>3. PriceOf(reserve') \in Nat
      BY <3>1, <3>2, Floor DEF PriceOf
    <3>4. entryPrice \in [Providers -> Nat]
      BY DEF PoolTypeOK
    <3> QED
      BY <1>4, <3>3, <3>4
  <2>6. \A c \in Coin : vault'[c] >= reserve'[c] /\ (supply' > 0 <=> reserve'[c] > 0)
    BY <2>2, <2>4
  <2>7. poolPaused' \in BOOLEAN /\ supply' \in Nat
    BY <1>4, <2>2 DEF PoolTypeOK
  <2> QED
    BY <2>1, <2>2, <2>3, <2>5, <2>6, <2>7 DEF PoolTypeOK
<1>7. Product * supply' * supply' <= Product' * supply * supply
  <2>1. reserve'["A"] = reserve["A"] + amount["A"] /\ reserve'["B"] = reserve["B"] + amount["B"]
    BY <1>4 DEF Coin
  <2>2. /\ reserve["A"] \in Nat /\ reserve["B"] \in Nat /\ supply \in Nat
        /\ amount["A"] \in Nat /\ amount["B"] \in Nat
    BY <1>2 DEF PoolTypeOK, Coin
  <2>3. CASE supply = 0
    <3>1. Product = 0
      BY <1>5, <2>3, <2>2 DEF IsEmpty, Product
    <3> QED
      BY <1>3, <1>4, <2>1, <2>2, <2>3, <3>1 DEF Product
  <2>4. CASE supply # 0
    <3>1. reserve["A"] \in Nat \ {0} /\ reserve["B"] \in Nat \ {0}
      BY <2>2, <2>4, Reserves
    <3>2. /\ (amount["A"] * supply) \div reserve["A"] \in Nat
          /\ (amount["B"] * supply) \div reserve["B"] \in Nat
      <4>1. amount["A"] * supply \in Nat /\ amount["B"] * supply \in Nat
        BY <2>2
      <4> QED
        BY <3>1, <4>1, Floor
    <3>3. /\ m <= (amount["A"] * supply) \div reserve["A"]
          /\ m <= (amount["B"] * supply) \div reserve["B"]
      BY <2>4, <3>2 DEF m, Minted
    <3>4. supply' = supply + m
      BY <1>3, <1>4, <2>2, <2>4 DEF locked
    <3>5. /\ reserve["A"] * (supply + m) <= (reserve["A"] + amount["A"]) * supply
          /\ reserve["B"] * (supply + m) <= (reserve["B"] + amount["B"]) * supply
      BY <1>3, <2>2, <3>1, <3>3, MintedInProportion
    <3>6. supply + m \in Nat /\ reserve["A"] + amount["A"] \in Nat /\ reserve["B"] + amount["B"] \in Nat
      BY <1>3, <2>2
    <3> QED
      BY <2>1, <2>2, <3>4, <3>5, <3>6, InProportion DEF Product
  <2> QED
    BY <2>3, <2>4
<1> QED
  BY <1>6, <1>7

\* removeLiquidity.
LEMMA RemoveStep ==
  ASSUME PoolAssumption, PoolTypeOK, SharesCovered,
         NEW p \in Providers, NEW n \in Burns,
         NEW minA, NEW minB, RemoveLiquidity(p, n, minA, minB)
  PROVE  /\ PoolTypeOK'
         /\ Product * supply' * supply' <= Product' * supply * supply
<1> DEFINE amount == Withdrawn(n)
<1>1. n \in Nat \ {0} /\ shares[p] >= n /\ shares[p] \in Nat
  BY DEF PoolAssumption, RemoveLiquidity, PoolTypeOK, Holders
<1>2. supply \in Nat \ {0} /\ n < supply
  BY <1>1 DEF PoolTypeOK, SharesCovered, RemoveLiquidity
<1>3. ASSUME NEW c \in Coin
      PROVE  /\ amount[c] \in Nat /\ amount[c] < reserve[c]
             /\ reserve[c] * (supply - n) <= (reserve[c] - amount[c]) * supply
  <2>1. reserve[c] \in Nat /\ reserve[c] > 0
    BY <1>2 DEF PoolTypeOK
  <2>2. amount[c] = (n * reserve[c]) \div supply
    BY DEF Withdrawn
  <2> QED
    BY <1>1, <1>2, <2>1, <2>2, WithdrawnInProportion
<1>4. /\ shares' = [shares EXCEPT ![p] = @ - n] /\ supply' = supply - n
      /\ reserve' = [c \in Coin |-> reserve[c] - amount[c]]
      /\ Pays(p, [c \in Coin |-> 0 - amount[c]]) /\ poolPaused' = poolPaused /\ entryPrice' = entryPrice
  BY DEF RemoveLiquidity
<1> HIDE DEF amount
<1>5. PoolTypeOK'
  <2>1. /\ purse' \in [Providers -> [Coin -> Nat]]
        /\ vault' = [c \in Coin |-> vault[c] + [d \in Coin |-> 0 - amount[d]][c]]
    <3>1. [c \in Coin |-> 0 - amount[c]] \in [Coin -> Int]
      BY <1>3
    <3> QED
      BY <1>4, <3>1, PaysKeeps
  <2>2. ASSUME NEW c \in Coin
        PROVE  /\ vault'[c] = vault[c] - amount[c] /\ reserve'[c] = reserve[c] - amount[c]
               /\ vault'[c] \in Nat /\ reserve'[c] \in Nat \ {0} /\ vault'[c] >= reserve'[c]
    BY <1>3, <1>4, <2>1 DEF PoolTypeOK
  <2>3. reserve' \in [Coin -> Nat] /\ vault' \in [Coin -> Nat] /\ supply' \in Nat \ {0}
    BY <1>1, <1>2, <1>4, <2>1, <2>2
  <2>4. shares' \in [Holders -> Nat]
    <3>1. shares \in [Holders -> Nat] /\ shares[p] - n \in Nat
      BY <1>1 DEF PoolTypeOK
    <3> QED
      BY <1>4, <3>1
  <2> QED
    BY <1>4, <2>1, <2>2, <2>3, <2>4 DEF PoolTypeOK
<1>6. Product * supply' * supply' <= Product' * supply * supply
  <2>1. /\ reserve'["A"] = reserve["A"] - amount["A"] /\ reserve'["B"] = reserve["B"] - amount["B"]
        /\ supply' = supply - n
    BY <1>4 DEF Coin
  <2>2. /\ reserve["A"] \in Nat /\ reserve["B"] \in Nat
        /\ reserve["A"] - amount["A"] \in Nat /\ reserve["B"] - amount["B"] \in Nat
        /\ supply - n \in Nat
    BY <1>1, <1>2, <1>3 DEF PoolTypeOK, Coin
  <2>3. /\ reserve["A"] * (supply - n) <= (reserve["A"] - amount["A"]) * supply
        /\ reserve["B"] * (supply - n) <= (reserve["B"] - amount["B"]) * supply
    BY <1>3 DEF Coin
  <2> QED
    BY <1>2, <2>1, <2>2, <2>3, InProportion DEF Product
<1> QED
  BY <1>5, <1>6

\* swap.
LEMMA SwapStep ==
  ASSUME PoolAssumption, PoolTypeOK,
         NEW p \in Providers, NEW in \in Coin, NEW n \in Paid, NEW min, Swap(p, in, n, min)
  PROVE  /\ PoolTypeOK'
         /\ Product * supply' * supply' <= Product' * supply * supply
<1> DEFINE paid == AmountOut(n, reserve[in], reserve[Other(in)])
           change == [c \in Coin |-> IF c = in THEN n ELSE 0 - paid]
<1>1. n \in Nat \ {0} /\ Other(in) \in Coin /\ Other(in) # in
  BY DEF PoolAssumption, Swap, Coin, Other
<1>2. reserve[in] \in Nat \ {0} /\ reserve[Other(in)] \in Nat \ {0} /\ supply \in Nat
  BY <1>1, Reserves DEF Swap, Coin, PoolTypeOK
<1>3. /\ paid < reserve[Other(in)] /\ Pays(p, change)
      /\ reserve' = [c \in Coin |-> reserve[c] + change[c]]
      /\ shares' = shares /\ supply' = supply /\ poolPaused' = poolPaused
      /\ entryPrice' = entryPrice
  BY DEF Swap
<1>4. /\ paid \in Nat
      /\ reserve[in] * reserve[Other(in)] <= (reserve[in] + n) * (reserve[Other(in)] - paid)
  BY <1>1, <1>2, <1>3, SwapKeepsProduct
<1> HIDE DEF paid
<1>5. \A c \in Coin : c = in \/ c = Other(in)
  BY DEF Coin, Other
<1>6. PoolTypeOK'
  <2>1. purse' \in [Providers -> [Coin -> Nat]] /\ vault' = [c \in Coin |-> vault[c] + change[c]]
    <3>1. change \in [Coin -> Int]
      BY <1>1, <1>4
    <3> QED
      BY <1>3, <3>1, PaysKeeps
  <2>2. ASSUME NEW c \in Coin
        PROVE  /\ vault'[c] \in Nat /\ reserve'[c] \in Nat \ {0} /\ vault'[c] >= reserve'[c]
    <3>1. vault[c] \in Nat /\ reserve[c] \in Nat /\ vault[c] >= reserve[c]
      BY DEF PoolTypeOK
    <3>2. change[c] \in Int /\ reserve[c] + change[c] > 0
      BY <1>1, <1>2, <1>3, <1>4, <1>5, <3>1
    <3> QED
      BY <1>3, <2>1, <3>1, <3>2
  <2>3. reserve' \in [Coin -> Nat] /\ vault' \in [Coin -> Nat]
    BY <1>3, <2>1, <2>2
  <2>4. supply > 0
    BY <1>1, <1>2 DEF PoolTypeOK
  <2> QED
    BY <1>3, <2>1, <2>2, <2>3, <2>4 DEF PoolTypeOK
<1>7. Product <= Product' /\ Product \in Nat /\ Product' \in Nat
  <2>1. Product = reserve[in] * reserve[Other(in)]
    BY <1>2 DEF Product, Coin, Other
  <2>2. Product' = (reserve[in] + n) * (reserve[Other(in)] - paid)
    <3>1. reserve'[in] = reserve[in] + n /\ reserve'[Other(in)] = reserve[Other(in)] - paid
      BY <1>1, <1>2, <1>3, <1>4
    <3>2. reserve'[in] \in Int /\ reserve'[Other(in)] \in Int
      BY <1>1, <1>2, <1>4, <3>1
    <3>3. Product' = reserve'[in] * reserve'[Other(in)]
      BY <3>2 DEF Product, Coin, Other
    <3> QED
      BY <3>1, <3>3
  <2>3. reserve[Other(in)] - paid \in Nat /\ reserve[in] + n \in Nat
    BY <1>1, <1>2, <1>3, <1>4
  <2> QED
    BY <1>2, <1>4, <2>1, <2>2, <2>3
<1>8. Product * supply' * supply' <= Product' * supply * supply
  <2>1. \A x, y \in Nat : x <= y => x * supply * supply <= y * supply * supply
    BY <1>2, ScaledTwice
  <2> QED
    BY <1>3, <1>7, <2>1
<1> QED
  BY <1>6, <1>8

\* Transfers of shares and of tokens, and the pause, leave reserves and supply alone.
LEMMA Unmoved ==
  ASSUME PoolTypeOK, reserve' = reserve, supply' = supply
  PROVE  Product * supply' * supply' <= Product' * supply * supply
<1>1. /\ reserve["A"] \in Nat /\ reserve["B"] \in Nat /\ supply \in Nat
      /\ reserve'["A"] = reserve["A"] /\ reserve'["B"] = reserve["B"]
  BY DEF PoolTypeOK, Coin
<1>2. Product' = Product /\ Product \in Nat
  BY <1>1 DEF Product
<1> QED
  BY <1>1, <1>2

\* A transfer of shares.
LEMMA TransferStep ==
  ASSUME PoolAssumption, PoolTypeOK,
         NEW p \in Providers, NEW q \in Providers, NEW n \in Burns, TransferShares(p, q, n)
  PROVE  PoolTypeOK'
<1>1. n \in Nat /\ p \in Holders /\ q \in Holders /\ shares \in [Holders -> Nat]
  BY DEF PoolAssumption, Holders, PoolTypeOK
<1>2. shares[p] - n \in Nat /\ p # q
  BY <1>1 DEF TransferShares
<1>3. shares' \in [Holders -> Nat]
  BY <1>1, <1>2 DEF TransferShares
<1> QED
  BY <1>3 DEF TransferShares, PoolTypeOK

\* Tokens sent to the pool without a call.
LEMMA DonateStep ==
  ASSUME PoolAssumption, PoolTypeOK,
         NEW p \in Providers, NEW c \in Coin, NEW n \in Paid, Donate(p, c, n)
  PROVE  PoolTypeOK'
<1> DEFINE gift == [d \in Coin |-> IF d = c THEN n ELSE 0]
<1>1. gift \in [Coin -> Nat] /\ gift \in [Coin -> Int]
  BY DEF PoolAssumption
<1>2. Pays(p, gift)
  BY DEF Donate
<1>3. purse' \in [Providers -> [Coin -> Nat]] /\ vault' = [d \in Coin |-> vault[d] + gift[d]]
  BY <1>1, <1>2, PaysKeeps
<1> HIDE DEF gift
<1>4. \A d \in Coin : vault'[d] \in Nat /\ vault'[d] >= vault[d]
  BY <1>1, <1>3 DEF PoolTypeOK
<1>5. vault' \in [Coin -> Nat]
  BY <1>3, <1>4
<1> QED
  BY <1>3, <1>4, <1>5 DEF Donate, PoolTypeOK

(***************************************************************************)
(* What is conserved.                                                      *)
(***************************************************************************)
\* The square of a root that Newton's method stops at is not too large.
LEMMA NewtonStops ==
  ASSUME NEW y \in Nat, NEW z \in Nat \ {0}, Newton(y, z) >= z
  PROVE  z * z <= y
<1> DEFINE q == y \div z
<1>1. q \in Nat /\ q * z <= y
  BY Floor
<1> HIDE DEF q
<1>2. (q + z) \div 2 >= z
  BY DEF Newton, q
<1>3. q >= z
  BY <1>1, <1>2
<1>4. z * z <= q * z
  BY <1>1, <1>3, Scaled
<1> QED
  BY <1>1, <1>4

\* _sqrt rounds down, whatever its argument.
LEMMA SqrtRoundsDown ==
  ASSUME NEW y \in Nat
  PROVE  Sqrt(y) \in Nat /\ Sqrt(y) * Sqrt(y) <= y
<1>1. CASE y > 3
  <2> DEFINE P == Nat \ {0}
             next == [z \in P |-> Newton(y, z)]
             root == CHOOSE f : f = [z \in P |-> IF Newton(y, z) < z THEN f[Newton(y, z)] ELSE z]
  <2>1. \A z \in P : Newton(y, z) \in P
    <3>1. SUFFICES ASSUME NEW z \in P PROVE Newton(y, z) \in P
      OBVIOUS
    <3> DEFINE q == y \div z
    <3>2. q \in Nat
      BY Floor
    <3>3. q + z >= 2
      <4>1. CASE z = 1
        BY <1>1, <4>1
      <4>2. CASE z # 1
        BY <3>2, <4>2
      <4> QED
        BY <4>1, <4>2
    <3> HIDE DEF q
    <3>4. (q + z) \div 2 \in P
      BY <3>2, <3>3
    <3> QED
      BY <3>4 DEF Newton, q
  <2> DEFINE same == [z \in P |-> z]
  <2>2. Goes(next, same, P)
    BY <2>1 DEF Goes
  <2>3. PICK f : Descends(next, same, same, P, f)
    <3> HIDE DEF next, same, P
    <3> QED
      BY <2>2, DescentExists
  <2>4. f = [z \in P |-> IF Newton(y, z) < z THEN f[Newton(y, z)] ELSE z]
    BY <2>1, <2>3 DEF Descends
  <2>5. root = [z \in P |-> IF Newton(y, z) < z THEN root[Newton(y, z)] ELSE z]
    BY <2>4
  <2>6. Sqrt(y) = root[(y \div 2) + 1]
    BY <1>1 DEF Sqrt
  <2>7. (y \div 2) + 1 \in P
    BY <1>1
  <2> HIDE DEF root
  <2>8. Descends(next, same, same, P, root)
    BY <2>1, <2>5 DEF Descends
  <2>9. \E x \in P : Sqrt(y) = same[x] /\ same[next[x]] >= same[x]
    <3> HIDE DEF next, same, P
    <3> QED
      BY <2>2, <2>6, <2>7, <2>8, DescentEnds
  <2>10. Sqrt(y) \in P /\ Newton(y, Sqrt(y)) >= Sqrt(y)
    BY <2>1, <2>9
  <2> QED
    BY <2>10, NewtonStops
<1>2. CASE ~(y > 3)
  <2>1. Sqrt(y) = IF y # 0 THEN 1 ELSE 0
    BY <1>2 DEF Sqrt
  <2> QED
    BY <1>2, <2>1
<1> QED
  BY <1>1, <1>2

\* What an account pays is what the pool gets.
MoneyKept == \A c \in Coin : vault[c] + InPurses(purse, c) = InPurses(InitialPurse, c)

\* A payment moves money between a purse and the vault.
LEMMA PaysConserves ==
  ASSUME PoolAssumption, PoolTypeOK, NEW p \in Providers, NEW amount \in [Coin -> Int],
         Pays(p, amount), MoneyKept
  PROVE  MoneyKept'
<1> SUFFICES ASSUME NEW c \in Coin
    PROVE  vault'[c] + InPurses(purse', c) = InPurses(InitialPurse, c)
  BY DEF MoneyKept, InPurses
<1> DEFINE w == [q \in Providers |-> purse[q][c]]
           v == [q \in Providers |-> purse'[q][c]]
<1>1. /\ purse' \in [Providers -> [Coin -> Nat]]
      /\ vault' = [d \in Coin |-> vault[d] + amount[d]]
  BY PaysKeeps
<1>2. /\ IntOn(w, Providers) /\ IntOn(v, Providers) /\ SameOn(w, v, Providers \ {p})
      /\ v[p] = w[p] - amount[c] /\ w[p] \in Int /\ amount[c] \in Int
  <2>1. \A q \in Providers : purse[q][c] \in Int /\ purse'[q][c] \in Int
    BY <1>1 DEF PoolTypeOK
  <2>2. purse' = [purse EXCEPT ![p] = [d \in Coin |-> purse[p][d] - amount[d]]]
    BY DEF Pays
  <2>3. purse'[p][c] = purse[p][c] - amount[c] /\ \A q \in Providers \ {p} : purse'[q] = purse[q]
    BY <2>2 DEF PoolTypeOK
  <2> QED
    BY <2>1, <2>3 DEF IntOn, SameOn
<1>3. IsFiniteSet(Providers)
  BY DEF PoolAssumption
<1>4. InPurses(purse, c) = SumFunctionOnSet(w, Providers)
  BY DEF InPurses
<1>5. InPurses(purse', c) = SumFunctionOnSet(v, Providers)
  BY DEF InPurses
<1> HIDE DEF w, v
<1>6. /\ SumFunctionOnSet(v, Providers) = SumFunctionOnSet(w, Providers) + (v[p] - w[p])
      /\ SumFunctionOnSet(w, Providers) \in Int
  <2>1. SumFunctionOnSet(v, Providers) = SumFunctionOnSet(w, Providers) + (v[p] - w[p])
    <3>1. IntOn(w, Providers) /\ IntOn(v, Providers) /\ SameOn(w, v, Providers \ {p})
      BY <1>2
    <3> QED
      BY <1>3, <3>1, SumChange
  <2>2. SumFunctionOnSet(w, Providers) \in Int
    BY <1>2, <1>3, SumInt
  <2> QED
    BY <2>1, <2>2
<1>7. /\ vault'[c] = vault[c] + amount[c] /\ vault[c] \in Int
      /\ vault[c] + SumFunctionOnSet(w, Providers) = InPurses(InitialPurse, c)
  BY <1>1, <1>4 DEF PoolTypeOK, MoneyKept
<1> QED
  BY <1>2, <1>5, <1>6, <1>7

\* The shares add up to the supply, and some of them are locked for good; so nobody
\* can take out the last one.
SharesAddUp == SumFunctionOnSet(shares, Holders) = supply
LockKept == supply > 0 => shares[Lock] > 0
SharesBacked == supply * supply <= Product

\* The holders of shares, with the address the first shares are locked at.
LEMMA HoldersFinite ==
  ASSUME PoolAssumption
  PROVE  IsFiniteSet(Holders) /\ Lock \in Holders /\ \A p \in Providers : p \in Holders /\ p # Lock
<1>1. IsFiniteSet(Providers)
  BY DEF PoolAssumption
<1>2. IsFiniteSet(Providers \cup {Lock})
  BY <1>1, FS_AddElement
<1> QED
  BY <1>2 DEF Holders, PoolAssumption

\* The locked shares are a part of the supply nobody holds.
LEMMA LockCovers ==
  ASSUME PoolAssumption, PoolTypeOK, SharesAddUp, LockKept
  PROVE  SharesCovered
<1>1. SUFFICES ASSUME supply > 0, NEW p \in Providers PROVE shares[p] < supply
  BY DEF SharesCovered
<1>2. NatOn(shares, Holders)
  BY DEF PoolTypeOK, NatOn
<1>3. IsFiniteSet(Holders) /\ Lock \in Holders /\ p \in Holders /\ p # Lock
  BY HoldersFinite
<1>4. shares[p] + shares[Lock] <= SumFunctionOnSet(shares, Holders)
  BY <1>2, <1>3, SumOfTwo
<1>5. shares[p] \in Nat /\ shares[Lock] \in Nat /\ shares[Lock] > 0 /\ supply \in Nat
  BY <1>1, <1>3 DEF LockKept, PoolTypeOK
<1> QED
  BY <1>4, <1>5 DEF SharesAddUp

\* addLiquidity mints what it adds to the supply.
LEMMA AddShares ==
  ASSUME PoolAssumption, PoolTypeOK, SharesAddUp, LockKept,
         NEW p \in Providers, NEW a \in Desired, NEW b \in Desired,
         NEW minA, NEW minB, AddLiquidity(p, a, b, minA, minB), shares' \in [Holders -> Nat]
  PROVE  SharesAddUp' /\ LockKept'
<1> DEFINE m == Minted(Taken(a, b))
           locked == IF supply = 0 THEN MinimumLiquidity ELSE 0
<1>1. /\ m \in Nat \ {0} /\ locked \in Nat /\ (supply = 0 => locked > 0)
      /\ shares' = [shares EXCEPT ![p] = @ + m, ![Lock] = @ + locked]
      /\ supply' = supply + m + locked
  BY DEF AddLiquidity, PoolAssumption
<1> HIDE DEF m, locked
<1>2. IsFiniteSet(Holders) /\ Lock \in Holders /\ p \in Holders /\ p # Lock
  BY HoldersFinite
<1>3. /\ shares'[p] = shares[p] + m /\ shares'[Lock] = shares[Lock] + locked
  BY <1>1, <1>2 DEF PoolTypeOK
<1>4. IntOn(shares, Holders) /\ IntOn(shares', Holders) /\ SameOn(shares, shares', Holders \ {p, Lock})
  BY <1>1, <1>2 DEF PoolTypeOK, IntOn, SameOn
<1>5. SumFunctionOnSet(shares', Holders)
        = SumFunctionOnSet(shares, Holders) + (shares'[p] - shares[p]) + (shares'[Lock] - shares[Lock])
  BY <1>2, <1>4, SumChangeTwo
<1>6. shares[p] \in Nat /\ shares[Lock] \in Nat /\ supply \in Nat
  BY <1>2 DEF PoolTypeOK
<1>7. SumFunctionOnSet(shares', Holders) = supply'
  BY <1>1, <1>3, <1>5, <1>6 DEF SharesAddUp
<1>8. shares'[Lock] > 0
  BY <1>1, <1>3, <1>6 DEF LockKept
<1> QED
  BY <1>7, <1>8 DEF SharesAddUp, LockKept

\* removeLiquidity burns what it takes from the supply, and not what is locked.
LEMMA RemoveShares ==
  ASSUME PoolAssumption, PoolTypeOK, SharesAddUp, LockKept,
         NEW p \in Providers, NEW n \in Burns,
         NEW minA, NEW minB, RemoveLiquidity(p, n, minA, minB)
  PROVE  SharesAddUp' /\ LockKept'
<1>1. /\ n \in Nat /\ shares[p] - n \in Nat /\ supply > 0
      /\ shares' = [shares EXCEPT ![p] = @ - n] /\ supply' = supply - n
  BY DEF RemoveLiquidity, PoolAssumption, PoolTypeOK, Holders
<1>2. IsFiniteSet(Holders) /\ Lock \in Holders /\ p \in Holders /\ p # Lock
  BY HoldersFinite
<1>3. shares'[p] = shares[p] - n /\ shares'[Lock] = shares[Lock]
  BY <1>1, <1>2 DEF PoolTypeOK
<1>4. SumFunctionOnSet(shares', Holders)
        = SumFunctionOnSet(shares, Holders) + (shares'[p] - shares[p])
  <2>1. IntOn(shares, Holders) /\ IntOn(shares', Holders) /\ SameOn(shares, shares', Holders \ {p})
    BY <1>1, <1>2 DEF PoolTypeOK, IntOn, SameOn
  <2> QED
    BY <1>2, <2>1, SumChange
<1>5. SumFunctionOnSet(shares', Holders) = supply'
  BY <1>1, <1>2, <1>3, <1>4 DEF SharesAddUp, PoolTypeOK
<1>6. shares'[Lock] > 0
  BY <1>1, <1>2, <1>3 DEF LockKept
<1> QED
  BY <1>5, <1>6 DEF SharesAddUp, LockKept

\* A transfer leaves the sum of the shares alone.
LEMMA TransferKeepsShares ==
  ASSUME PoolAssumption, PoolTypeOK, SharesAddUp, LockKept,
         NEW p \in Providers, NEW q \in Providers, NEW n \in Burns, TransferShares(p, q, n)
  PROVE  SharesAddUp' /\ LockKept'
<1>1. /\ n \in Nat /\ shares[p] - n \in Nat /\ p # q
      /\ shares' = [shares EXCEPT ![p] = @ - n, ![q] = @ + n] /\ supply' = supply
  BY DEF TransferShares, PoolAssumption, PoolTypeOK, Holders
<1>2. IsFiniteSet(Holders) /\ Lock \in Holders /\ p \in Holders /\ q \in Holders /\ p # Lock /\ q # Lock
  BY HoldersFinite
<1>3. shares'[p] = shares[p] - n /\ shares'[q] = shares[q] + n /\ shares'[Lock] = shares[Lock]
  BY <1>1, <1>2 DEF PoolTypeOK
<1>4. SumFunctionOnSet(shares', Holders)
        = SumFunctionOnSet(shares, Holders) + (shares'[p] - shares[p]) + (shares'[q] - shares[q])
  <2>1. /\ IntOn(shares, Holders) /\ IntOn(shares', Holders)
        /\ SameOn(shares, shares', Holders \ {p, q}) /\ p # q
    BY <1>1, <1>2 DEF PoolTypeOK, IntOn, SameOn
  <2> QED
    BY <1>2, <2>1, SumChangeTwo
<1>5. SumFunctionOnSet(shares', Holders) = supply'
  BY <1>1, <1>2, <1>3, <1>4 DEF SharesAddUp, PoolTypeOK
<1>6. shares'[Lock] = shares[Lock]
  BY <1>2, <1>3
<1> QED
  BY <1>1, <1>5, <1>6 DEF SharesAddUp, LockKept

\* A share that does not lose value stays backed: shares s, product x before, and w
\* and y after.
LEMMA StaysBacked ==
  ASSUME NEW s \in Nat \ {0}, NEW w \in Nat, NEW x \in Nat, NEW y \in Nat,
         s * s <= x, x * w * w <= y * s * s
  PROVE  w * w <= y
<1>1. /\ s * s \in Nat \ {0} /\ w * w \in Nat /\ x * w \in Nat
  <2>1. s * s # 0
    OBVIOUS
  <2> QED
    BY <2>1
<1>2. (s * s) * (w * w) <= x * (w * w)
  BY <1>1, Scaled
<1>3. x * (w * w) = x * w * w /\ (s * s) * (w * w) = (w * w) * (s * s) /\ y * (s * s) = y * s * s
  OBVIOUS
<1>4. (w * w) * (s * s) <= y * (s * s)
  BY <1>1, <1>2, <1>3
<1> QED
  BY <1>1, <1>4, Unscaled

\* Every step of the pool.
LEMMA PoolStep ==
  ASSUME PoolAssumption, PoolTypeOK, SharesCovered, [PoolNext]_poolVars
  PROVE  /\ PoolTypeOK'
         /\ Product * supply' * supply' <= Product' * supply * supply
<1>1. ASSUME NEW p \in Providers, NEW a \in Desired, NEW b \in Desired,
             NEW minA \in Minimums, NEW minB \in Minimums, AddLiquidity(p, a, b, minA, minB)
      PROVE  PoolTypeOK' /\ Product * supply' * supply' <= Product' * supply * supply
  BY <1>1, AddStep
<1>2. ASSUME NEW p \in Providers, NEW n \in Burns,
             NEW minA \in Minimums, NEW minB \in Minimums, RemoveLiquidity(p, n, minA, minB)
      PROVE  PoolTypeOK' /\ Product * supply' * supply' <= Product' * supply * supply
  BY <1>2, RemoveStep
<1>3. ASSUME NEW p \in Providers, NEW c \in Coin, NEW n \in Paid, NEW min \in Minimums,
             Swap(p, c, n, min)
      PROVE  PoolTypeOK' /\ Product * supply' * supply' <= Product' * supply * supply
  BY <1>3, SwapStep
<1>4. ASSUME NEW p \in Providers, NEW q \in Providers, NEW n \in Burns, TransferShares(p, q, n)
      PROVE  PoolTypeOK' /\ Product * supply' * supply' <= Product' * supply * supply
  <2>1. reserve' = reserve /\ supply' = supply
    BY <1>4 DEF TransferShares
  <2> QED
    BY <1>4, <2>1, TransferStep, Unmoved
<1>5. ASSUME NEW p \in Providers, NEW c \in Coin, NEW n \in Paid, Donate(p, c, n)
      PROVE  PoolTypeOK' /\ Product * supply' * supply' <= Product' * supply * supply
  <2>1. reserve' = reserve /\ supply' = supply
    BY <1>5 DEF Donate
  <2> QED
    BY <1>5, <2>1, DonateStep, Unmoved
<1>6. ASSUME PausePool \/ UnpausePool \/ UNCHANGED poolVars
      PROVE  PoolTypeOK' /\ Product * supply' * supply' <= Product' * supply * supply
  <2>1. UNCHANGED <<reserve, vault, purse, shares, supply, entryPrice>> /\ poolPaused' \in BOOLEAN
    BY <1>6 DEF PausePool, UnpausePool, poolVars, PoolTypeOK
  <2>2. PoolTypeOK'
    BY <2>1 DEF PoolTypeOK
  <2> QED
    BY <2>1, <2>2, Unmoved
<1> QED
  BY <1>1, <1>2, <1>3, <1>4, <1>5, <1>6 DEF PoolNext

\* The first deposit mints the root of the product.
LEMMA FirstBacked ==
  ASSUME PoolAssumption, PoolTypeOK, NEW p \in Providers, NEW a \in Desired, NEW b \in Desired,
         NEW minA, NEW minB, AddLiquidity(p, a, b, minA, minB), supply = 0
  PROVE  SharesBacked'
<1> DEFINE amount == Taken(a, b)
<1>1. a \in Nat \ {0} /\ b \in Nat \ {0}
  <2>1. a \in Nat /\ b \in Nat
    BY DEF PoolAssumption
  <2>2. a > 0 /\ b > 0
    BY DEF AddLiquidity
  <2> QED
    BY <2>1, <2>2
<1>2. IsEmpty
  BY Reserves DEF IsEmpty, PoolTypeOK
<1>3. amount["A"] = a /\ amount["B"] = b
  BY <1>1, <1>2, TakenType
<1>4. supply' = supply + Minted(amount) + MinimumLiquidity /\ Minted(amount) \in Nat
  BY DEF AddLiquidity
<1>5. Minted(amount) = Sqrt(a * b) - MinimumLiquidity
  BY <1>3 DEF Minted
<1>6. a * b \in Nat /\ Sqrt(a * b) \in Nat /\ Sqrt(a * b) * Sqrt(a * b) <= a * b
  <2>1. a * b \in Nat
    BY <1>1
  <2> QED
    BY <2>1, SqrtRoundsDown
<1>7. MinimumLiquidity \in Nat
  BY DEF PoolAssumption
<1>8. supply' = Sqrt(a * b)
  BY <1>4, <1>5, <1>6, <1>7
<1>9. reserve'["A"] = a /\ reserve'["B"] = b
  <2>1. reserve' = [c \in Coin |-> reserve[c] + amount[c]]
    BY DEF AddLiquidity
  <2>2. reserve["A"] = 0 /\ reserve["B"] = 0
    BY <1>2 DEF IsEmpty
  <2> QED
    BY <1>1, <1>3, <2>1, <2>2 DEF Coin
<1> QED
  BY <1>6, <1>8, <1>9 DEF SharesBacked, Product

\* No step of the pool makes or loses a token or a share, takes the locked ones, or
\* leaves the shares unbacked.
PoolIInv == PoolTypeOK /\ MoneyKept /\ SharesAddUp /\ LockKept /\ SharesBacked

\* No step makes or loses money.
LEMMA MoneyStep ==
  ASSUME PoolAssumption, PoolTypeOK, MoneyKept, [PoolNext]_poolVars
  PROVE  MoneyKept'
<1>1. ASSUME NEW p \in Providers, NEW a \in Desired, NEW b \in Desired,
             NEW minA \in Minimums, NEW minB \in Minimums, AddLiquidity(p, a, b, minA, minB)
      PROVE  MoneyKept'
  <2>1. a \in Nat \ {0} /\ b \in Nat \ {0}
    BY <1>1 DEF PoolAssumption, AddLiquidity
  <2>2. Taken(a, b) \in [Coin -> Nat]
    BY <2>1, TakenType
  <2>3. Taken(a, b) \in [Coin -> Int]
    BY <2>2
  <2> QED
    BY <1>1, <2>3, PaysConserves DEF AddLiquidity
<1>2. ASSUME NEW p \in Providers, NEW n \in Burns,
             NEW minA \in Minimums, NEW minB \in Minimums, RemoveLiquidity(p, n, minA, minB)
      PROVE  MoneyKept'
  <2> DEFINE change == [c \in Coin |-> 0 - Withdrawn(n)[c]]
  <2>1. ASSUME NEW c \in Coin PROVE Withdrawn(n)[c] \in Nat
    <3>1. n * reserve[c] \in Nat /\ supply \in Nat \ {0}
      BY <1>2 DEF PoolAssumption, PoolTypeOK, RemoveLiquidity
    <3> QED
      BY <3>1, Floor DEF Withdrawn
  <2>2. change \in [Coin -> Int]
    BY <2>1
  <2>3. Pays(p, change)
    BY <1>2 DEF RemoveLiquidity
  <2> HIDE DEF change
  <2> QED
    BY <2>2, <2>3, PaysConserves
<1>3. ASSUME NEW p \in Providers, NEW in \in Coin, NEW n \in Paid, NEW min \in Minimums,
             Swap(p, in, n, min)
      PROVE  MoneyKept'
  <2> DEFINE paid == AmountOut(n, reserve[in], reserve[Other(in)])
             change == [c \in Coin |-> IF c = in THEN n ELSE 0 - paid]
  <2>1. n \in Nat \ {0} /\ Other(in) \in Coin
    BY <1>3 DEF PoolAssumption, Swap, Coin, Other
  <2>2. reserve[in] \in Nat \ {0} /\ reserve[Other(in)] \in Nat \ {0}
    BY <1>3, <2>1, Reserves DEF Swap, Coin, PoolTypeOK
  <2>3. paid < reserve[Other(in)] /\ Pays(p, change)
    BY <1>3 DEF Swap
  <2>4. paid \in Nat
    BY <2>1, <2>2, <2>3, SwapKeepsProduct
  <2> HIDE DEF paid
  <2>5. change \in [Coin -> Int]
    BY <2>1, <2>4
  <2> HIDE DEF change
  <2> QED
    BY <2>3, <2>5, PaysConserves
<1>4. ASSUME NEW p \in Providers, NEW c \in Coin, NEW n \in Paid, Donate(p, c, n)
      PROVE  MoneyKept'
  <2> DEFINE gift == [d \in Coin |-> IF d = c THEN n ELSE 0]
  <2>1. gift \in [Coin -> Int]
    BY DEF PoolAssumption
  <2>2. Pays(p, gift)
    BY <1>4 DEF Donate
  <2> HIDE DEF gift
  <2> QED
    BY <2>1, <2>2, PaysConserves
<1>5. ASSUME UNCHANGED <<vault, purse>> PROVE MoneyKept'
  BY <1>5 DEF MoneyKept, InPurses
<1>6. ASSUME NEW p, NEW q, NEW n, TransferShares(p, q, n) PROVE UNCHANGED <<vault, purse>>
  BY <1>6 DEF TransferShares
<1>7. ASSUME PausePool \/ UnpausePool \/ UNCHANGED poolVars PROVE UNCHANGED <<vault, purse>>
  BY <1>7 DEF PausePool, UnpausePool, poolVars
<1> QED
  BY <1>1, <1>2, <1>3, <1>4, <1>5, <1>6, <1>7 DEF PoolNext

\* Shares add up after every step.
LEMMA SharesStep ==
  ASSUME PoolAssumption, PoolTypeOK, PoolTypeOK', SharesAddUp, LockKept, [PoolNext]_poolVars
  PROVE  SharesAddUp' /\ LockKept'
<1>1. shares' \in [Holders -> Nat]
  BY DEF PoolTypeOK
<1>2. ASSUME UNCHANGED <<shares, supply>> PROVE SharesAddUp' /\ LockKept'
  BY <1>2 DEF SharesAddUp, LockKept
<1>3. ASSUME NEW p, NEW c, NEW n, NEW min, Swap(p, c, n, min) \/ Donate(p, c, n)
      PROVE  UNCHANGED <<shares, supply>>
  BY <1>3 DEF Swap, Donate
<1>4. ASSUME PausePool \/ UnpausePool \/ UNCHANGED poolVars PROVE UNCHANGED <<shares, supply>>
  BY <1>4 DEF PausePool, UnpausePool, poolVars
<1>5. ASSUME NEW p \in Providers, NEW a \in Desired, NEW b \in Desired,
             NEW minA \in Minimums, NEW minB \in Minimums, AddLiquidity(p, a, b, minA, minB)
      PROVE  SharesAddUp' /\ LockKept'
  BY <1>1, <1>5, AddShares
<1>6. ASSUME NEW p \in Providers, NEW n \in Burns,
             NEW minA \in Minimums, NEW minB \in Minimums, RemoveLiquidity(p, n, minA, minB)
      PROVE  SharesAddUp' /\ LockKept'
  BY <1>6, RemoveShares
<1>7. ASSUME NEW p \in Providers, NEW q \in Providers, NEW n \in Burns, TransferShares(p, q, n)
      PROVE  SharesAddUp' /\ LockKept'
  BY <1>7, TransferKeepsShares
<1> QED
  BY <1>2, <1>3, <1>4, <1>5, <1>6, <1>7 DEF PoolNext

\* Shares stay backed when the product grows with their square.
LEMMA BackedStep ==
  ASSUME PoolAssumption, PoolTypeOK, PoolTypeOK', SharesBacked, [PoolNext]_poolVars,
         Product * supply' * supply' <= Product' * supply * supply
  PROVE  SharesBacked'
<1>1. supply \in Nat /\ supply' \in Nat /\ Product \in Nat /\ Product' \in Nat
  <2>1. /\ reserve["A"] \in Nat /\ reserve["B"] \in Nat
        /\ reserve'["A"] \in Nat /\ reserve'["B"] \in Nat
    BY DEF PoolTypeOK, Coin
  <2>2. Product \in Nat
    BY <2>1 DEF Product
  <2>3. Product' \in Nat
    BY <2>1 DEF Product
  <2> QED
    BY <2>2, <2>3 DEF PoolTypeOK
<1>2. CASE supply # 0
  <2>1. supply * supply <= Product
    BY DEF SharesBacked
  <2>2. supply' * supply' <= Product'
    BY <1>1, <1>2, <2>1, StaysBacked
  <2> QED
    BY <2>2 DEF SharesBacked
<1>3. CASE supply = 0 /\ supply' = 0
  BY <1>1, <1>3 DEF SharesBacked
<1>4. CASE supply = 0 /\ supply' # 0
  <2>1. ASSUME NEW p, NEW n, NEW minA, NEW minB, RemoveLiquidity(p, n, minA, minB) PROVE FALSE
    BY <1>1, <1>4, <2>1 DEF RemoveLiquidity
  <2>2. ASSUME NEW p, NEW q, NEW n, NEW c, NEW min,
               \/ TransferShares(p, q, n) \/ Donate(p, c, n) \/ Swap(p, c, n, min)
        PROVE FALSE
    BY <1>4, <2>2 DEF TransferShares, Donate, Swap
  <2>3. ASSUME PausePool \/ UnpausePool \/ UNCHANGED poolVars PROVE FALSE
    BY <1>4, <2>3 DEF PausePool, UnpausePool, poolVars
  <2>4. ASSUME NEW p \in Providers, NEW a \in Desired, NEW b \in Desired,
               NEW minA \in Minimums, NEW minB \in Minimums, AddLiquidity(p, a, b, minA, minB)
        PROVE  SharesBacked'
    BY <1>4, <2>4, FirstBacked
  <2> QED
    BY <2>1, <2>2, <2>3, <2>4 DEF PoolNext
<1> QED
  BY <1>2, <1>3, <1>4

\* What getAmountIn asks buys at least what was wanted: the unit it adds makes up for
\* both roundings.
LEMMA QuoteCovers ==
  ASSUME PoolAssumption, NEW x \in Nat \ {0}, NEW y \in Nat, NEW n \in 1..(y - 1)
  PROVE  AmountOut(AmountIn(n, x, y), x, y) >= n
<1> DEFINE d == FeeDenominator
           g == d - FeeBps
           top == x * n * d
           bottom == (y - n) * g
           m == AmountIn(n, x, y)
           den == x * d + m * g
<1>1. d \in Nat \ {0} /\ g \in Nat \ {0} /\ n \in Nat \ {0} /\ y - n \in Nat \ {0}
  BY DEF PoolAssumption
<1>2. top \in Nat /\ bottom \in Nat \ {0}
  <2> HIDE DEF d, g
  <2>1. x * n \in Nat
    BY <1>1
  <2> QED
    BY <1>1, <2>1
<1>3. m = (top \div bottom) + 1
  BY DEF AmountIn
<1> HIDE DEF d, g
<1>4. m \in Nat \ {0} /\ top <= m * bottom
  <2> HIDE DEF top, bottom, m
  <2>1. \A u \in Nat, v \in Nat \ {0} :
          (u \div v) + 1 \in Nat \ {0} /\ u <= ((u \div v) + 1) * v
    OBVIOUS
  <2> QED
    BY <1>2, <1>3, <2>1
<1>5. m * g \in Nat \ {0} /\ x * d \in Nat \ {0} /\ den \in Nat \ {0}
  <2> HIDE DEF m
  <2> QED
    BY <1>1, <1>4
<1>6. n * den <= y * (m * g)
  <2>1. \A j, k \in Nat : n * j <= (y - n) * k => n * (j + k) <= y * k
    <3>1. SUFFICES ASSUME NEW j \in Nat, NEW k \in Nat, n * j <= (y - n) * k
                   PROVE  n * (j + k) <= y * k
      OBVIOUS
    <3>2. n * (j + k) = n * j + n * k /\ (y - n) * k = y * k - n * k
      BY <1>1
    <3>3. n * j \in Nat /\ n * k \in Nat /\ y * k \in Nat
      BY <1>1
    <3> HIDE DEF top, bottom, m
    <3> QED
      BY <3>1, <3>2, <3>3
  <2>2. n * (x * d) = top /\ (y - n) * (m * g) = m * bottom
    <3> HIDE DEF m
    <3> QED
      BY <1>1, <1>4
  <2> HIDE DEF top, bottom, m
  <2> QED
    BY <1>4, <1>5, <2>1, <2>2
<1>7. AmountOut(m, x, y) = (y * (m * g)) \div den
  BY DEF AmountOut, g, d
<1>8. y * (m * g) \in Nat
  <2> HIDE DEF m
  <2> QED
    BY <1>5
<1>9. \A u \in Nat, v \in Nat \ {0}, k \in Nat : k * v <= u => u \div v >= k
  OBVIOUS
<1> HIDE DEF den, m
<1> QED
  BY <1>1, <1>5, <1>6, <1>7, <1>8, <1>9 DEF m

(***************************************************************************)
(* The theorems.                                                           *)
(***************************************************************************)
\* What is kept in every step, the shares that are locked included.
LEMMA PoolKept == PoolSpec => []PoolIInv
<1>1. PoolInit => PoolIInv
  <2>1. SUFFICES ASSUME PoolInit PROVE PoolIInv
    OBVIOUS
  <2>2. reserve \in [Coin -> Nat] /\ vault \in [Coin -> Nat] /\ shares \in [Holders -> Nat]
    BY <2>1 DEF PoolInit
  <2>3. /\ \A c \in Coin : reserve[c] = 0 /\ vault[c] = 0
        /\ \A h \in Holders : shares[h] = 0
        /\ supply = 0 /\ purse = InitialPurse
    BY <2>1 DEF PoolInit
  <2>4. purse \in [Providers -> [Coin -> Nat]]
    BY <2>3, PoolAssumption DEF PoolAssumption
  <2>5. \A c \in Coin : vault[c] >= reserve[c] /\ (supply > 0 <=> reserve[c] > 0)
    BY <2>3
  <2>6. supply \in Nat /\ entryPrice \in [Providers -> Nat] /\ poolPaused \in BOOLEAN
    BY <2>1 DEF PoolInit
  <2>7. PoolTypeOK
    BY <2>2, <2>4, <2>5, <2>6 DEF PoolTypeOK
  <2>8. MoneyKept
    <3>1. ASSUME NEW c \in Coin PROVE InPurses(InitialPurse, c) \in Int
      <4> DEFINE w == [p \in Providers |-> InitialPurse[p][c]]
      <4>1. IntOn(w, Providers) /\ IsFiniteSet(Providers)
        BY PoolAssumption DEF PoolAssumption, IntOn
      <4> HIDE DEF w
      <4>2. SumFunctionOnSet(w, Providers) \in Int
        BY <4>1, SumInt
      <4> QED
        BY <4>2 DEF w, InPurses
    <3>2. \A c \in Coin : vault[c] = 0 /\ InPurses(purse, c) = InPurses(InitialPurse, c)
      BY <2>3
    <3> QED
      BY <3>1, <3>2 DEF MoneyKept
  <2>9. SharesAddUp
    <3>1. SumFunctionOnSet(shares, Holders) = 0
      BY <2>3, PoolAssumption, HoldersFinite, SumZero
    <3> QED
      BY <2>3, <3>1 DEF SharesAddUp
  <2>10. LockKept /\ SharesBacked
    <3>1. Product = 0
      BY <2>3 DEF Product, Coin
    <3> QED
      BY <2>3, <3>1 DEF LockKept, SharesBacked
  <2> QED
    BY <2>7, <2>8, <2>9, <2>10 DEF PoolIInv
<1>2. PoolIInv /\ [PoolNext]_poolVars => PoolIInv'
  <2>1. SUFFICES ASSUME PoolIInv, [PoolNext]_poolVars PROVE PoolIInv'
    OBVIOUS
  <2>2. PoolTypeOK /\ MoneyKept /\ SharesAddUp /\ LockKept /\ SharesBacked
    BY <2>1 DEF PoolIInv
  <2>3. SharesCovered
    BY <2>2, PoolAssumption, LockCovers
  <2>4. PoolTypeOK' /\ Product * supply' * supply' <= Product' * supply * supply
    BY <2>1, <2>2, <2>3, PoolAssumption, PoolStep
  <2>5. MoneyKept'
    BY <2>1, <2>2, PoolAssumption, MoneyStep
  <2>6. SharesAddUp' /\ LockKept'
    BY <2>1, <2>2, <2>4, PoolAssumption, SharesStep
  <2>7. SharesBacked'
    BY <2>1, <2>2, <2>4, PoolAssumption, BackedStep
  <2> QED
    BY <2>4, <2>5, <2>6, <2>7 DEF PoolIInv
<1> QED
  BY <1>1, <1>2, PTL DEF PoolSpec

\* addLiquidity, removeLiquidity and swap keep the pool able to pay its reserves, and
\* never leave it with shares and without reserves, whatever the amounts.
THEOREM PoolNeverDrained == PoolSpec => []PoolTypeOK
<1>1. PoolIInv => PoolTypeOK
  BY DEF PoolIInv
<1> QED
  BY <1>1, PoolKept, PTL

\* No operation of the pool makes or loses a token or a share; each share is backed by
\* one unit of the geometric mean of the reserves; nobody can burn the last one, for
\* MINIMUM_LIQUIDITY stays locked; and what getAmountIn quotes buys what was wanted.
THEOREM PoolIsBacked == PoolSpec => []PoolHolds
<1>1. PoolIInv => PoolHolds
  <2>1. SUFFICES ASSUME PoolIInv PROVE PoolHolds
    OBVIOUS
  <2>2. PoolTypeOK /\ MoneyKept /\ SharesAddUp /\ LockKept /\ SharesBacked
    BY <2>1 DEF PoolIInv
  <2>3. SharesCovered
    BY <2>2, PoolAssumption, LockCovers
  <2>4. PoolConserved
    BY <2>2, <2>3 DEF PoolConserved, MoneyKept, SharesAddUp, SharesBacked
  <2>5. QuotesCover
    <3>1. SUFFICES ASSUME NEW c \in Coin, NEW n \in 1..(reserve[Other(c)] - 1)
                   PROVE  AmountOut(AmountIn(n, reserve[c], reserve[Other(c)]),
                                    reserve[c], reserve[Other(c)]) >= n
      BY DEF QuotesCover
    <3>2. Other(c) \in Coin
      BY DEF Other, Coin
    <3>3. reserve[c] \in Nat /\ reserve[Other(c)] \in Nat /\ reserve[Other(c)] > 0
      BY <2>2, <3>1, <3>2 DEF PoolTypeOK
    <3>4. reserve[c] \in Nat \ {0}
      BY <2>2, <3>2, <3>3 DEF PoolTypeOK
    <3> QED
      BY <3>3, <3>4, PoolAssumption, QuoteCovers
  <2> QED
    BY <2>4, <2>5 DEF PoolHolds
<1> QED
  BY <1>1, PoolKept, PTL

\* However addLiquidity, removeLiquidity and swap round, the product of the reserves
\* per square of the shares only grows: nobody's share pays for another's operation.
THEOREM SharesKeepTheirValue == PoolSpec => ShareNeverShrinks
<1>1. PoolIInv /\ [PoolNext]_poolVars
        => [Product * supply' * supply' <= Product' * supply * supply]_poolVars
  <2>1. PoolIInv => PoolTypeOK /\ SharesCovered
    BY PoolAssumption, LockCovers DEF PoolIInv
  <2> QED
    BY <2>1, PoolAssumption, PoolStep
<1> QED
  BY <1>1, PoolKept, PTL DEF PoolSpec, ShareNeverShrinks
=============================================================================
