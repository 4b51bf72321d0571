------------------------ MODULE FormerEngine_proofs -------------------------
(***************************************************************************)
(* What is proved of the former engine and of the pool of the API, whose   *)
(* formulas it shares: the book, the market it implements, the candles and *)
(* the spreads; the rate limit, the pool with its panels, and the pool of  *)
(* the former engine.  For any users, prices, quantities, amounts, fee and *)
(* bounds.                                                                 *)
(***************************************************************************)
EXTENDS FormerEngine, LiquidityPanels, Library_proofs, SequenceTheorems

-----------------------------------------------------------------------------
(* The former engine: its inductive invariant *)

Sides == {"buy", "sell"}
Placed == 1..Len(orders)
FormerOrder == [side : Sides, type : {"limit", "market"}, quantity : Nat \ {0}, price : Int,
                trader : Users \cup {"bot", "market-maker"}]
FormerTrade == [price : Int, quantity : Nat \ {0}, maker : Nat, taker : Nat]

FormerShape ==
  /\ orders \in Seq(FormerOrder)
  /\ filled \in [Placed -> Nat]
  /\ status \in [Placed -> {"open", "partial", "filled", "cancelled"}]
  /\ book \subseteq Placed /\ taker \in Placed \cup {0}
  /\ levels \in [Sides -> SUBSET Int] /\ \A s \in Sides : IsFiniteSet(levels[s])
  /\ newTrades \in Seq(FormerTrade)

\* Fill and status agree, and the book holds the live orders that do not trade.
FillsAgree ==
  \A o \in Placed :
    /\ filled[o] <= orders[o].quantity
    /\ Live(o) => filled[o] < orders[o].quantity
    /\ o \in book <=> Live(o) /\ o # taker
TakerAgrees == taker # 0 => (Live(taker) <=> filled[taker] < orders[taker].quantity)

\* Every order in the book is under a key of its side, whatever was cancelled.
Keyed == \A o \in book : orders[o].price \in levels[orders[o].side]

Uncrossed ==
  \A b, s \in book : orders[b].side = "buy" /\ orders[s].side = "sell" => orders[b].price < orders[s].price

FormerInv == FormerShape /\ FillsAgree /\ TakerAgrees /\ Keyed /\ Uncrossed

\* What an order is.
LEMMA OrderIs ==
  ASSUME FormerShape, NEW o \in Placed
  PROVE  /\ orders[o] \in FormerOrder /\ orders[o].side \in Sides /\ orders[o].type \in {"limit", "market"}
         /\ orders[o].quantity \in Nat \ {0} /\ orders[o].price \in Int
  <1>1. orders[o] \in FormerOrder
    BY DEF FormerShape, Placed
  <1>2. QED
    BY <1>1 DEF FormerOrder

\* The constructor seeds a book that is right.
LEMMA FormerStarts == FormerInit => FormerInv
  <1> SUFFICES ASSUME FormerInit PROVE FormerInv
    OBVIOUS
  <1>1. PICK q \in SeedQuantities :
          orders = [o \in 1..2 |->
            [side |-> IF o = 1 THEN "buy" ELSE "sell", type |-> "limit", quantity |-> q,
             price |-> IF o = 1 THEN SeedMid - 1 ELSE SeedMid + 1, trader |-> "market-maker"]]
    BY DEF FormerInit
  <1>2. q \in Nat \ {0} /\ SeedMid \in Int
    BY FormerAssumption, SimulationAssumption
  <1>3. orders \in Seq(FormerOrder) /\ Len(orders) = 2
    <2>1. \A o \in 1..2 : orders[o] \in FormerOrder
      BY <1>1, <1>2 DEF FormerOrder, Sides
    <2>2. orders \in [1..2 -> FormerOrder]
      BY <1>1, <2>1
    <2>3. QED
      BY <2>2, SeqOfFn
  <1>4. /\ orders[1].side = "buy" /\ orders[2].side = "sell" /\ orders[1].quantity = q /\ orders[2].quantity = q
        /\ orders[1].price = SeedMid - 1 /\ orders[2].price = SeedMid + 1
    BY <1>1
  <1>5. Placed = {1, 2}
    BY <1>3 DEF Placed
  <1>6. /\ filled = <<0, 0>> /\ status = <<"open", "open">> /\ book = {1, 2}
        /\ taker = 0 /\ newTrades = <<>>
        /\ levels = [s \in {"buy", "sell"} |-> {orders[IF s = "buy" THEN 1 ELSE 2].price}]
    BY DEF FormerInit
  <1>7. levels["buy"] = {SeedMid - 1} /\ levels["sell"] = {SeedMid + 1}
    BY <1>4, <1>6
  <1>8. FormerShape
    <2>1. levels \in [Sides -> SUBSET Int] /\ \A s \in Sides : IsFiniteSet(levels[s])
      <3>1. levels \in [Sides -> SUBSET Int]
        BY <1>2, <1>4, <1>6 DEF Sides
      <3>2. QED
        BY <1>7, <3>1, FS_Singleton DEF Sides
    <2>2. /\ filled \in [Placed -> Nat]
          /\ status \in [Placed -> {"open", "partial", "filled", "cancelled"}]
      BY <1>5, <1>6
    <2>3. book \subseteq Placed /\ taker \in Placed \cup {0} /\ newTrades \in Seq(FormerTrade)
      BY <1>5, <1>6
    <2>4. QED
      BY <1>3, <2>1, <2>2, <2>3 DEF FormerShape
  <1>9. FillsAgree /\ TakerAgrees
    BY <1>2, <1>4, <1>5, <1>6 DEF FillsAgree, TakerAgrees, Live
  <1>10. Keyed
    BY <1>4, <1>6, <1>7 DEF Keyed
  <1>11. Uncrossed
    BY <1>2, <1>4, <1>6 DEF Uncrossed
  <1>12. QED
    BY <1>8, <1>9, <1>10, <1>11 DEF FormerInv

\* Where the bot's limits start from (getMidPrice).
LEMMA MidIsInt == FormerShape => MidTwice \in Int
  <1> SUFFICES ASSUME FormerShape PROVE MidTwice \in Int
    OBVIOUS
  <1>1. \A s \in Sides : levels[s] \subseteq Int /\ IsFiniteSet(levels[s])
    BY DEF FormerShape
  <1>2. BestBid \in Int
    BY <1>1, MaxMin DEF Sides, BestBid
  <1>3. BestAsk \in Int
    BY <1>1, MaxMin DEF Sides, BestAsk
  <1>4. InitialPrice \in Int
    BY SimulationAssumption
  <1>5. QED
    BY <1>2, <1>3, <1>4 DEF MidTwice

\* A price of the bot is a number of cents.
LEMMA CentsIsInt == ASSUME NEW n \in Int PROVE Cents(n) \in Int
  <1>1. Abs(n) + 1 \in Int /\ SignOf(n) \in Int
    BY DEF Abs, SignOf
  <1>2. (Abs(n) + 1) \div 2 \in Int
    BY <1>1, DivisionIs
  <1>3. QED
    BY <1>1, <1>2 DEF Cents

\* A new order is the taker, and not in the book.
LEMMA PlaceKeeps ==
  ASSUME FormerInv, NEW side \in Sides, NEW type \in {"limit", "market"}, NEW p \in Int,
         NEW q \in Nat \ {0}, NEW trader \in Users \cup {"bot", "market-maker"},
         PlaceOrder(side, type, p, q, trader)
  PROVE  FormerInv'
  <1> DEFINE n == Len(orders) + 1
             r == [side |-> side, type |-> type, quantity |-> q,
                   price |-> IF type = "limit" THEN p ELSE IF side = "buy" THEN Infinity ELSE 0,
                   trader |-> trader]
  <1>1. /\ taker = 0 /\ orders' = Append(orders, r) /\ filled' = Append(filled, 0)
        /\ status' = Append(status, "open") /\ taker' = n
        /\ UNCHANGED <<book, levels, newTrades>>
    BY DEF PlaceOrder
  <1>2. r \in FormerOrder /\ r.quantity = q
    BY FormerAssumption DEF FormerOrder
  <1> HIDE DEF r
  <1>3. /\ orders \in Seq(FormerOrder) /\ Placed = 1..Len(orders) /\ Len(orders) \in Nat
        /\ filled \in [Placed -> Nat] /\ status \in [Placed -> {"open", "partial", "filled", "cancelled"}]
        /\ book \subseteq Placed
    BY DEF FormerInv, FormerShape, Placed
  <1>4. PICK k \in Nat : k = Len(orders) /\ Placed = 1..k /\ n = k + 1
    BY <1>3
  <1>5. /\ orders' \in Seq(FormerOrder) /\ Placed' = 1..n /\ n = Len(orders) + 1
        /\ orders'[n] = r /\ \A o \in Placed : orders'[o] = orders[o]
    <2>1. Append(orders, r) \in Seq(FormerOrder) /\ Len(Append(orders, r)) = n
      BY <1>2, <1>3
    <2>2. Placed' = 1..n
      BY <1>1, <2>1 DEF Placed
    <2>3. Append(orders, r)[n] = r /\ \A o \in 1..Len(orders) : Append(orders, r)[o] = orders[o]
      BY <1>3
    <2>4. QED
      BY <1>1, <1>3, <2>1, <2>2, <2>3
  <1>6. filled' \in [1..n -> Nat] /\ filled'[n] = 0 /\ \A o \in Placed : filled'[o] = filled[o]
    <2>1. filled \in [1..k -> Nat]
      BY <1>3, <1>4
    <2> HIDE DEF n
    <2>2. Append(filled, 0) \in Longer(Nat, k, filled, 0)
      BY <2>1, AppendFn
    <2>3. QED
      BY <1>1, <1>4, <2>2 DEF Longer
  <1>7. /\ status' \in [1..n -> {"open", "partial", "filled", "cancelled"}] /\ status'[n] = "open"
        /\ \A o \in Placed : status'[o] = status[o]
    <2> DEFINE S == {"open", "partial", "filled", "cancelled"}
    <2>1. status \in [1..k -> S] /\ "open" \in S
      BY <1>3, <1>4
    <2> HIDE DEF n, S
    <2>2. Append(status, "open") \in Longer(S, k, status, "open")
      BY <2>1, AppendFn
    <2>3. status' \in [1..n -> S] /\ status'[n] = "open" /\ \A o \in Placed : status'[o] = status[o]
      BY <1>1, <1>4, <2>2 DEF Longer
    <2>4. QED
      BY <2>3 DEF S
  <1>8. \A o \in 1..n : o = n \/ (o \in Placed /\ o # n)
    BY <1>3
  <1>9. n \notin book /\ n \in 1..n /\ n # 0
    BY <1>3
  <1> HIDE DEF n
  <1>10. FormerShape'
    BY <1>1, <1>3, <1>5, <1>6, <1>7, <1>9 DEF FormerInv, FormerShape
  <1>11. FillsAgree'
    <2> SUFFICES ASSUME NEW o \in 1..n
                 PROVE  /\ filled'[o] <= orders'[o].quantity
                        /\ Live(o)' => filled'[o] < orders'[o].quantity
                        /\ o \in book' <=> Live(o)' /\ o # taker'
      BY <1>5 DEF FillsAgree
    <2>1. CASE o = n
      BY <1>1, <1>2, <1>5, <1>6, <1>7, <1>9, <2>1 DEF Live
    <2>2. CASE o \in Placed /\ o # n
      <3>1. o # 0
        BY <1>3, <2>2
      <3>2. QED
        BY <1>1, <1>5, <1>6, <1>7, <2>2, <3>1 DEF Live, FormerInv, FillsAgree
    <2>3. QED
      BY <1>8, <2>1, <2>2
  <1>12. TakerAgrees'
    BY <1>1, <1>2, <1>5, <1>6, <1>7 DEF TakerAgrees, Live
  <1>13. Keyed' /\ Uncrossed'
    BY <1>1, <1>3, <1>5 DEF Keyed, Uncrossed, FormerInv
  <1>14. QED
    BY <1>10, <1>11, <1>12, <1>13 DEF FormerInv

\* A cancelled order leaves the book, and its key comes back (removeFromBook).
LEMMA CancelKeeps ==
  ASSUME FormerInv, NEW o \in Placed, CancelOrder(o)
  PROVE  FormerInv'
  <1>1. /\ taker = 0 /\ Live(o) /\ status' = [status EXCEPT ![o] = "cancelled"]
        /\ book' = book \ {o}
        /\ levels' = [levels EXCEPT ![orders[o].side] = levels[orders[o].side] \cup {orders[o].price}]
        /\ UNCHANGED <<orders, filled, taker, newTrades>> /\ Placed' = Placed
    BY DEF CancelOrder, removeFromBook, Placed
  <1>2. orders[o].side \in Sides /\ orders[o].price \in Int
    BY OrderIs DEF FormerInv
  <1>3. levels' \in [Sides -> SUBSET Int] /\ \A s \in Sides : IsFiniteSet(levels'[s]) /\ levels[s] \subseteq levels'[s]
    <2>1. levels \in [Sides -> SUBSET Int] /\ \A s \in Sides : IsFiniteSet(levels[s])
      BY DEF FormerInv, FormerShape
    <2>2. IsFiniteSet(levels[orders[o].side] \cup {orders[o].price})
      BY <1>2, <2>1, FS_AddElement
    <2>3. QED
      BY <1>1, <1>2, <2>1, <2>2
  <1>4. status' \in [Placed -> {"open", "partial", "filled", "cancelled"}]
    BY <1>1 DEF FormerInv, FormerShape
  <1>5. FormerShape'
    BY <1>1, <1>3, <1>4 DEF FormerInv, FormerShape
  <1>6. \A x \in Placed : Live(x)' <=> Live(x) /\ x # o
    BY <1>1 DEF Live, FormerInv, FormerShape
  <1>7. FillsAgree' /\ TakerAgrees'
    <2>1. FillsAgree'
      <3> SUFFICES ASSUME NEW x \in Placed
                   PROVE  /\ filled[x] <= orders[x].quantity
                          /\ Live(x)' => filled[x] < orders[x].quantity
                          /\ x \in book' <=> Live(x)' /\ x # taker
        BY <1>1 DEF FillsAgree
      <3>1. QED
        BY <1>1, <1>6 DEF FormerInv, FillsAgree
    <2>2. TakerAgrees'
      BY <1>1 DEF TakerAgrees
    <2>3. QED
      BY <2>1, <2>2
  <1>8. Keyed'
    <2>1. \A x \in book : orders[x].side \in Sides
      BY OrderIs DEF FormerInv, FormerShape
    <2>2. QED
      BY <1>1, <1>3, <2>1 DEF FormerInv, Keyed
  <1>9. Uncrossed'
    BY <1>1 DEF FormerInv, Uncrossed
  <1>10. QED
    BY <1>5, <1>7, <1>8, <1>9 DEF FormerInv

\* The maker and the taker of a fill, and how much it takes (match).
LEMMA FillIs ==
  ASSUME FormerInv, NEW m \in Placed, Fill(m)
  PROVE  /\ m \in book /\ taker \in Placed /\ m # taker /\ taker # 0 /\ Live(m) /\ Live(taker)
         /\ orders[m].side = Other(orders[taker].side) /\ canMatch(orders[m].price)
         /\ FillQty(m) \in Nat \ {0}
         /\ filled[m] + FillQty(m) <= orders[m].quantity
         /\ filled[taker] + FillQty(m) <= orders[taker].quantity
  <1>1. /\ taker # 0 /\ ~Complete /\ m \in Makers
    BY DEF Fill, Reached
  <1>2. /\ m \in book /\ orders[m].side = Other(orders[taker].side) /\ canMatch(orders[m].price)
    BY <1>1 DEF Makers
  <1>3. taker \in Placed /\ Live(m) /\ m # taker
    BY <1>1, <1>2 DEF FormerInv, FormerShape, FillsAgree
  <1>4. /\ orders[m].quantity \in Nat /\ orders[taker].quantity \in Nat
        /\ filled[m] \in Nat /\ filled[taker] \in Nat
    BY <1>3, OrderIs DEF FormerInv, FormerShape
  <1>5. /\ filled[m] < orders[m].quantity
        /\ filled[taker] <= orders[taker].quantity /\ filled[taker] # orders[taker].quantity
    BY <1>1, <1>3 DEF FormerInv, FillsAgree, Complete
  <1>6. Live(taker)
    BY <1>1, <1>4, <1>5 DEF FormerInv, TakerAgrees
  <1>7. FillQty(m) = IF orders[m].quantity - filled[m] <= orders[taker].quantity - filled[taker]
                     THEN orders[m].quantity - filled[m] ELSE orders[taker].quantity - filled[taker]
    BY <1>4, MinOfTwo DEF FillQty
  <1>8. QED
    BY <1>1, <1>2, <1>3, <1>4, <1>5, <1>6, <1>7

\* What a fill changes.
LEMMA FillDoes ==
  ASSUME FormerInv, NEW m \in Placed, Fill(m)
  PROVE  /\ filled' \in [Placed -> Nat]
         /\ filled'[m] = filled[m] + FillQty(m) /\ filled'[taker] = filled[taker] + FillQty(m)
         /\ status' \in [Placed -> {"open", "partial", "filled", "cancelled"}]
         /\ \A x \in {m, taker} : filled'[x] <= orders[x].quantity
                                  /\ (Live(x)' <=> filled'[x] < orders[x].quantity)
         /\ \A x \in Placed \ {m, taker} : filled'[x] = filled[x] /\ (Live(x)' <=> Live(x))
         /\ book' = IF Live(m)' THEN book ELSE book \ {m}
         /\ UNCHANGED <<orders, taker>> /\ Placed' = Placed
  <1> DEFINE q == FillQty(m)
  <1>1. /\ filled' = [filled EXCEPT ![m] = filled[m] + q, ![taker] = filled[taker] + q]
        /\ status' = [status EXCEPT ![m] = After(m, q), ![taker] = After(taker, q)]
        /\ book' = IF After(m, q) = "filled" THEN book \ {m} ELSE book
        /\ UNCHANGED <<orders, taker>> /\ Placed' = Placed
    BY DEF Fill, Placed
  <1>2. /\ m # taker /\ m \in Placed /\ taker \in Placed /\ q \in Nat \ {0}
        /\ filled[m] + q <= orders[m].quantity /\ filled[taker] + q <= orders[taker].quantity
    BY FillIs
  <1>3. /\ filled \in [Placed -> Nat] /\ status \in [Placed -> {"open", "partial", "filled", "cancelled"}]
        /\ orders[m].quantity \in Nat /\ orders[taker].quantity \in Nat
    BY <1>2, OrderIs DEF FormerInv, FormerShape
  <1> HIDE DEF q
  <1>4. /\ filled' \in [Placed -> Nat]
        /\ filled'[m] = filled[m] + q /\ filled'[taker] = filled[taker] + q
        /\ \A x \in Placed \ {m, taker} : filled'[x] = filled[x]
    <2>1. filled[m] + q \in Nat /\ filled[taker] + q \in Nat
      BY <1>2, <1>3
    <2>2. QED
      BY <1>1, <1>2, <1>3, <2>1
  <1>5. After(m, q) \in {"filled", "partial"} /\ After(taker, q) \in {"filled", "partial"}
    BY DEF After
  <1>6. /\ status' \in [Placed -> {"open", "partial", "filled", "cancelled"}]
        /\ status'[m] = After(m, q) /\ status'[taker] = After(taker, q)
        /\ \A x \in Placed \ {m, taker} : status'[x] = status[x]
    BY <1>1, <1>2, <1>3, <1>5
  <1>7. /\ After(m, q) = "filled" <=> filled'[m] = orders[m].quantity
        /\ After(taker, q) = "filled" <=> filled'[taker] = orders[taker].quantity
    BY <1>2, <1>3, <1>4 DEF After
  <1>8. \A x \in {m, taker} : filled'[x] <= orders[x].quantity /\ (Live(x)' <=> filled'[x] < orders[x].quantity)
    BY <1>2, <1>3, <1>4, <1>5, <1>6, <1>7 DEF Live
  <1>9. \A x \in Placed \ {m, taker} : Live(x)' <=> Live(x)
    BY <1>6 DEF Live
  <1>10. Live(m)' <=> After(m, q) # "filled"
    BY <1>5, <1>6 DEF Live
  <1>11. QED
    BY <1>1, <1>4, <1>6, <1>8, <1>9, <1>10 DEF q

\* The keys a fill leaves: no order of the book was under those it removes.
LEMMA FillKeys ==
  ASSUME FormerInv, NEW m \in Placed, Fill(m)
  PROVE  /\ levels' \in [Sides -> SUBSET Int] /\ \A s \in Sides : IsFiniteSet(levels'[s])
         /\ \A o \in book' : orders[o].price \in levels'[orders[o].side]
  <1> DEFINE p == orders[m].price
             side == orders[m].side
             kept == {x \in levels[side] : ~Better(x, p) /\ (x # p \/ \E o \in book' : orders[o].side = side
                                                                                      /\ orders[o].price = p)}
  <1>1. levels' = [levels EXCEPT ![side] = kept] /\ book' \subseteq book
    BY DEF Fill
  <1>2. /\ levels \in [Sides -> SUBSET Int] /\ \A s \in Sides : IsFiniteSet(levels[s])
        /\ side \in Sides /\ book \subseteq Placed
    BY OrderIs DEF FormerInv, FormerShape
  <1>3. /\ side = Other(orders[taker].side) /\ canMatch(p) /\ taker \in Placed /\ Reached(m)
    BY FillIs DEF Fill
  <1>4. orders[taker].price \in Int /\ p \in Int /\ orders[taker].side \in Sides
    BY <1>3, OrderIs DEF FormerInv
  <1>5. kept \subseteq levels[side] /\ IsFiniteSet(kept)
    <2>1. kept \in SUBSET levels[side] /\ IsFiniteSet(levels[side])
      BY <1>2
    <2> HIDE DEF kept
    <2>2. QED
      BY <2>1, FS_Subset
  <1>6. levels' \in [Sides -> SUBSET Int] /\ \A s \in Sides : IsFiniteSet(levels'[s])
    <2> HIDE DEF kept
    <2>1. levels[side] \subseteq Int
      BY <1>2
    <2>2. QED
      BY <1>1, <1>2, <1>5, <2>1
  <1>7. ASSUME NEW o \in book' PROVE orders[o].price \in levels'[orders[o].side]
    <2>1. o \in book /\ o \in Placed /\ orders[o].price \in Int /\ orders[o].side \in Sides
          /\ orders[o].price \in levels[orders[o].side]
      BY <1>1, <1>2, <1>7, OrderIs DEF FormerInv, Keyed
    <2>2. CASE orders[o].side # side
      BY <1>1, <1>2, <2>1, <2>2
    <2>3. CASE orders[o].side = side
      <3>1. ~Better(orders[o].price, p)
        <4> SUFFICES ASSUME Better(orders[o].price, p) PROVE FALSE
          OBVIOUS
        <4>1. canMatch(orders[o].price)
          BY <1>3, <1>4, <2>1 DEF Better, canMatch
        <4>2. o \in Makers
          BY <1>3, <2>1, <2>3, <4>1 DEF Makers
        <4>3. o # m
          BY <1>4 DEF Better
        <4>4. Ahead(m, o)
          BY <1>3, <4>2, <4>3 DEF Reached
        <4>5. QED
          BY <1>4, <2>1, <4>4 DEF Ahead, Better
      <3>2. orders[o].price \in kept
        BY <1>7, <2>1, <2>3, <3>1
      <3>3. levels'[side] = kept
        BY <1>1, <1>2
      <3>4. QED
        BY <2>3, <3>2, <3>3
    <2>4. QED
      BY <2>2, <2>3
  <1>8. QED
    BY <1>6, <1>7

\* A fill keeps the invariant (match).
LEMMA FillKeeps ==
  ASSUME FormerInv, NEW m \in Placed, Fill(m)
  PROVE  FormerInv'
  <1>1. /\ filled' \in [Placed -> Nat]
        /\ status' \in [Placed -> {"open", "partial", "filled", "cancelled"}]
        /\ \A x \in {m, taker} : filled'[x] <= orders[x].quantity
                                 /\ (Live(x)' <=> filled'[x] < orders[x].quantity)
        /\ \A x \in Placed \ {m, taker} : filled'[x] = filled[x] /\ (Live(x)' <=> Live(x))
        /\ book' = IF Live(m)' THEN book ELSE book \ {m}
        /\ UNCHANGED <<orders, taker>> /\ Placed' = Placed
    BY FillDoes
  <1>2. m \in book /\ taker \in Placed /\ m # taker /\ taker # 0 /\ FillQty(m) \in Nat \ {0}
    BY FillIs
  <1>3. /\ levels' \in [Sides -> SUBSET Int] /\ \A s \in Sides : IsFiniteSet(levels'[s])
        /\ \A o \in book' : orders[o].price \in levels'[orders[o].side]
    BY FillKeys
  <1>4. newTrades' \in Seq(FormerTrade)
    <2> DEFINE t == [price |-> orders[m].price, quantity |-> FillQty(m), maker |-> m, taker |-> taker]
    <2>1. orders[m].price \in Int /\ m \in Nat /\ taker \in Nat
      BY <1>2, OrderIs DEF FormerInv, Placed
    <2>2. t \in FormerTrade
      BY <1>2, <2>1 DEF FormerTrade
    <2>3. newTrades' = Append(newTrades, t) /\ newTrades \in Seq(FormerTrade)
      BY DEF Fill, FormerInv, FormerShape
    <2> HIDE DEF t
    <2>4. QED
      BY <2>2, <2>3
  <1>5. book' \subseteq Placed
    BY <1>1 DEF FormerInv, FormerShape
  <1>6. FormerShape'
    BY <1>1, <1>3, <1>4, <1>5 DEF FormerInv, FormerShape
  <1>7. FillsAgree'
    <2> SUFFICES ASSUME NEW x \in Placed
                 PROVE  /\ filled'[x] <= orders[x].quantity
                        /\ Live(x)' => filled'[x] < orders[x].quantity
                        /\ x \in book' <=> Live(x)' /\ x # taker
      BY <1>1 DEF FillsAgree
    <2>1. /\ filled[x] <= orders[x].quantity
          /\ Live(x) => filled[x] < orders[x].quantity
          /\ x \in book <=> Live(x) /\ x # taker
      BY DEF FormerInv, FillsAgree
    <2>2. CASE x = m
      BY <1>1, <1>2, <2>2
    <2>3. CASE x = taker
      BY <1>1, <1>2, <2>1, <2>3
    <2>4. CASE x \in Placed \ {m, taker}
      BY <1>1, <2>1, <2>4
    <2>5. QED
      BY <2>2, <2>3, <2>4
  <1>8. TakerAgrees'
    BY <1>1, <1>2 DEF TakerAgrees
  <1>9. Keyed'
    BY <1>1, <1>3 DEF Keyed
  <1>10. Uncrossed'
    BY <1>1 DEF FormerInv, Uncrossed
  <1>11. QED
    BY <1>6, <1>7, <1>8, <1>9, <1>10 DEF FormerInv

\* The end of a call: what rests is keyed and crosses nothing (placeOrder).
LEMMA ReturnKeeps ==
  ASSUME FormerInv, Return
  PROVE  FormerInv'
  <1> DEFINE side == orders[taker].side
             rests == Live(taker) /\ orders[taker].type = "limit"
             swept == IF Complete THEN {} ELSE {p \in levels[Other(side)] : canMatch(p)}
             final == IF ~Live(taker) \/ rests THEN status[taker]
                      ELSE IF filled[taker] > 0 THEN "filled" ELSE "cancelled"
  <1>1. /\ taker # 0 /\ (Complete \/ Makers = {})
        /\ book' = IF rests THEN book \cup {taker} ELSE book
        /\ levels' = [levels EXCEPT ![Other(side)] = levels[Other(side)] \ swept,
                                    ![side] = IF rests THEN @ \cup {orders[taker].price} ELSE @]
        /\ status' = [status EXCEPT ![taker] = final]
        /\ taker' = 0 /\ newTrades' = <<>>
        /\ UNCHANGED <<orders, filled>> /\ Placed' = Placed
    BY DEF Return, Placed
  <1>2. /\ taker \in Placed /\ book \subseteq Placed
        /\ levels \in [Sides -> SUBSET Int] /\ \A s \in Sides : IsFiniteSet(levels[s])
        /\ status \in [Placed -> {"open", "partial", "filled", "cancelled"}]
    BY <1>1 DEF FormerInv, FormerShape
  <1>3. side \in Sides /\ orders[taker].price \in Int /\ Other(side) \in Sides /\ Other(side) # side
    BY <1>2, OrderIs DEF FormerInv, Other, Sides
  <1>4. /\ taker \notin book
        /\ Live(taker) => ~Complete
    <2>1. taker \notin book /\ (Live(taker) => filled[taker] < orders[taker].quantity)
      BY <1>2 DEF FormerInv, FillsAgree
    <2>2. orders[taker].quantity \in Nat
      BY <1>2, OrderIs DEF FormerInv
    <2>3. QED
      BY <2>1, <2>2 DEF Complete
  <1>5. final \in {"open", "partial", "filled", "cancelled"} /\ (final \in {"open", "partial"} <=> rests)
    BY <1>2 DEF Live
  <1>6. swept \subseteq levels[Other(side)]
    OBVIOUS
  <1>7. \A o \in book : orders[o].side = Other(side) => orders[o].price \notin swept
    <2> SUFFICES ASSUME NEW o \in book, orders[o].side = Other(side), orders[o].price \in swept PROVE FALSE
      OBVIOUS
    <2>1. ~Complete /\ canMatch(orders[o].price) /\ Makers = {}
      BY <1>1
    <2>2. orders[o].price \in levels[orders[o].side]
      BY DEF FormerInv, Keyed
    <2>3. o \in Makers
      BY <2>1, <2>2 DEF Makers
    <2>4. QED
      BY <2>1, <2>3
  <1>8. ASSUME rests, NEW o \in book, orders[o].side = Other(side)
        PROVE  ~canMatch(orders[o].price)
    <2>1. Makers = {}
      BY <1>1, <1>4, <1>8
    <2>2. orders[o].price \in levels[orders[o].side]
      BY DEF FormerInv, Keyed
    <2>3. QED
      BY <1>8, <2>1, <2>2 DEF Makers
  <1> HIDE DEF swept, final
  <1>9. /\ levels'[Other(side)] = levels[Other(side)] \ swept
        /\ levels'[side] = IF rests THEN levels[side] \cup {orders[taker].price} ELSE levels[side]
        /\ levels' \in [Sides -> SUBSET Int]
    BY <1>1, <1>2, <1>3
  <1>10. \A s \in Sides : IsFiniteSet(levels'[s])
    <2>1. \A s \in Sides : s = side \/ s = Other(side)
      BY <1>3 DEF Sides
    <2>2. IsFiniteSet(levels'[Other(side)])
      <3>1. IsFiniteSet(levels[Other(side)]) /\ levels[Other(side)] \ swept \in SUBSET levels[Other(side)]
        BY <1>2, <1>3
      <3>2. IsFiniteSet(levels[Other(side)] \ swept)
        BY <3>1, FS_Subset
      <3>3. QED
        BY <1>9, <3>2
    <2>3. IsFiniteSet(levels'[side])
      <3>1. IsFiniteSet(levels[side])
        BY <1>2, <1>3
      <3>2. IsFiniteSet(levels[side] \cup {orders[taker].price})
        BY <3>1, FS_AddElement
      <3>3. QED
        BY <1>9, <3>1, <3>2
    <2>4. QED
      BY <2>1, <2>2, <2>3
  <1>11. status' \in [Placed -> {"open", "partial", "filled", "cancelled"}]
    BY <1>1, <1>2, <1>5
  <1>13. FormerShape'
    <2>1. book' \subseteq Placed /\ taker' \in Placed \cup {0} /\ newTrades' \in Seq(FormerTrade)
      BY <1>1, <1>2
    <2>2. QED
      BY <1>1, <1>9, <1>10, <1>11, <2>1 DEF FormerInv, FormerShape
  <1>14. FillsAgree'
    <2> SUFFICES ASSUME NEW x \in Placed
                 PROVE  /\ filled[x] <= orders[x].quantity
                        /\ Live(x)' => filled[x] < orders[x].quantity
                        /\ x \in book' <=> Live(x)' /\ x # 0
      BY <1>1 DEF FillsAgree
    <2>1. /\ filled[x] <= orders[x].quantity
          /\ Live(x) => filled[x] < orders[x].quantity
          /\ x \in book <=> Live(x) /\ x # taker
      BY DEF FormerInv, FillsAgree
    <2>2. x # 0
      BY DEF Placed
    <2>3. CASE x = taker
      <3>1. status'[x] = final
        BY <1>1, <1>2, <2>3
      <3>2. Live(x)' <=> rests
        BY <1>5, <3>1 DEF Live
      <3>3. QED
        BY <1>1, <1>4, <2>1, <2>2, <2>3, <3>2
    <2>4. CASE x # taker
      <3>1. status'[x] = status[x]
        BY <1>1, <1>2, <2>4
      <3>2. Live(x)' <=> Live(x)
        BY <3>1 DEF Live
      <3>3. QED
        BY <1>1, <2>1, <2>2, <2>4, <3>2
    <2>5. QED
      BY <2>3, <2>4
  <1>15. TakerAgrees'
    BY <1>1 DEF TakerAgrees
  <1>16. Keyed'
    <2> SUFFICES ASSUME NEW o \in book' PROVE orders[o].price \in levels'[orders[o].side]
      BY <1>1 DEF Keyed
    <2>1. CASE o \in book
      <3>1. orders[o].price \in levels[orders[o].side] /\ orders[o].side \in {side, Other(side)}
        BY <1>2, <1>3, <2>1, OrderIs DEF FormerInv, Keyed, Sides
      <3>2. QED
        BY <1>7, <1>9, <2>1, <3>1
    <2>2. CASE o \notin book
      <3>1. rests /\ o = taker
        BY <1>1, <2>2
      <3>2. QED
        BY <1>9, <3>1
    <2>3. QED
      BY <2>1, <2>2
  <1>17. Uncrossed'
    <2> SUFFICES ASSUME NEW b \in book', NEW s \in book', orders[b].side = "buy", orders[s].side = "sell"
                 PROVE  orders[b].price < orders[s].price
      BY <1>1 DEF Uncrossed
    <2>1. CASE b \in book /\ s \in book
      BY <2>1 DEF FormerInv, Uncrossed
    <2>2. CASE b \notin book
      <3>1. rests /\ b = taker /\ s \in book
        BY <1>1, <2>2
      <3>2. side = "buy" /\ orders[s].side = Other(side) /\ s \in Placed
        BY <1>2, <3>1 DEF Other
      <3>3. ~canMatch(orders[s].price) /\ orders[s].price \in Int
        BY <1>8, <3>1, <3>2, OrderIs DEF FormerInv
      <3>4. QED
        BY <1>3, <3>1, <3>2, <3>3 DEF canMatch
    <2>3. CASE s \notin book
      <3>1. rests /\ s = taker /\ b \in book
        BY <1>1, <2>3
      <3>2. side = "sell" /\ orders[b].side = Other(side) /\ b \in Placed
        BY <1>2, <3>1 DEF Other
      <3>3. ~canMatch(orders[b].price) /\ orders[b].price \in Int
        BY <1>8, <3>1, <3>2, OrderIs DEF FormerInv
      <3>4. QED
        BY <1>3, <3>1, <3>2, <3>3 DEF canMatch
    <2>4. QED
      BY <2>1, <2>2, <2>3
  <1>18. QED
    BY <1>13, <1>14, <1>15, <1>16, <1>17 DEF FormerInv

\* Every step of the former engine is one of these, or leaves its book alone.
LEMMA FormerSteps ==
  ASSUME FormerInv, FormerNext
  PROVE  \/ UNCHANGED bookVars
         \/ \E side \in Sides, type \in {"limit", "market"}, p \in Int, q \in Nat \ {0},
              trader \in Users \cup {"bot", "market-maker"} : PlaceOrder(side, type, p, q, trader)
         \/ \E m \in Placed : Fill(m) \/ CancelOrder(m)
         \/ Return
  <1>1. DOMAIN orders = Placed
    BY DEF FormerInv, FormerShape, Placed
  <1>2. ASSUME NEW side \in {"buy", "sell"}, NEW type \in {"limit", "market"}, NEW q \in Quantities,
               NEW p \in Prices, NEW u \in Users, UserOrder(side, type, p, q, u)
        PROVE  \E s \in Sides, y \in {"limit", "market"}, v \in Int, w \in Nat \ {0},
                 r \in Users \cup {"bot", "market-maker"} : PlaceOrder(s, y, v, w, r)
    <2>1. q \in Nat \ {0} /\ p \in Int /\ side \in Sides
      BY <1>2, FormerAssumption DEF UserOrder, Sides
    <2>2. PlaceOrder(side, type, p, q, u)
      BY <1>2 DEF UserOrder
    <2>3. QED
      BY <2>1, <2>2
  <1>3. ASSUME NEW side \in {"buy", "sell"}, NEW type \in {"limit", "market"}, NEW q \in Quantities,
               q > 0, NEW x \in Offsets, BotOrder(side, type, x, q)
        PROVE  \E s \in Sides, y \in {"limit", "market"}, v \in Int, w \in Nat \ {0},
                 r \in Users \cup {"bot", "market-maker"} : PlaceOrder(s, y, v, w, r)
    <2>1. q \in Nat \ {0} /\ x \in Nat /\ side \in Sides /\ MidTwice \in Int
      BY <1>3, FormerAssumption, MidIsInt DEF Sides, FormerInv
    <2> DEFINE n == IF side = "buy" THEN MidTwice - 2 * x ELSE MidTwice + 2 * x
               v == Cents(n)
    <2>2. v \in Int
      <3>1. n \in Int
        BY <2>1
      <3> HIDE DEF n
      <3>2. QED
        BY <3>1, CentsIsInt
    <2>3. PlaceOrder(side, type, v, q, "bot")
      BY <1>3 DEF BotOrder
    <2> HIDE DEF v
    <2>4. QED
      BY <2>1, <2>2, <2>3
  <1>4. ASSUME NEW m \in DOMAIN orders, DeleteOrder(m) \/ \E u \in Users : DeleteOwnOrder(m, u)
        PROVE  CancelOrder(m)
    BY <1>4 DEF DeleteOrder, DeleteOwnOrder
  <1>5. ASSUME \/ IdleTick \/ \E a \in Swaps, t \in Tokens : FormerSwap(a, t)
               \/ \E d \in Deposits : FormerDeposit(d[1], d[2])
               \/ MinutePasses /\ UNCHANGED formerVars
        PROVE  UNCHANGED bookVars
    BY <1>5 DEF IdleTick, FormerSwap, FormerDeposit, formerVars
  <1>6. QED
    BY <1>1, <1>2, <1>3, <1>4, <1>5 DEF FormerNext

\* FormerInv is inductive.
LEMMA StepFormer == FormerInv /\ [FormerNext]_<<formerVars, simVars>> => FormerInv'
  <1> SUFFICES ASSUME FormerInv, [FormerNext]_<<formerVars, simVars>> PROVE FormerInv'
    OBVIOUS
  <1>1. CASE UNCHANGED bookVars
    <2>1. FormerShape'
      BY <1>1 DEF bookVars, FormerInv, FormerShape, Placed
    <2>2. FillsAgree' /\ TakerAgrees'
      BY <1>1 DEF bookVars, FormerInv, FillsAgree, TakerAgrees, Placed, Live
    <2>3. Keyed' /\ Uncrossed'
      BY <1>1 DEF bookVars, FormerInv, Keyed, Uncrossed
    <2>4. QED
      BY <2>1, <2>2, <2>3 DEF FormerInv
  <1>2. CASE FormerNext
    BY <1>1, <1>2, FormerSteps, PlaceKeeps, FillKeeps, CancelKeeps, ReturnKeeps
  <1>3. QED
    BY <1>1, <1>2 DEF formerVars

\* The inductive invariant: fills and status agree, the book is the live orders and
\* uncrossed, and every order of it is under a key of its side.
THEOREM FormerInvariance == FormerSpec => []FormerInv
  <1>1. QED
    BY FormerStarts, StepFormer, PTL DEF FormerSpec

-----------------------------------------------------------------------------
(* The former engine is a market *)

Lives == {o \in DOMAIN orders : Live(o)}

\* A call that begins accepts an order.
LEMMA PlaceAccepts ==
  ASSUME FormerInv, NEW side \in Sides, NEW type \in {"limit", "market"}, NEW p \in Int,
         NEW q \in Nat \ {0}, NEW trader \in Users \cup {"bot", "market-maker"},
         PlaceOrder(side, type, p, q, trader)
  PROVE  TheMarket!Next
  <1>1. PICK k \in Nat : k = Len(orders) /\ Placed = 1..k /\ DOMAIN orders = 1..k
    BY DEF FormerInv, FormerShape, Placed
  <1> DEFINE r == [side |-> side, type |-> type, quantity |-> q,
                   price |-> IF type = "limit" THEN p ELSE IF side = "buy" THEN Infinity ELSE 0,
                   trader |-> trader]
             S == {"open", "partial", "filled", "cancelled"}
  <1>2. orders' = Append(orders, r) /\ filled' = Append(filled, 0) /\ status' = Append(status, "open")
    BY DEF PlaceOrder
  <1>3. r \in FormerOrder /\ "open" \in S
    BY FormerAssumption DEF FormerOrder
  <1>4. /\ orders \in [1..k -> FormerOrder] /\ filled \in [1..k -> Nat]
        /\ status \in [1..k -> S]
    BY <1>1 DEF FormerInv, FormerShape
  <1> HIDE DEF r, S
  <1>5. orders' \in Longer(FormerOrder, k, orders, r)
    BY <1>2, <1>3, <1>4, AppendFn
  <1>6. filled' \in Longer(Nat, k, filled, 0)
    BY <1>2, <1>4, AppendFn
  <1>7. status' \in Longer(S, k, status, "open")
    BY <1>2, <1>3, <1>4, AppendFn
  <1>8. DOMAIN orders' = DOMAIN orders \cup {k + 1} /\ k + 1 \notin DOMAIN orders /\ DOMAIN orders' = 1 .. k + 1
    BY <1>1, <1>5 DEF Longer
  <1>9. \A x \in DOMAIN orders : orders'[x] = orders[x]
    BY <1>1, <1>5 DEF Longer
  <1>10. filled' = [x \in DOMAIN orders' |-> IF x = k + 1 THEN 0 ELSE filled[x]]
    <2>1. \A x \in 1 .. k + 1 : filled'[x] = IF x = k + 1 THEN 0 ELSE filled[x]
      BY <1>6 DEF Longer
    <2>2. filled' \in [1 .. k + 1 -> Nat]
      BY <1>6 DEF Longer
    <2>3. QED
      BY <1>8, <2>1, <2>2
  <1>11. Lives' = Lives \cup {k + 1}
    <2>1. Live(k + 1)' /\ \A x \in 1..k : Live(x)' <=> Live(x)
      BY <1>7 DEF Longer, Live
    <2>2. QED
      BY <1>1, <1>8, <2>1 DEF Lives
  <1>12. TheMarket!Accept
    BY <1>8, <1>9, <1>10, <1>11 DEF TheMarket!Accept, Lives
  <1>13. QED
    BY <1>12 DEF TheMarket!Next

\* A fill is a trade between the maker and the taker, within both limits.
LEMMA FillTrades ==
  ASSUME FormerInv, NEW m \in Placed, Fill(m)
  PROVE  TheMarket!Next
  <1> DEFINE q == FillQty(m)
             b == IF orders[taker].side = "buy" THEN taker ELSE m
             s == IF orders[taker].side = "buy" THEN m ELSE taker
  <1>1. /\ m \in book /\ taker \in Placed /\ m # taker /\ Live(m) /\ Live(taker)
        /\ orders[m].side = Other(orders[taker].side) /\ canMatch(orders[m].price)
        /\ q \in Nat \ {0}
    BY FillIs
  <1>2. /\ filled' \in [Placed -> Nat]
        /\ filled'[m] = filled[m] + q /\ filled'[taker] = filled[taker] + q
        /\ \A x \in {m, taker} : filled'[x] <= orders[x].quantity
                                 /\ (Live(x)' <=> filled'[x] < orders[x].quantity)
        /\ \A x \in Placed \ {m, taker} : filled'[x] = filled[x] /\ (Live(x)' <=> Live(x))
        /\ UNCHANGED <<orders, taker>> /\ Placed' = Placed
    BY FillDoes
  <1>3. /\ DOMAIN orders = Placed /\ filled \in [Placed -> Nat]
        /\ \A x \in Placed : orders[x].side \in Sides /\ orders[x].price \in Int /\ orders[x].quantity \in Nat
    BY OrderIs DEF FormerInv, FormerShape, Placed
  <1> HIDE DEF q
  <1>4. {b, s} = {m, taker} /\ b # s /\ b \in Placed /\ s \in Placed
    BY <1>1
  <1>5. orders[b].side = "buy" /\ orders[s].side = "sell" /\ orders[s].price <= orders[b].price
    BY <1>1, <1>3 DEF Other, Sides, canMatch
  <1> HIDE DEF b, s
  <1>6. {b, s} \subseteq Lives
    BY <1>1, <1>3, <1>4 DEF Lives
  <1>7. filled'[b] - filled[b] = q /\ filled'[s] - filled[s] = q
    <2>1. filled[m] \in Nat /\ filled[taker] \in Nat
      BY <1>1, <1>3
    <2>2. filled'[m] - filled[m] = q /\ filled'[taker] - filled[taker] = q
      BY <1>1, <1>2, <2>1
    <2>3. QED
      BY <1>4, <2>2
  <1>8. filled' = [filled EXCEPT ![b] = @ + q, ![s] = @ + q]
    <2>1. filled'[b] = filled[b] + q /\ filled'[s] = filled[s] + q
      BY <1>2, <1>4
    <2>2. \A x \in Placed \ {b, s} : filled'[x] = filled[x]
      BY <1>2, <1>4
    <2>3. QED
      BY <1>2, <1>3, <1>4, <2>1, <2>2
  <1>9. Lives' = Lives \ {o \in {b, s} : filled'[o] = orders[o].quantity}
    <2>1. \A o \in {b, s} : filled'[o] \in Nat /\ orders[o].quantity \in Nat /\ filled'[o] <= orders[o].quantity
                            /\ (Live(o)' <=> filled'[o] < orders[o].quantity)
      BY <1>2, <1>3, <1>4
    <2>2. \A o \in {b, s} : Live(o)' <=> filled'[o] # orders[o].quantity
      BY <2>1
    <2>3. \A o \in Placed \ {b, s} : Live(o)' <=> Live(o)
      BY <1>2, <1>4
    <2>4. Lives' = {o \in Placed : Live(o)'}
      BY <1>2, <1>3 DEF Lives
    <2>5. QED
      BY <1>3, <1>4, <1>6, <2>2, <2>3, <2>4 DEF Lives
  <1>10. TheMarket!Trade(b, s)
    <2>1. \A o \in {b, s} : filled'[o] <= orders[o].quantity
      BY <1>2, <1>4
    <2>2. filled' = [filled EXCEPT ![b] = @ + (filled'[b] - filled[b]), ![s] = @ + (filled'[b] - filled[b])]
      BY <1>7, <1>8
    <2>3. filled'[b] - filled[b] > 0
      BY <1>1, <1>7
    <2>4. UNCHANGED orders
      BY <1>2
    <2>5. QED
      BY <1>5, <1>6, <1>9, <2>1, <2>2, <2>3, <2>4 DEF TheMarket!Trade, Lives
  <1>11. b \in Lives /\ s \in Lives
    BY <1>6
  <1>12. QED
    BY <1>10, <1>11 DEF TheMarket!Next, Lives

\* What neither fills nor accepts revives no order: it is a retirement.
LEMMA Retires ==
  ASSUME FormerInv, UNCHANGED <<orders, filled>>, \A o \in Placed : Live(o)' => Live(o)
  PROVE  TheMarket!Next
  <1>1. DOMAIN orders = Placed
    BY DEF FormerInv, FormerShape, Placed
  <1>2. Lives' \subseteq Lives
    BY <1>1 DEF Lives
  <1>3. TheMarket!Retire
    BY <1>2 DEF TheMarket!Retire, Lives
  <1>4. QED
    BY <1>3 DEF TheMarket!Next

\* Every step of the former engine is one of the market, or none.
LEMMA FormerMarketStep ==
  FormerInv /\ [FormerNext]_<<formerVars, simVars>> => [TheMarket!Next]_(TheMarket!vars)
  <1> SUFFICES ASSUME FormerInv, [FormerNext]_<<formerVars, simVars>>
               PROVE  TheMarket!Next
    OBVIOUS
  <1>1. CASE UNCHANGED bookVars
    <2>1. UNCHANGED <<orders, filled>> /\ \A o \in Placed : Live(o)' => Live(o)
      BY <1>1 DEF bookVars, Live
    <2>2. QED
      BY <2>1, Retires
  <1>2. ASSUME NEW o \in Placed, CancelOrder(o) PROVE TheMarket!Next
    <2>1. UNCHANGED <<orders, filled>> /\ status' = [status EXCEPT ![o] = "cancelled"]
      BY <1>2 DEF CancelOrder
    <2>2. \A x \in Placed : Live(x)' => Live(x)
      BY <2>1 DEF Live, FormerInv, FormerShape
    <2>3. QED
      BY <2>1, <2>2, Retires
  <1>3. CASE Return
    <2>1. /\ UNCHANGED <<orders, filled>>
          /\ \E x \in {status[taker], "filled", "cancelled"} : status' = [status EXCEPT ![taker] = x]
      BY <1>3 DEF Return
    <2>2. \A x \in Placed : Live(x)' => Live(x)
      BY <2>1 DEF Live, FormerInv, FormerShape
    <2>3. QED
      BY <2>1, <2>2, Retires
  <1>4. QED
    BY <1>1, <1>2, <1>3, FormerSteps, PlaceAccepts, FillTrades DEF formerVars

\* The former engine implements the market: its orders keep their terms, are filled
\* within quantity and limit, and never trade again once they have left.
THEOREM FormerIsAMarket == FormerSpec => FormerImplementsMarket
  <1>1. FormerInit => TheMarket!Init
    <2> SUFFICES ASSUME FormerInit PROVE TheMarket!Init
      OBVIOUS
    <2>1. DOMAIN orders = 1..2
      BY DEF FormerInit
    <2>2. filled = <<0, 0>> /\ status = <<"open", "open">>
      BY DEF FormerInit
    <2>3. filled = [o \in DOMAIN orders |-> 0] /\ Lives = DOMAIN orders
      BY <2>1, <2>2 DEF Lives, Live
    <2>4. QED
      BY <2>3 DEF TheMarket!Init, Lives
  <1>2. QED
    BY <1>1, FormerInvariance, FormerMarketStep, PTL DEF FormerSpec, FormerImplementsMarket, TheMarket!Spec

-----------------------------------------------------------------------------
(* The rate limit of the API.  Of the times g[1], ..., g[n] at which a      *)
(* wallet's orders were let in, some opened a window: they are more than a  *)
(* window apart, no RateMax orders in a row are without one, and the last   *)
(* of them is what the record of the wallet describes.                      *)

Rates == [count : Nat, windowStart : Nat]
InOrder(g, n) == \A i, j \in 1..n : i <= j => g[i] <= g[j]
Apart(g, P) == \A s, u \in P : s < u => g[u] - g[s] > RateWindow
Dense(P, n) == \A i \in 1..n : i + RateMax <= n => \E s \in P : i < s /\ s <= i + RateMax
Windows(g, n, r, P) ==
  /\ P \subseteq 1..n /\ Apart(g, P) /\ Dense(P, n)
  /\ n # 0 => /\ r.count >= 1 /\ r.count <= RateMax /\ r.count <= n
              /\ n - r.count + 1 \in P /\ g[n - r.count + 1] = r.windowStart
              /\ \A s \in P : s <= n - r.count + 1
  /\ n = 0 => r = NoRate
LimitKept(g, n, r, t) ==
  /\ g \in [1..n -> Nat] /\ r \in Rates
  /\ InOrder(g, n) /\ \A i \in 1..n : g[i] <= t
  /\ \E P \in SUBSET (1..n) : Windows(g, n, r, P)
RateInv ==
  /\ time \in Nat /\ rateLimits \in [Wallets -> Rates] /\ granted \in [Wallets -> Seq(Nat)]
  /\ \A w \in Wallets : LimitKept(granted[w], Len(granted[w]), rateLimits[w], time)

\* Two orders twice the limit apart have two windows between them.
LEMMA LimitBounds ==
  ASSUME NEW n \in Nat, NEW g, NEW r, NEW t \in Nat, LimitKept(g, n, r, t),
         NEW i \in 1..n, NEW j \in 1..n, j - i >= 2 * RateMax
  PROVE  g[j] - g[i] > RateWindow
  <1>1. RateMax \in Nat \ {0} /\ RateWindow \in Nat
    BY AmmAssumption
  <1>2. g \in [1..n -> Nat] /\ InOrder(g, n)
    BY DEF LimitKept
  <1>3. PICK P \in SUBSET (1..n) : Windows(g, n, r, P)
    BY DEF LimitKept
  <1>4. Apart(g, P) /\ Dense(P, n)
    BY <1>3 DEF Windows
  <1>5. PICK s \in P : i < s /\ s <= i + RateMax
    <2>1. i + RateMax <= n
      BY <1>1
    <2>2. QED
      BY <1>4, <2>1 DEF Dense
  <1>6. s \in 1..n
    OBVIOUS
  <1>7. PICK u \in P : s < u /\ u <= s + RateMax
    <2>1. s + RateMax <= n
      BY <1>1, <1>5, <1>6
    <2>2. QED
      BY <1>4, <1>6, <2>1 DEF Dense
  <1>8. u \in 1..n /\ u <= j /\ i <= s
    BY <1>1, <1>5, <1>6, <1>7
  <1>9. g[u] - g[s] > RateWindow
    BY <1>4, <1>7 DEF Apart
  <1>10. g[u] <= g[j] /\ g[i] <= g[s]
    BY <1>2, <1>6, <1>8 DEF InOrder
  <1>11. g[i] \in Nat /\ g[j] \in Nat /\ g[s] \in Nat /\ g[u] \in Nat
    BY <1>2, <1>6, <1>8
  <1>12. QED
    BY <1>1, <1>9, <1>10, <1>11

\* An order that is let in opens a window or counts in the one that is open.
LEMMA LimitGrows ==
  ASSUME NEW n \in Nat, NEW g, NEW r, NEW t \in Nat, LimitKept(g, n, r, t),
         NEW h \in Longer(Nat, n, g, t), NEW fresh \in BOOLEAN,
         fresh => r = NoRate \/ t - r.windowStart > RateWindow,
         ~fresh => r # NoRate /\ r.count < RateMax
  PROVE  LimitKept(h, n + 1,
                   IF fresh THEN [count |-> 1, windowStart |-> t]
                   ELSE [count |-> r.count + 1, windowStart |-> r.windowStart], t)
  <1> DEFINE q == IF fresh THEN [count |-> 1, windowStart |-> t]
                  ELSE [count |-> r.count + 1, windowStart |-> r.windowStart]
  <1>1. RateMax \in Nat \ {0} /\ RateWindow \in Nat
    BY AmmAssumption
  <1>2. g \in [1..n -> Nat] /\ InOrder(g, n) /\ \A i \in 1..n : g[i] <= t
    BY DEF LimitKept
  <1>3. r.count \in Nat /\ r.windowStart \in Nat
    BY DEF LimitKept, Rates
  <1>4. PICK P \in SUBSET (1..n) : Windows(g, n, r, P)
    BY DEF LimitKept
  <1>5. Apart(g, P) /\ Dense(P, n)
    BY <1>4 DEF Windows
  <1>6. h \in [1 .. n + 1 -> Nat] /\ h[n + 1] = t /\ \A i \in 1..n : h[i] = g[i]
    BY DEF Longer
  <1>7. \A i \in 1 .. n + 1 : i \in 1..n \/ i = n + 1
    OBVIOUS
  <1>8. InOrder(h, n + 1) /\ \A i \in 1 .. n + 1 : h[i] <= t
    <2>1. \A i \in 1 .. n + 1 : h[i] <= t
      BY <1>2, <1>6, <1>7
    <2>2. ASSUME NEW i \in 1 .. n + 1, NEW j \in 1 .. n + 1, i <= j PROVE h[i] <= h[j]
      <3>1. CASE j = n + 1
        BY <1>6, <2>1, <3>1
      <3>2. CASE j # n + 1
        <4>1. i \in 1..n /\ j \in 1..n
          BY <1>7, <2>2, <3>2
        <4>2. QED
          BY <1>2, <1>6, <2>2, <4>1 DEF InOrder
      <3>3. QED
        BY <3>1, <3>2
    <2>3. QED
      BY <2>1, <2>2 DEF InOrder
  <1>9. Apart(h, P)
    BY <1>5, <1>6 DEF Apart
  <1>10. q \in Rates
    BY <1>3 DEF Rates
  <1>11. CASE fresh
    <2> DEFINE Q == P \cup {n + 1}
    <2>1. q.count = 1 /\ q.windowStart = t
      BY <1>11
    <2>2. \A s \in P : t - g[s] > RateWindow
      <3>1. SUFFICES ASSUME NEW s \in P PROVE t - g[s] > RateWindow
        OBVIOUS
      <3>2. n # 0 /\ s \in 1..n
        BY <3>1
      <3>3. /\ r.count >= 1 /\ r.count <= n /\ s <= n - r.count + 1
            /\ g[n - r.count + 1] = r.windowStart
        BY <1>4, <3>1, <3>2 DEF Windows
      <3>4. r # NoRate
        BY <3>3 DEF NoRate
      <3>5. t - r.windowStart > RateWindow
        BY <1>11, <3>4
      <3>6. n - r.count + 1 \in 1..n
        BY <1>3, <3>3
      <3>7. g[s] <= r.windowStart
        BY <1>2, <3>2, <3>3, <3>6 DEF InOrder
      <3>8. g[s] \in Nat
        BY <1>2, <3>2
      <3>9. QED
        BY <1>1, <1>3, <3>5, <3>7, <3>8
    <2>3. Apart(h, Q)
      <3>1. SUFFICES ASSUME NEW s \in Q, NEW u \in Q, s < u PROVE h[u] - h[s] > RateWindow
        BY DEF Apart
      <3>2. s \in P
        <4>1. s \in 1 .. n + 1 /\ u \in 1 .. n + 1
          OBVIOUS
        <4>2. s # n + 1
          BY <3>1, <4>1
        <4>3. QED
          BY <4>2
      <3>3. CASE u = n + 1
        BY <1>6, <2>2, <3>2, <3>3
      <3>4. CASE u \in P
        BY <1>9, <3>1, <3>2, <3>4 DEF Apart
      <3>5. QED
        BY <3>3, <3>4
    <2>4. Dense(Q, n + 1)
      <3>1. SUFFICES ASSUME NEW i \in 1 .. n + 1, i + RateMax <= n + 1
                     PROVE  \E s \in Q : i < s /\ s <= i + RateMax
        BY DEF Dense
      <3>2. CASE i + RateMax <= n
        <4>1. i \in 1..n
          BY <1>1, <3>2
        <4>2. QED
          BY <1>5, <3>2, <4>1 DEF Dense
      <3>3. CASE i + RateMax = n + 1
        <4>1. i < n + 1 /\ n + 1 \in Q
          BY <1>1, <3>3
        <4>2. QED
          BY <3>3, <4>1
      <3>4. QED
        BY <1>1, <3>1, <3>2, <3>3
    <2>5. Q \in SUBSET (1 .. n + 1)
      OBVIOUS
    <2>6. \A s \in Q : s <= n + 1
      BY <2>5
    <2>7. n + 1 - q.count + 1 = n + 1
      BY <2>1
    <2> HIDE DEF q
    <2>8. Windows(h, n + 1, q, Q)
      BY <1>1, <1>6, <2>1, <2>3, <2>4, <2>5, <2>6, <2>7 DEF Windows
    <2>9. QED
      BY <1>6, <1>8, <1>10, <2>5, <2>8 DEF LimitKept, q
  <1>12. CASE ~fresh
    <2>1. q.count = r.count + 1 /\ q.windowStart = r.windowStart
      BY <1>12
    <2>2. n # 0
      BY <1>4, <1>12 DEF Windows
    <2>3. /\ r.count >= 1 /\ r.count <= n /\ r.count < RateMax
          /\ n - r.count + 1 \in P /\ g[n - r.count + 1] = r.windowStart
          /\ \A s \in P : s <= n - r.count + 1
      BY <1>4, <1>12, <2>2 DEF Windows
    <2>4. n + 1 - q.count + 1 = n - r.count + 1
      BY <1>3, <2>1
    <2>5. Dense(P, n + 1)
      <3>1. SUFFICES ASSUME NEW i \in 1 .. n + 1, i + RateMax <= n + 1
                     PROVE  \E s \in P : i < s /\ s <= i + RateMax
        BY DEF Dense
      <3>2. CASE i + RateMax <= n
        <4>1. i \in 1..n
          BY <1>1, <3>2
        <4>2. QED
          BY <1>5, <3>2, <4>1 DEF Dense
      <3>3. CASE i + RateMax = n + 1
        <4>1. i < n - r.count + 1 /\ n - r.count + 1 <= i + RateMax
          BY <1>1, <1>3, <2>3, <3>3
        <4>2. QED
          BY <2>3, <4>1
      <3>4. QED
        BY <1>1, <3>1, <3>2, <3>3
    <2>6. h[n - r.count + 1] = q.windowStart
      BY <1>6, <2>1, <2>3
    <2>7. P \in SUBSET (1 .. n + 1)
      OBVIOUS
    <2>8. q.count >= 1 /\ q.count <= RateMax /\ q.count <= n + 1
      BY <1>1, <1>3, <2>1, <2>3
    <2> HIDE DEF q
    <2>9. Windows(h, n + 1, q, P)
      <3>1. /\ n + 1 - q.count + 1 \in P /\ h[n + 1 - q.count + 1] = q.windowStart
            /\ \A s \in P : s <= n + 1 - q.count + 1
        BY <2>3, <2>4, <2>6
      <3>2. n + 1 # 0
        OBVIOUS
      <3>3. P \subseteq 1 .. n + 1
        BY <2>7
      <3>4. Apart(h, P) /\ Dense(P, n + 1)
        BY <1>9, <2>5
      <3>5. q.count \in Nat
        BY <1>3, <2>1
      <3>6. QED
        BY <2>8, <3>1, <3>2, <3>3, <3>4, <3>5 DEF Windows
    <2>10. QED
      BY <1>6, <1>8, <1>10, <2>7, <2>9 DEF LimitKept, q
  <1>13. QED
    BY <1>11, <1>12

\* The limit starts with no order let in.
LEMMA LimitStarts == AmmInit => RateInv
  <1> SUFFICES ASSUME AmmInit PROVE RateInv
    OBVIOUS
  <1>1. \A w \in Wallets : granted[w] = <<>> /\ rateLimits[w] = NoRate
    BY DEF AmmInit
  <1>2. NoRate \in Rates
    BY DEF NoRate, Rates
  <1>3. Windows(<<>>, 0, NoRate, {})
    BY AmmAssumption DEF Windows, Apart, Dense
  <1>4. LimitKept(<<>>, 0, NoRate, 0)
    <2>1. <<>> \in [1..0 -> Nat] /\ InOrder(<<>>, 0)
      BY DEF InOrder
    <2>2. {} \in SUBSET (1..0)
      OBVIOUS
    <2>3. QED
      BY <1>2, <1>3, <2>1, <2>2 DEF LimitKept
  <1>5. \A w \in Wallets : Len(granted[w]) = 0
    BY <1>1
  <1>6. time = 0
    BY DEF AmmInit
  <1>7. rateLimits \in [Wallets -> Rates] /\ granted \in [Wallets -> Seq(Nat)]
    BY <1>2 DEF AmmInit
  <1>8. QED
    BY <1>1, <1>4, <1>5, <1>6, <1>7 DEF RateInv

\* An order of a wallet keeps the limit of every wallet.
LEMMA OrderKeepsLimit ==
  ASSUME RateInv, NEW w \in Wallets, NEW o \in Orders, HybridOrder(w, o)
  PROVE  RateInv'
  <1> DEFINE n == Len(granted[w])
             fresh == rateLimits[w] = NoRate \/ time - rateLimits[w].windowStart > RateWindow
  <1>1. /\ Allowed(w) /\ time' = time
        /\ rateLimits' = [rateLimits EXCEPT ![w] = NextRate(w)]
        /\ granted' = [granted EXCEPT ![w] = Append(@, time)]
    BY DEF HybridOrder
  <1>2. /\ time \in Nat /\ rateLimits \in [Wallets -> Rates] /\ granted \in [Wallets -> Seq(Nat)]
        /\ \A v \in Wallets : LimitKept(granted[v], Len(granted[v]), rateLimits[v], time)
    BY DEF RateInv
  <1>3. granted[w] \in Seq(Nat) /\ n \in Nat
    BY <1>2
  <1>4. granted[w] \in [1..n -> Nat]
    BY <1>3
  <1>5. Append(granted[w], time) \in Longer(Nat, n, granted[w], time)
    <2> HIDE DEF n
    <2>1. QED
      BY <1>2, <1>3, <1>4, AppendFn
  <1>6. fresh \in BOOLEAN
    OBVIOUS
  <1>7. NextRate(w) = IF fresh THEN [count |-> 1, windowStart |-> time]
                      ELSE [count |-> rateLimits[w].count + 1, windowStart |-> rateLimits[w].windowStart]
    BY DEF NextRate
  <1>8. ~fresh => rateLimits[w] # NoRate /\ rateLimits[w].count < RateMax
    BY <1>1 DEF Allowed
  <1>9. LimitKept(granted[w], n, rateLimits[w], time)
    BY <1>2
  <1>10. fresh => rateLimits[w] = NoRate \/ time - rateLimits[w].windowStart > RateWindow
    OBVIOUS
  <1>11. LimitKept(Append(granted[w], time), n + 1, NextRate(w), time)
    <2> HIDE DEF n, fresh
    <2>1. QED
      BY <1>2, <1>3, <1>5, <1>6, <1>7, <1>8, <1>9, <1>10, LimitGrows
  <1>12. granted'[w] = Append(granted[w], time) /\ rateLimits'[w] = NextRate(w)
    BY <1>1, <1>2
  <1>13. Len(granted'[w]) = n + 1 /\ granted'[w] \in Seq(Nat)
    BY <1>2, <1>3, <1>12
  <1>14. NextRate(w) \in Rates
    BY <1>11 DEF LimitKept
  <1>15. LimitKept(granted'[w], Len(granted'[w]), rateLimits'[w], time')
    BY <1>1, <1>11, <1>12, <1>13
  <1>16. \A v \in Wallets \ {w} : granted'[v] = granted[v] /\ rateLimits'[v] = rateLimits[v]
    BY <1>1, <1>2
  <1>17. \A v \in Wallets : LimitKept(granted'[v], Len(granted'[v]), rateLimits'[v], time')
    <2>1. SUFFICES ASSUME NEW v \in Wallets \ {w}
                   PROVE  LimitKept(granted'[v], Len(granted'[v]), rateLimits'[v], time')
      BY <1>15
    <2>2. LimitKept(granted[v], Len(granted[v]), rateLimits[v], time)
      BY <1>2
    <2>3. QED
      BY <1>1, <1>16, <2>2
  <1>18. rateLimits' \in [Wallets -> Rates]
    BY <1>1, <1>2, <1>14
  <1>19. granted' \in [Wallets -> Seq(Nat)]
    BY <1>1, <1>2, <1>12, <1>13
  <1>20. time' \in Nat
    BY <1>1, <1>2
  <1>21. QED
    BY <1>17, <1>18, <1>19, <1>20 DEF RateInv

\* Time that passes keeps the limit.
LEMMA TickKeepsLimit == RateInv /\ Tick => RateInv'
  <1> SUFFICES ASSUME RateInv, Tick PROVE RateInv'
    OBVIOUS
  <1>1. time \in Nat /\ time' = time + 1 /\ rateLimits' = rateLimits /\ granted' = granted
    BY DEF RateInv, Tick
  <1>2. \A w \in Wallets : LimitKept(granted[w], Len(granted[w]), rateLimits[w], time')
    <2>1. SUFFICES ASSUME NEW w \in Wallets
                   PROVE  LimitKept(granted[w], Len(granted[w]), rateLimits[w], time')
      OBVIOUS
    <2>2. LimitKept(granted[w], Len(granted[w]), rateLimits[w], time)
      BY DEF RateInv
    <2>3. \A i \in 1..Len(granted[w]) : granted[w][i] <= time'
      BY <1>1, <2>2 DEF LimitKept
    <2>4. QED
      BY <2>2, <2>3 DEF LimitKept
  <1>3. QED
    BY <1>1, <1>2 DEF RateInv

\* Nothing else touches the limit, so it holds in every state.
LEMMA LimitStep == RateInv /\ [PanelsNext]_panelVars => RateInv'
  <1>1. ASSUME RateInv, UNCHANGED rateVars PROVE RateInv'
    BY <1>1 DEF RateInv, rateVars
  <1>2. \A a, t : Swap(a, t) => UNCHANGED rateVars
    BY DEF Swap
  <1>3. \A w, a, b : AddLiquidity(w, a, b) => UNCHANGED rateVars
    BY DEF AddLiquidity
  <1>4. \A w, x : RemoveLiquidity(w, x) => UNCHANGED rateVars
    BY DEF RemoveLiquidity
  <1>5. ASSUME NEW p \in Panels, Serve(p) \/ Fail(p) \/ Answer(p) PROVE UNCHANGED rateVars
    BY <1>2, <1>3, <1>4, <1>5 DEF Serve, Handles, Fail, Answer
  <1>6. \A p, args : Ask(p, args) => UNCHANGED rateVars
    BY DEF Ask
  <1>7. ASSUME RateInv, Others PROVE RateInv'
    BY <1>1, <1>2, <1>3, <1>4, <1>7, OrderKeepsLimit, TickKeepsLimit DEF Others
  <1>8. ASSUME AskBalance \/ SetWallet \/ Connect \/ StreamBreaks \/ Streamed
        PROVE  UNCHANGED rateVars
    BY <1>6, <1>8 DEF AskBalance, SetWallet, Connect, StreamBreaks, Streamed
  <1>9. ASSUME \/ \E p \in Panels, a \in Typed, t \in Tokens : AskSwap(p, a, t)
               \/ \E a \in Typed : AskAdd(a)
               \/ \E d \in Deposits : AskCalculator(d)
               \/ lpPosition # None /\ \E n \in {1, 2} : AskRemove(lpPosition // Frac(n, 1))
        PROVE  UNCHANGED rateVars
    BY <1>6, <1>9 DEF AskSwap, AskAdd, AskCalculator, AskRemove
  <1>10. UNCHANGED panelVars => UNCHANGED rateVars
    BY DEF panelVars
  <1>11. QED
    BY <1>1, <1>5, <1>7, <1>8, <1>9, <1>10 DEF PanelsNext

\* However the windows fall, no time of one window's length sees more than two
\* windows' worth of orders of a wallet (checkRateLimit).
THEOREM LimitHolds == PanelsSpec => []RateBound
  <1>1. PanelsInit => RateInv
    BY LimitStarts DEF PanelsInit
  <1>2. RateInv => RateBound
    <2> SUFFICES ASSUME RateInv, NEW w \in Wallets, NEW i \in DOMAIN granted[w],
                        NEW j \in DOMAIN granted[w], j - i >= 2 * RateMax
                 PROVE  granted[w][j] - granted[w][i] > RateWindow
      BY DEF RateBound
    <2>1. granted[w] \in Seq(Nat) /\ time \in Nat
      BY DEF RateInv
    <2>2. DOMAIN granted[w] = 1..Len(granted[w]) /\ Len(granted[w]) \in Nat
      BY <2>1
    <2>3. LimitKept(granted[w], Len(granted[w]), rateLimits[w], time)
      BY DEF RateInv
    <2>4. QED
      BY <2>1, <2>2, <2>3, LimitBounds
  <1>3. QED
    BY <1>1, <1>2, LimitStep, PTL DEF PanelsSpec

-----------------------------------------------------------------------------
(* The candles.  T is the history of the trades they were told of and n how *)
(* many of these have been taken in.                                        *)

ToldTrade == [time : Nat, price : Int, quantity : Nat]
CandleType == [time : Nat, open : Int, high : Int, low : Int, close : Int, volume : Int]

At(T, n, t) == {j \in 1..n : T[j].time = t}
Begins(t) == IF t = 0 THEN {InitialPrice} ELSE {}
PricesAt(T, n, t) == Begins(t) \cup {T[j].price : j \in At(T, n, t)}
MinutesOf(T, n) == {0} \cup {T[i].time : i \in 1..n}
VolumeAt(T, n, t) == SumFunctionOnSet([j \in At(T, n, t) |-> T[j].quantity], At(T, n, t))
Summarises(T, n, c) ==
  /\ c \in CandleType /\ c.time \in MinutesOf(T, n) /\ IsFiniteSet(PricesAt(T, n, c.time))
  /\ c.high = Max(PricesAt(T, n, c.time)) /\ c.low = Min(PricesAt(T, n, c.time))
  /\ c.volume = VolumeAt(T, n, c.time)
  /\ c.open = IF Begins(c.time) # {} THEN InitialPrice ELSE T[Min(At(T, n, c.time))].price
  /\ c.close = IF At(T, n, c.time) # {} THEN T[Max(At(T, n, c.time))].price ELSE InitialPrice
Kept(T, n) == Min({Cardinality(MinutesOf(T, n)), MaxCandles + 1})
Summed(T, n, m, closed, current) ==
  /\ closed \in Seq(CandleType) /\ Len(closed) + 1 = Kept(T, n)
  /\ \A i \in 1..Len(closed) : Summarises(T, n, closed[i]) /\ closed[i].time < current.time
  /\ \A i, j \in 1..Len(closed) : i < j => closed[i].time < closed[j].time
  /\ Summarises(T, n, current) /\ current.time <= m
  /\ \A t \in MinutesOf(T, n) : t <= current.time

\* One trade more is one of its minute.
TakenIn(T, n, t) ==
  /\ MinutesOf(T, n + 1) = MinutesOf(T, n) \cup {T[n + 1].time}
  /\ At(T, n + 1, t) = IF T[n + 1].time = t THEN At(T, n, t) \cup {n + 1} ELSE At(T, n, t)
  /\ PricesAt(T, n + 1, t) = IF T[n + 1].time = t THEN PricesAt(T, n, t) \cup {T[n + 1].price}
                             ELSE PricesAt(T, n, t)
  /\ At(T, n, t) \subseteq 1..n /\ n + 1 \notin At(T, n, t) /\ IsFiniteSet(At(T, n, t))

\* The trades of a minute, with one more trade.
LEMMA AtGrows == ASSUME NEW n \in Nat, NEW T, NEW t PROVE TakenIn(T, n, t)
  <1>1. 1 .. n + 1 = (1..n) \cup {n + 1} /\ n + 1 \notin 1..n
    OBVIOUS
  <1>2. At(T, n + 1, t) = IF T[n + 1].time = t THEN At(T, n, t) \cup {n + 1} ELSE At(T, n, t)
    BY <1>1 DEF At
  <1>3. MinutesOf(T, n + 1) = MinutesOf(T, n) \cup {T[n + 1].time}
    BY <1>1 DEF MinutesOf
  <1>4. PricesAt(T, n + 1, t) = IF T[n + 1].time = t THEN PricesAt(T, n, t) \cup {T[n + 1].price}
                                ELSE PricesAt(T, n, t)
    BY <1>2 DEF PricesAt
  <1>5. At(T, n, t) \subseteq 1..n /\ n + 1 \notin At(T, n, t)
    BY DEF At
  <1>6. IsFiniteSet(At(T, n, t))
    <2>1. IsFiniteSet(1..n)
      BY FS_Interval
    <2>2. At(T, n, t) \in SUBSET (1..n)
      BY <1>5
    <2>3. QED
      BY <2>1, <2>2, FS_Subset
  <1>7. QED
    BY <1>2, <1>3, <1>4, <1>5, <1>6 DEF TakenIn

\* A candle whose minute is over stays as it is.
LEMMA OldCandle ==
  ASSUME NEW n \in Nat, NEW T, NEW c, Summarises(T, n, c), T[n + 1].time # c.time
  PROVE  Summarises(T, n + 1, c)
  <1>1. /\ MinutesOf(T, n + 1) = MinutesOf(T, n) \cup {T[n + 1].time}
        /\ At(T, n + 1, c.time) = At(T, n, c.time) /\ PricesAt(T, n + 1, c.time) = PricesAt(T, n, c.time)
    <2>1. TakenIn(T, n, c.time)
      BY AtGrows
    <2>2. QED
      BY <2>1 DEF TakenIn
  <1>2. VolumeAt(T, n + 1, c.time) = VolumeAt(T, n, c.time)
    BY <1>1 DEF VolumeAt
  <1>3. QED
    BY <1>1, <1>2 DEF Summarises

\* The volume of a minute grows with a trade.
LEMMA VolumeGrows ==
  ASSUME NEW n \in Nat, NEW T, \A i \in 1 .. n + 1 : T[i] \in ToldTrade, NEW t, T[n + 1].time = t
  PROVE  /\ VolumeAt(T, n + 1, t) = VolumeAt(T, n, t) + T[n + 1].quantity
         /\ VolumeAt(T, n, t) \in Int
         /\ At(T, n, t) = {} => VolumeAt(T, n, t) = 0
  <1> DEFINE A == At(T, n, t)
             B == At(T, n + 1, t)
             v == [j \in A |-> T[j].quantity]
             w == [j \in B |-> T[j].quantity]
  <1>1. B = A \cup {n + 1} /\ n + 1 \notin A /\ IsFiniteSet(A) /\ A \subseteq 1..n
    <2>1. TakenIn(T, n, t)
      BY AtGrows
    <2>2. QED
      BY <2>1 DEF TakenIn
  <1>2. \A j \in B : T[j].quantity \in Int
    <2>1. \A j \in B : j \in 1 .. n + 1
      BY <1>1
    <2>2. QED
      BY <2>1 DEF ToldTrade
  <1>3. IntOn(w, B) /\ IntOn(v, A) /\ IntOn(w, A)
    BY <1>1, <1>2 DEF IntOn
  <1>4. SameOn(w, v, A)
    BY <1>1 DEF SameOn
  <1>5. w[n + 1] = T[n + 1].quantity /\ w[n + 1] \in Int
    BY <1>1, <1>2
  <1>6. VolumeAt(T, n + 1, t) = SumFunctionOnSet(w, B) /\ VolumeAt(T, n, t) = SumFunctionOnSet(v, A)
    BY DEF VolumeAt
  <1> HIDE DEF A, B, v, w
  <1>7. SumFunctionOnSet(w, B) = w[n + 1] + SumFunctionOnSet(w, A)
    <2>1. IntOn(w, A \cup {n + 1})
      BY <1>1, <1>3
    <2>2. SumFunctionOnSet(w, A \cup {n + 1}) = w[n + 1] + SumFunctionOnSet(w, A)
      BY <1>1, <2>1, SumAdd
    <2>3. QED
      BY <1>1, <2>2
  <1>8. SumFunctionOnSet(w, A) = SumFunctionOnSet(v, A)
    BY <1>1, <1>4, SumSame
  <1>9. SumFunctionOnSet(v, A) \in Int
    BY <1>1, <1>3, SumInt
  <1>10. A = {} => SumFunctionOnSet(v, A) = 0
    BY SumEmpty
  <1>11. QED
    BY <1>5, <1>6, <1>7, <1>8, <1>9, <1>10 DEF A

\* The prices of a minute are integers.
LEMMA PricesAreInt ==
  ASSUME NEW n \in Nat, NEW T, \A i \in 1..n : T[i] \in ToldTrade, NEW t
  PROVE  PricesAt(T, n, t) \subseteq Int
  <1>1. \A j \in At(T, n, t) : T[j].price \in Int
    BY DEF At, ToldTrade
  <1>2. Begins(t) \subseteq Int
    BY SimulationAssumption DEF Begins
  <1>3. QED
    BY <1>1, <1>2 DEF PricesAt

\* The first trade of a later minute is a candle of its own.
LEMMA NewCandle ==
  ASSUME NEW n \in Nat, NEW T, \A i \in 1 .. n + 1 : T[i] \in ToldTrade,
         T[n + 1].time \notin MinutesOf(T, n)
  PROVE  Summarises(T, n + 1, Candle(T[n + 1].time, T[n + 1].price, T[n + 1].quantity))
  <1> DEFINE t == T[n + 1].time
             p == T[n + 1].price
             q == T[n + 1].quantity
             c == Candle(t, p, q)
  <1>1. t \in Nat /\ p \in Int /\ q \in Nat
    <2>1. n + 1 \in 1 .. n + 1
      OBVIOUS
    <2>2. QED
      BY <2>1 DEF ToldTrade
  <1>2. TakenIn(T, n, t)
    BY AtGrows
  <1>3. At(T, n, t) = {} /\ t # 0
    BY DEF MinutesOf, At
  <1>4. Begins(t) = {} /\ PricesAt(T, n, t) = {}
    BY <1>3 DEF Begins, PricesAt
  <1>5. At(T, n + 1, t) = {n + 1} /\ PricesAt(T, n + 1, t) = {p} /\ t \in MinutesOf(T, n + 1)
    BY <1>2, <1>3, <1>4 DEF TakenIn
  <1>6. IsFiniteSet({p}) /\ Max({p}) = p /\ Min({p}) = p
    <2>1. IsFiniteSet({}) /\ {} \subseteq Int /\ {} \cup {p} = {p}
      BY FS_EmptySet
    <2>2. IsFiniteSet({} \cup {p}) /\ Max({} \cup {p}) = p /\ Min({} \cup {p}) = p
      BY <1>1, <2>1, ExtremesGrow
    <2>3. QED
      BY <2>1, <2>2
  <1>7. Max({n + 1}) = n + 1 /\ Min({n + 1}) = n + 1
    <2>1. n + 1 \in Int /\ IsFiniteSet({}) /\ {} \subseteq Int /\ {} \cup {n + 1} = {n + 1}
      BY FS_EmptySet
    <2>2. Max({} \cup {n + 1}) = n + 1 /\ Min({} \cup {n + 1}) = n + 1
      BY <2>1, ExtremesGrow
    <2>3. QED
      BY <2>1, <2>2
  <1>8. VolumeAt(T, n + 1, t) = q
    <2>1. VolumeAt(T, n + 1, t) = VolumeAt(T, n, t) + q /\ VolumeAt(T, n, t) = 0
      BY <1>3, VolumeGrows
    <2>2. QED
      BY <1>1, <2>1
  <1>9. /\ c.time = t /\ c.high = p /\ c.low = p /\ c.open = p /\ c.close = p /\ c.volume = q
        /\ c \in CandleType
    BY <1>1 DEF Candle, CandleType
  <1>10. T[Min(At(T, n + 1, t))].price = p /\ T[Max(At(T, n + 1, t))].price = p
    BY <1>5, <1>7
  <1> HIDE DEF t, p, q, c
  <1>11. Summarises(T, n + 1, c)
    BY <1>4, <1>5, <1>6, <1>8, <1>9, <1>10 DEF Summarises
  <1>12. QED
    BY <1>11 DEF c, t, p, q

\* What a trade of its minute makes of a candle.
LEMMA WidenedIs ==
  ASSUME NEW c, NEW x
  PROVE  Widened(c, x) = [time |-> c.time, open |-> c.open, high |-> Max({c.high, x.price}),
                          low |-> Min({c.low, x.price}), close |-> x.price, volume |-> c.volume + x.quantity]
  BY DEF Widened

\* A trade of its minute widens a candle.
LEMMA WidenedCandle ==
  ASSUME NEW n \in Nat, NEW T, \A i \in 1 .. n + 1 : T[i] \in ToldTrade,
         NEW c, Summarises(T, n, c), T[n + 1].time = c.time,
         NEW x, x.price = T[n + 1].price, x.quantity = T[n + 1].quantity
  PROVE  Summarises(T, n + 1, Widened(c, x))
  <1> DEFINE t == c.time
             p == T[n + 1].price
             q == T[n + 1].quantity
             d == Widened(c, x)
             A == At(T, n, t)
             P == PricesAt(T, n, t)
  <1>1. t \in Nat /\ p \in Int /\ q \in Nat /\ T[n + 1].time = t
    <2>1. n + 1 \in 1 .. n + 1
      OBVIOUS
    <2>2. QED
      BY <2>1 DEF ToldTrade
  <1>2. TakenIn(T, n, t)
    BY AtGrows
  <1>3. /\ At(T, n + 1, t) = A \cup {n + 1} /\ PricesAt(T, n + 1, t) = P \cup {p}
        /\ t \in MinutesOf(T, n + 1) /\ A \subseteq 1..n /\ IsFiniteSet(A)
    BY <1>1, <1>2 DEF TakenIn
  <1>4. /\ c \in CandleType /\ t \in MinutesOf(T, n) /\ IsFiniteSet(P)
        /\ c.high = Max(P) /\ c.low = Min(P) /\ c.volume = VolumeAt(T, n, t)
        /\ c.open = IF Begins(t) # {} THEN InitialPrice ELSE T[Min(A)].price
    BY DEF Summarises
  <1>5. P \subseteq Int
    BY PricesAreInt
  <1>6. A # {} \/ Begins(t) # {}
    BY <1>4 DEF MinutesOf, At, Begins
  <1>7. P # {}
    BY <1>6 DEF PricesAt
  <1>8. /\ IsFiniteSet(P \cup {p}) /\ Max(P \cup {p}) = Max({Max(P), p})
        /\ Min(P \cup {p}) = Min({Min(P), p})
    <2> HIDE DEF P, p
    <2>1. QED
      BY <1>1, <1>4, <1>5, <1>7, ExtremesGrow
  <1>9. Max(A \cup {n + 1}) = n + 1 /\ (A # {} => Min(A \cup {n + 1}) = Min(A))
    <2>1. A \subseteq Int /\ n + 1 \in Int /\ \A y \in A : y < n + 1
      BY <1>3
    <2> HIDE DEF A
    <2>2. QED
      BY <1>3, <2>1, ExtremesGrow
  <1>10. VolumeAt(T, n + 1, t) = c.volume + q
    BY <1>1, <1>4, VolumeGrows
  <1>11. /\ d.time = t /\ d.open = c.open /\ d.high = Max({c.high, p}) /\ d.low = Min({c.low, p})
         /\ d.close = p /\ d.volume = c.volume + q
         /\ d = [time |-> t, open |-> c.open, high |-> Max({c.high, p}), low |-> Min({c.low, p}),
                 close |-> p, volume |-> c.volume + q]
    <2> DEFINE y == x.price
               z == x.quantity
    <2>1. d = [time |-> t, open |-> c.open, high |-> Max({c.high, y}), low |-> Min({c.low, y}),
               close |-> y, volume |-> c.volume + z]
      BY WidenedIs
    <2>2. y = p /\ z = q
      OBVIOUS
    <2> HIDE DEF y, z, p, q, d, t
    <2>3. QED
      BY <2>1, <2>2
  <1>12. d \in CandleType
    <2>1. c.high \in Int /\ c.low \in Int /\ c.open \in Int /\ c.volume \in Int
      BY <1>4 DEF CandleType
    <2>2. Max({c.high, p}) \in Int /\ Min({c.low, p}) \in Int
      <3> DEFINE u == Max(P \cup {p})
                 v == Min(P \cup {p})
      <3>1. u \in Int /\ v \in Int
        <4> DEFINE Q == P \cup {p}
        <4>1. IsFiniteSet(Q) /\ Q \subseteq Int /\ Q # {}
          BY <1>1, <1>5, <1>8
        <4> HIDE DEF Q
        <4>2. Max(Q) \in Int /\ Min(Q) \in Int
          BY <4>1, MaxMin
        <4>3. QED
          BY <4>2 DEF Q
      <3>2. QED
        BY <1>4, <1>8, <3>1
    <2>3. QED
      BY <1>1, <1>11, <2>1, <2>2 DEF CandleType
  <1>13. d.high = Max(P \cup {p}) /\ d.low = Min(P \cup {p})
    BY <1>4, <1>8, <1>11
  <1>14. d.open = IF Begins(t) # {} THEN InitialPrice ELSE T[Min(A \cup {n + 1})].price
    BY <1>4, <1>6, <1>9, <1>11
  <1>15. d.close = T[Max(A \cup {n + 1})].price
    BY <1>9, <1>11
  <1> HIDE DEF t, p, q, d, A, P
  <1>16. Summarises(T, n + 1, d)
    BY <1>3, <1>8, <1>10, <1>11, <1>12, <1>13, <1>14, <1>15 DEF Summarises
  <1>17. QED
    BY <1>16 DEF d

\* What stays of the closed candles when one is closed.
LEMMA NewestIs ==
  ASSUME NEW S, NEW s \in Seq(S), NEW limit \in Nat \ {0}
  PROVE  /\ Newest(s, limit) \in Seq(S)
         /\ Len(Newest(s, limit)) = IF Len(s) > limit THEN Len(s) - 1 ELSE Len(s)
         /\ \E d \in {0, 1} : \A i \in 1..Len(Newest(s, limit)) :
              Newest(s, limit)[i] = s[i + d] /\ i + d \in 1..Len(s)
  <1>1. Len(s) \in Nat
    OBVIOUS
  <1>2. CASE Len(s) > limit
    <2>1. Newest(s, limit) = Tail(s) /\ s # <<>>
      BY <1>1, <1>2 DEF Newest
    <2>2. /\ Tail(s) \in Seq(S) /\ Len(Tail(s)) = Len(s) - 1
          /\ \A i \in 1..Len(Tail(s)) : Tail(s)[i] = s[i + 1] /\ i + 1 \in 1..Len(s)
      BY <2>1
    <2>3. QED
      BY <1>2, <2>1, <2>2
  <1>3. CASE ~(Len(s) > limit)
    <2>1. Newest(s, limit) = s
      BY <1>3 DEF Newest
    <2>2. \A i \in 1..Len(s) : s[i] = s[i + 0] /\ i + 0 \in 1..Len(s)
      OBVIOUS
    <2>3. QED
      BY <1>3, <2>1, <2>2
  <1>4. QED
    BY <1>2, <1>3

\* How many candles there are: one for every minute with trades, up to a limit.
LEMMA KeptGrows ==
  ASSUME NEW n \in Nat, NEW T, \A i \in 1 .. n + 1 : T[i] \in ToldTrade
  PROVE  /\ Kept(T, n) \in Nat /\ Kept(T, n) <= MaxCandles + 1
         /\ Kept(T, n + 1) = IF T[n + 1].time \in MinutesOf(T, n) THEN Kept(T, n)
                             ELSE IF Kept(T, n) <= MaxCandles THEN Kept(T, n) + 1 ELSE Kept(T, n)
  <1> DEFINE M == MinutesOf(T, n)
             t == T[n + 1].time
             a == Cardinality(M)
             b == Cardinality(M \cup {t})
             k == MaxCandles + 1
  <1>1. IsFiniteSet(M)
    <2> DEFINE f == [i \in 1..n |-> T[i].time]
               R == {T[i].time : i \in 1..n}
    <2>1. f \in Surjection(1..n, R)
      BY DEF Surjection
    <2>2. IsFiniteSet(1..n)
      BY FS_Interval
    <2>3. IsFiniteSet(R)
      <3> DEFINE D == 1..n
      <3>1. IsFiniteSet(D) /\ f \in Surjection(D, R)
        BY <2>1, <2>2
      <3> HIDE DEF f, R, D
      <3>2. QED
        BY <3>1, FS_Surjection
    <2>4. M = R \cup {0}
      BY DEF MinutesOf
    <2> HIDE DEF M, R
    <2>5. QED
      BY <2>3, <2>4, FS_AddElement
  <1>2. MinutesOf(T, n + 1) = M \cup {t}
    <2>1. TakenIn(T, n, t)
      BY AtGrows
    <2>2. QED
      BY <2>1 DEF TakenIn
  <1> HIDE DEF M
  <1>3. a \in Nat /\ b \in Nat /\ b = IF t \in M THEN a ELSE a + 1
    <2> HIDE DEF t
    <2>1. QED
      BY <1>1, FS_AddElement, FS_CardinalityType
  <1>4. k \in Nat
    BY SimulationAssumption
  <1> HIDE DEF a, b
  <1>5. Kept(T, n) = Min({a, k}) /\ Kept(T, n + 1) = Min({b, k})
    BY <1>2 DEF Kept, a, b, M
  <1> HIDE DEF k
  <1>6. Min({a, k}) = (IF a <= k THEN a ELSE k) /\ Min({b, k}) = IF b <= k THEN b ELSE k
    BY <1>3, <1>4, MinOfTwo
  <1> HIDE DEF t
  <1>7. k = MaxCandles + 1 /\ MaxCandles \in Nat
    BY SimulationAssumption DEF k
  <1>8. QED
    BY <1>3, <1>4, <1>5, <1>6, <1>7 DEF M, t

\* One trade of this minute is taken in as it should be (_updateCandle).
LEMMA CandleStep ==
  ASSUME NEW n \in Nat, NEW T, \A i \in 1 .. n + 1 : T[i] \in ToldTrade, minute \in Nat,
         NEW sim, Summed(T, n, minute, sim.closed, sim.current),
         NEW x, T[n + 1].time = minute, x.price = T[n + 1].price, x.quantity = T[n + 1].quantity
  PROVE  Summed(T, n + 1, minute, Updated(sim, x).closed, Updated(sim, x).current)
  <1> DEFINE closed == sim.closed
             current == sim.current
             k == Len(closed)
  <1>1. /\ closed \in Seq(CandleType) /\ k + 1 = Kept(T, n)
        /\ \A i \in 1..k : Summarises(T, n, closed[i]) /\ closed[i].time < current.time
        /\ \A i, j \in 1..k : i < j => closed[i].time < closed[j].time
        /\ Summarises(T, n, current) /\ current.time <= minute
        /\ \A t \in MinutesOf(T, n) : t <= current.time
    BY DEF Summed
  <1>2. k \in Nat /\ \A i \in 1..k : closed[i] \in CandleType
    BY <1>1
  <1>3. current \in CandleType /\ current.time \in Nat /\ current.time \in MinutesOf(T, n)
    BY <1>1 DEF Summarises, CandleType
  <1>4. \A i \in 1..k : closed[i].time \in Nat
    BY <1>2 DEF CandleType
  <1>5. MinutesOf(T, n + 1) = MinutesOf(T, n) \cup {minute}
    <2>1. TakenIn(T, n, minute)
      BY AtGrows
    <2>2. QED
      BY <2>1 DEF TakenIn
  <1>6. /\ Kept(T, n) \in Nat /\ Kept(T, n) <= MaxCandles + 1
        /\ Kept(T, n + 1) = IF minute \in MinutesOf(T, n) THEN Kept(T, n)
                            ELSE IF Kept(T, n) <= MaxCandles THEN Kept(T, n) + 1 ELSE Kept(T, n)
    BY KeptGrows
  <1>7. MaxCandles \in Nat \ {0}
    BY SimulationAssumption
  <1>8. \A c : Summarises(T, n, c) /\ c.time # minute => Summarises(T, n + 1, c)
    <2>1. SUFFICES ASSUME NEW c, Summarises(T, n, c), c.time # minute PROVE Summarises(T, n + 1, c)
      OBVIOUS
    <2>2. T[n + 1].time # c.time
      BY <2>1
    <2>3. QED
      BY <2>1, <2>2, OldCandle
  <1>9. CASE minute > current.time
    <2> DEFINE s == Append(closed, current)
               r == Newest(s, MaxCandles)
               d == Candle(minute, x.price, x.quantity)
    <2>1. Updated(sim, x).closed = r /\ Updated(sim, x).current = d
      BY <1>9 DEF Updated
    <2>2. minute \notin MinutesOf(T, n)
      BY <1>1, <1>3, <1>9
    <2>3. Summarises(T, n + 1, d) /\ d.time = minute
      <3>1. Summarises(T, n + 1, Candle(T[n + 1].time, T[n + 1].price, T[n + 1].quantity))
        BY <2>2, NewCandle
      <3>2. d.time = minute
        BY DEF Candle
      <3>3. QED
        BY <3>1, <3>2
    <2>4. s \in Seq(CandleType) /\ Len(s) = k + 1
      BY <1>1, <1>2, <1>3
    <2>5. \A i \in 1 .. k + 1 : s[i] = IF i <= k THEN closed[i] ELSE current
      BY <1>1, <1>2, <1>3
    <2>6. \A i \in 1 .. k + 1 : Summarises(T, n, s[i]) /\ s[i].time < minute
      <3>1. \A i \in 1 .. k + 1 : Summarises(T, n, s[i]) /\ s[i].time \in Nat /\ s[i].time <= current.time
        <4>1. SUFFICES ASSUME NEW i \in 1 .. k + 1
                       PROVE  Summarises(T, n, s[i]) /\ s[i].time \in Nat /\ s[i].time <= current.time
          OBVIOUS
        <4>2. CASE i <= k
          BY <1>1, <1>2, <1>3, <1>4, <2>5, <4>2
        <4>3. CASE ~(i <= k)
          BY <1>1, <1>2, <1>3, <2>5, <4>3
        <4>4. QED
          BY <4>2, <4>3
      <3>2. QED
        BY <1>3, <1>9, <3>1
    <2>7. \A i, j \in 1 .. k + 1 : i < j => s[i].time < s[j].time
      <3>1. SUFFICES ASSUME NEW i \in 1 .. k + 1, NEW j \in 1 .. k + 1, i < j PROVE s[i].time < s[j].time
        OBVIOUS
      <3>2. i \in 1..k /\ s[i] = closed[i]
        BY <1>2, <2>5, <3>1
      <3>3. CASE j <= k
        <4>1. j \in 1..k /\ s[j] = closed[j]
          BY <1>2, <2>5, <3>3
        <4>2. QED
          BY <1>1, <3>1, <3>2, <4>1
      <3>4. CASE ~(j <= k)
        <4>1. s[j] = current
          BY <2>5, <3>4
        <4>2. QED
          BY <1>1, <3>2, <4>1
      <3>5. QED
        BY <3>3, <3>4
    <2> HIDE DEF s, d
    <2>8. /\ r \in Seq(CandleType) /\ Len(r) = IF Len(s) > MaxCandles THEN Len(s) - 1 ELSE Len(s)
          /\ \E e \in {0, 1} : \A i \in 1..Len(r) : r[i] = s[i + e] /\ i + e \in 1..Len(s)
      BY <1>7, <2>4, NewestIs
    <2> HIDE DEF r
    <2>9. PICK e \in {0, 1} : \A i \in 1..Len(r) : r[i] = s[i + e] /\ i + e \in 1 .. k + 1
      BY <2>4, <2>8
    <2>10. Len(r) \in Nat /\ Len(r) + 1 = Kept(T, n + 1)
      BY <1>1, <1>2, <1>6, <1>7, <2>2, <2>4, <2>8
    <2>11. \A i \in 1..Len(r) : Summarises(T, n + 1, r[i]) /\ r[i].time < d.time
      <3>1. SUFFICES ASSUME NEW i \in 1..Len(r) PROVE Summarises(T, n + 1, r[i]) /\ r[i].time < d.time
        OBVIOUS
      <3>2. Summarises(T, n, r[i]) /\ r[i].time < minute
        BY <2>6, <2>9
      <3>3. r[i].time # minute
        BY <3>2
      <3>4. QED
        BY <1>8, <2>3, <3>2, <3>3
    <2>12. \A i, j \in 1..Len(r) : i < j => r[i].time < r[j].time
      <3>1. SUFFICES ASSUME NEW i \in 1..Len(r), NEW j \in 1..Len(r), i < j PROVE r[i].time < r[j].time
        OBVIOUS
      <3>2. r[i] = s[i + e] /\ r[j] = s[j + e] /\ i + e \in 1 .. k + 1 /\ j + e \in 1 .. k + 1
        BY <2>9
      <3>3. i + e < j + e
        BY <2>10, <3>1
      <3>4. s[i + e].time < s[j + e].time
        BY <2>7, <3>2, <3>3
      <3>5. QED
        BY <3>2, <3>4
    <2>13. \A t \in MinutesOf(T, n + 1) : t <= d.time
      <3>1. \A i \in 1..n : T[i].time \in Nat
        BY DEF ToldTrade
      <3>2. \A t \in MinutesOf(T, n) : t \in Nat
        BY <3>1 DEF MinutesOf
      <3>3. \A t \in MinutesOf(T, n) : t <= minute
        BY <1>1, <1>3, <1>9, <3>2
      <3>4. QED
        BY <1>5, <2>3, <3>3
    <2>14. Summed(T, n + 1, minute, r, d)
      BY <2>3, <2>8, <2>10, <2>11, <2>12, <2>13 DEF Summed
    <2>15. QED
      BY <2>1, <2>14
  <1>10. CASE ~(minute > current.time)
    <2> DEFINE d == Widened(current, x)
    <2>1. Updated(sim, x).closed = closed /\ Updated(sim, x).current = d
      BY <1>10 DEF Updated
    <2>2. current.time = minute
      BY <1>1, <1>3, <1>10
    <2>3. Summarises(T, n + 1, d) /\ d.time = minute
      <3>1. Summarises(T, n + 1, d)
        BY <1>1, <2>2, WidenedCandle
      <3>2. d.time = minute
        BY <2>2 DEF Widened
      <3>3. QED
        BY <3>1, <3>2
    <2> HIDE DEF d
    <2>4. Len(closed) + 1 = Kept(T, n + 1)
      BY <1>1, <1>3, <1>6, <2>2
    <2>5. \A i \in 1..k : Summarises(T, n + 1, closed[i]) /\ closed[i].time < d.time
      <3>1. SUFFICES ASSUME NEW i \in 1..k PROVE Summarises(T, n + 1, closed[i]) /\ closed[i].time < d.time
        OBVIOUS
      <3>2. Summarises(T, n, closed[i]) /\ closed[i].time < minute /\ closed[i].time \in Nat
        BY <1>1, <1>4, <2>2
      <3>3. closed[i].time # minute
        BY <3>2
      <3>4. QED
        BY <1>8, <2>3, <3>2, <3>3
    <2>6. \A t \in MinutesOf(T, n + 1) : t <= d.time
      BY <1>1, <1>5, <2>2, <2>3
    <2>7. Summed(T, n + 1, minute, closed, d)
      BY <1>1, <2>3, <2>4, <2>5, <2>6 DEF Summed
    <2>8. QED
      BY <2>1, <2>7
  <1>11. QED
    BY <1>9, <1>10

\* What the candles are after each of the trades (trades.forEach).
Feeds(trades, N, g) ==
  g = [i \in 0..N |-> IF i = 0 THEN [closed |-> candles, current |-> currentCandle]
                      ELSE Updated(g[i - 1], trades[i])]
Fed(trades) == CHOOSE g : Feeds(trades, Len(trades), g)

\* There is such a function.
LEMMA FeedExists == \A trades : \A n \in Nat : \E g : Feeds(trades, n, g)
  <1> SUFFICES ASSUME NEW trades PROVE \A n \in Nat : \E g : Feeds(trades, n, g)
    OBVIOUS
  <1> DEFINE G == {n \in Nat : \E g : Feeds(trades, n, g)}
  <1>1. ASSUME NEW n \in Nat, \A m \in Nat : m < n => m \in G PROVE n \in G
    <2>1. CASE n = 0
      <3> DEFINE g == [i \in 0..0 |-> [closed |-> candles, current |-> currentCandle]]
      <3>1. Feeds(trades, 0, g)
        BY DEF Feeds
      <3>2. QED
        BY <2>1, <3>1
    <2>2. CASE n # 0
      <3>1. n - 1 \in G
        BY <1>1, <2>2
      <3>2. PICK f : Feeds(trades, n - 1, f)
        BY <3>1
      <3> DEFINE g == [i \in 0..n |-> IF i = n THEN Updated(f[n - 1], trades[n]) ELSE f[i]]
      <3>3. f = [i \in 0 .. n - 1 |-> IF i = 0 THEN [closed |-> candles, current |-> currentCandle]
                                    ELSE Updated(f[i - 1], trades[i])]
        BY <3>2 DEF Feeds
      <3>4. \A i \in 0..n : g[i] = IF i = 0 THEN [closed |-> candles, current |-> currentCandle]
                                   ELSE Updated(g[i - 1], trades[i])
        <4>1. SUFFICES ASSUME NEW i \in 0..n
                       PROVE  g[i] = IF i = 0 THEN [closed |-> candles, current |-> currentCandle]
                                     ELSE Updated(g[i - 1], trades[i])
          OBVIOUS
        <4>2. CASE i = 0
          <5>1. g[0] = f[0] /\ 0 \in 0 .. n - 1
            BY <2>2
          <5>2. f[0] = [closed |-> candles, current |-> currentCandle]
            BY <3>3, <5>1
          <5>3. QED
            BY <4>2, <5>1, <5>2
        <4>3. CASE i = n
          <5>1. g[n] = Updated(f[n - 1], trades[n]) /\ g[n - 1] = f[n - 1]
            BY <2>2
          <5>2. QED
            BY <2>2, <4>3, <5>1
        <4>4. CASE i # 0 /\ i # n
          <5>1. g[i] = f[i] /\ g[i - 1] = f[i - 1] /\ i \in 0 .. n - 1
            BY <4>4
          <5>2. f[i] = Updated(f[i - 1], trades[i])
            BY <3>3, <4>4, <5>1
          <5>3. QED
            BY <4>4, <5>1, <5>2
        <4>5. QED
          BY <4>2, <4>3, <4>4
      <3>5. g = [i \in 0..n |-> g[i]]
        OBVIOUS
      <3> HIDE DEF g
      <3>6. g = [i \in 0..n |-> IF i = 0 THEN [closed |-> candles, current |-> currentCandle]
                                ELSE Updated(g[i - 1], trades[i])]
        BY <3>4, <3>5
      <3>7. Feeds(trades, n, g)
        BY <3>6 DEF Feeds
      <3>8. QED
        BY <3>7
    <2>3. QED
      BY <2>1, <2>2
  <1>2. \A n \in Nat : n \in G
    <2> HIDE DEF G
    <2>1. QED
      BY <1>1, NatStrongInduction
  <1>3. QED
    BY <1>2

\* What is told of the trades of a tick.
Telling(trades) == [i \in DOMAIN trades |-> [time |-> minute, price |-> trades[i].price,
                                             quantity |-> trades[i].quantity]]

\* The candles, and what they were told of, after the trades of a tick.
LEMMA FeedIs ==
  ASSUME NEW trades, UpdateCandles(trades)
  PROVE  /\ candles' = Fed(trades)[Len(trades)].closed
         /\ currentCandle' = Fed(trades)[Len(trades)].current
         /\ told' = told \o Telling(trades) /\ minute' = minute
  BY DEF UpdateCandles, Fed, Feeds, Telling

CandleInv ==
  told \in Seq(ToldTrade) /\ minute \in Nat /\ Summed(told, Len(told), minute, candles, currentCandle)

\* What is told of is a history of trades, those of the tick being the last.
LEMMA ToldIs ==
  ASSUME NEW trades \in Seq(FormerTrade), told \in Seq(ToldTrade), minute \in Nat
  PROVE  LET T == told \o Telling(trades)
         IN /\ T \in Seq(ToldTrade) /\ Len(T) = Len(told) + Len(trades)
            /\ \A i \in 1..Len(told) : T[i] = told[i]
            /\ \A i \in 1..Len(trades) :
                 /\ T[Len(told) + i].time = minute /\ T[Len(told) + i].price = trades[i].price
                 /\ T[Len(told) + i].quantity = trades[i].quantity
  <1> DEFINE more == Telling(trades)
             T == told \o more
             n == Len(told)
             N == Len(trades)
  <1>1. DOMAIN trades = 1..N /\ N \in Nat /\ \A i \in 1..N : trades[i] \in FormerTrade
    OBVIOUS
  <1>2. more \in [1..N -> ToldTrade]
    <2>1. \A i \in 1..N : trades[i].price \in Int /\ trades[i].quantity \in Nat
      BY <1>1 DEF FormerTrade
    <2>2. QED
      BY <1>1, <2>1 DEF Telling, ToldTrade
  <1>3. \A i \in 1..N : /\ more[i].time = minute /\ more[i].price = trades[i].price
                        /\ more[i].quantity = trades[i].quantity
    BY <1>1 DEF Telling
  <1> HIDE DEF more, N
  <1>4. more \in Seq(ToldTrade) /\ Len(more) = N
    BY <1>1, <1>2, SeqOfFn
  <1>5. /\ T \in Seq(ToldTrade) /\ Len(T) = n + N
        /\ \A i \in 1..n : T[i] = told[i]
        /\ \A i \in 1..N : T[n + i] = more[i]
    BY <1>4
  <1>6. QED
    BY <1>3, <1>5 DEF more, N

\* A history that agrees so far makes the same candles.
LEMMA SummedSame ==
  ASSUME NEW n \in Nat, NEW T, NEW U, \A i \in 1..n : U[i] = T[i], NEW m, NEW closed, NEW current,
         Summed(T, n, m, closed, current)
  PROVE  Summed(U, n, m, closed, current)
  <1>1. MinutesOf(U, n) = MinutesOf(T, n) /\ \A t : At(U, n, t) = At(T, n, t)
    BY DEF MinutesOf, At
  <1>2. \A t : At(T, n, t) \subseteq 1..n
    BY DEF At
  <1>3. \A t : PricesAt(U, n, t) = PricesAt(T, n, t) /\ VolumeAt(U, n, t) = VolumeAt(T, n, t)
    <2>1. SUFFICES ASSUME NEW t PROVE PricesAt(U, n, t) = PricesAt(T, n, t) /\ VolumeAt(U, n, t) = VolumeAt(T, n, t)
      OBVIOUS
    <2>2. \A j \in At(T, n, t) : U[j] = T[j]
      BY <1>2
    <2>3. At(U, n, t) = At(T, n, t)
      BY <1>1
    <2> DEFINE A == At(T, n, t)
    <2>4. [j \in A |-> U[j].quantity] = [j \in A |-> T[j].quantity]
      BY <2>2
    <2>5. {U[j].price : j \in A} = {T[j].price : j \in A}
      BY <2>2
    <2>6. QED
      BY <2>3, <2>4, <2>5 DEF PricesAt, VolumeAt
  <1>4. \A c : Summarises(T, n, c) => Summarises(U, n, c)
    <2>1. SUFFICES ASSUME NEW c, Summarises(T, n, c) PROVE Summarises(U, n, c)
      OBVIOUS
    <2> DEFINE A == At(T, n, c.time)
    <2>2. /\ A # {} => T[Max(A)] = U[Max(A)]
          /\ A # {} => T[Min(A)] = U[Min(A)]
      <3>1. IsFiniteSet(A)
        <4>1. TakenIn(T, n, c.time)
          BY AtGrows
        <4>2. QED
          BY <4>1 DEF TakenIn
      <3>2. A \subseteq Int /\ \A i \in A : U[i] = T[i]
        BY <1>2
      <3> HIDE DEF A
      <3>3. A # {} => Max(A) \in A /\ Min(A) \in A
        BY <3>1, <3>2, MaxMin
      <3>4. QED
        BY <3>2, <3>3
    <2>3. Begins(c.time) = {} => A # {}
      BY <2>1 DEF Summarises, MinutesOf, At, Begins
    <2>4. At(U, n, c.time) = A /\ PricesAt(U, n, c.time) = PricesAt(T, n, c.time)
          /\ VolumeAt(U, n, c.time) = VolumeAt(T, n, c.time)
      BY <1>1, <1>3
    <2>5. QED
      BY <1>1, <2>1, <2>2, <2>3, <2>4 DEF Summarises
  <1>5. Kept(U, n) = Kept(T, n)
    BY <1>1 DEF Kept
  <1>6. QED
    BY <1>1, <1>4, <1>5 DEF Summed

\* The trades of a tick are taken in one by one (_updateCandle).
LEMMA FeedKeeps ==
  ASSUME NEW trades \in Seq(FormerTrade), CandleInv, UpdateCandles(trades)
  PROVE  CandleInv'
  <1> DEFINE N == Len(trades)
             n == Len(told)
             T == told \o Telling(trades)
             g == Fed(trades)
             G == {i \in Nat : i <= N => Summed(T, n + i, minute, g[i].closed, g[i].current)}
  <1>1. /\ told \in Seq(ToldTrade) /\ minute \in Nat /\ N \in Nat /\ n \in Nat
        /\ Summed(told, n, minute, candles, currentCandle)
    BY DEF CandleInv
  <1>2. /\ T \in Seq(ToldTrade) /\ Len(T) = n + N
        /\ \A i \in 1..n : T[i] = told[i]
        /\ \A i \in 1..N : /\ T[n + i].time = minute /\ T[n + i].price = trades[i].price
                           /\ T[n + i].quantity = trades[i].quantity
    BY <1>1, ToldIs
  <1>3. g = [i \in 0..N |-> IF i = 0 THEN [closed |-> candles, current |-> currentCandle]
                            ELSE Updated(g[i - 1], trades[i])]
    <2>1. \E f : Feeds(trades, N, f)
      BY <1>1, FeedExists
    <2>2. Feeds(trades, N, g)
      BY <2>1 DEF Fed
    <2>3. QED
      BY <2>2 DEF Feeds
  <1>4. /\ candles' = g[N].closed /\ currentCandle' = g[N].current
        /\ told' = T /\ minute' = minute
    BY FeedIs
  <1> HIDE DEF g, T, n, N
  <1>5. \A i \in 1 .. n + N : T[i] \in ToldTrade
    BY <1>1, <1>2
  <1>6. 0 \in G
    <2>1. Summed(T, n, minute, candles, currentCandle)
      BY <1>1, <1>2, SummedSame
    <2>2. g[0] = [closed |-> candles, current |-> currentCandle]
      BY <1>1, <1>3
    <2>3. g[0].closed = candles /\ g[0].current = currentCandle /\ n + 0 = n
      BY <1>1, <2>2
    <2>4. QED
      BY <2>1, <2>3
  <1>7. ASSUME NEW i \in Nat, i + 1 <= N, Summed(T, n + i, minute, g[i].closed, g[i].current)
        PROVE  Summed(T, n + (i + 1), minute, g[i + 1].closed, g[i + 1].current)
    <2> DEFINE k == n + i
               x == trades[i + 1]
               sim == g[i]
    <2>1. i + 1 \in 1..N /\ k \in Nat /\ k + 1 = n + (i + 1) /\ 1 .. k + 1 \subseteq 1 .. n + N
      BY <1>1, <1>7
    <2>2. T[k + 1].time = minute /\ x.price = T[k + 1].price /\ x.quantity = T[k + 1].quantity
      BY <1>2, <2>1
    <2>3. \A j \in 1 .. k + 1 : T[j] \in ToldTrade
      BY <1>5, <2>1
    <2>4. g[i + 1] = Updated(sim, x)
      <3>1. i + 1 \in 0..N /\ i + 1 # 0 /\ (i + 1) - 1 = i
        BY <1>1, <1>7
      <3>2. QED
        BY <1>3, <3>1
    <2>5. Summed(T, k, minute, sim.closed, sim.current)
      BY <1>7
    <2> HIDE DEF k, x, sim
    <2>6. Summed(T, k + 1, minute, Updated(sim, x).closed, Updated(sim, x).current)
      BY <1>1, <2>1, <2>2, <2>3, <2>5, CandleStep
    <2>7. QED
      BY <2>1, <2>4, <2>6
  <1>8. \A i \in Nat : i \in G
    <2>1. ASSUME NEW i \in Nat, \A m \in Nat : m < i => m \in G PROVE i \in G
      <3>1. CASE i = 0
        BY <1>6, <3>1
      <3>2. CASE i # 0
        <4>1. SUFFICES ASSUME i <= N PROVE Summed(T, n + i, minute, g[i].closed, g[i].current)
          OBVIOUS
        <4>2. PICK m \in Nat : i = m + 1
          BY <3>2
        <4>3. m < i /\ m <= N /\ m + 1 <= N
          BY <1>1, <4>1, <4>2
        <4>4. Summed(T, n + m, minute, g[m].closed, g[m].current)
          BY <2>1, <4>3
        <4>5. QED
          BY <1>7, <4>2, <4>3, <4>4
      <3>3. QED
        BY <3>1, <3>2
    <2> HIDE DEF G
    <2>2. QED
      BY <2>1, NatStrongInduction
  <1>9. Summed(T, n + N, minute, g[N].closed, g[N].current)
    BY <1>1, <1>8
  <1>10. Len(T) = n + N
    BY <1>2
  <1>11. Summed(told', Len(told'), minute', candles', currentCandle')
    BY <1>4, <1>9, <1>10
  <1>12. told' \in Seq(ToldTrade) /\ minute' \in Nat
    BY <1>1, <1>2, <1>4
  <1>13. QED
    BY <1>11, <1>12 DEF CandleInv

\* The first candle begins at the first price (_initCandle).
LEMMA CandleStarts == SimulationInit => CandleInv
  <1> SUFFICES ASSUME SimulationInit PROVE CandleInv
    OBVIOUS
  <1> DEFINE c == Candle(0, InitialPrice, 0)
  <1>1. minute = 0 /\ candles = <<>> /\ currentCandle = c /\ told = <<>>
    BY DEF SimulationInit
  <1>2. InitialPrice \in Nat /\ MaxCandles \in Nat \ {0}
    BY SimulationAssumption
  <1>3. MinutesOf(<<>>, 0) = {0} /\ At(<<>>, 0, 0) = {} /\ Begins(0) = {InitialPrice}
    BY DEF MinutesOf, At, Begins
  <1>4. PricesAt(<<>>, 0, 0) = {InitialPrice}
    BY <1>3 DEF PricesAt
  <1>5. VolumeAt(<<>>, 0, 0) = 0
    BY <1>3, SumEmpty DEF VolumeAt
  <1>6. IsFiniteSet({InitialPrice}) /\ Max({InitialPrice}) = InitialPrice /\ Min({InitialPrice}) = InitialPrice
    <2>1. IsFiniteSet({}) /\ {} \subseteq Int /\ {} \cup {InitialPrice} = {InitialPrice} /\ InitialPrice \in Int
      BY <1>2, FS_EmptySet
    <2>2. /\ IsFiniteSet({} \cup {InitialPrice}) /\ Max({} \cup {InitialPrice}) = InitialPrice
          /\ Min({} \cup {InitialPrice}) = InitialPrice
      BY <2>1, ExtremesGrow
    <2>3. QED
      BY <2>1, <2>2
  <1>7. /\ c.time = 0 /\ c.high = InitialPrice /\ c.low = InitialPrice /\ c.open = InitialPrice
        /\ c.close = InitialPrice /\ c.volume = 0 /\ c \in CandleType
    BY <1>2 DEF Candle, CandleType
  <1> HIDE DEF c
  <1>8. Summarises(<<>>, 0, c)
    BY <1>3, <1>4, <1>5, <1>6, <1>7 DEF Summarises
  <1>9. Kept(<<>>, 0) = 1
    <2>1. Cardinality({0}) = 1
      BY FS_Singleton
    <2>2. Min({1, MaxCandles + 1}) = 1
      BY <1>2, MinOfTwo
    <2>3. QED
      BY <1>3, <2>1, <2>2 DEF Kept
  <1>10. Summed(<<>>, 0, 0, <<>>, c)
    <2>1. <<>> \in Seq(CandleType) /\ Len(<<>>) = 0 /\ 1..0 = {}
      OBVIOUS
    <2>2. \A t \in MinutesOf(<<>>, 0) : t <= c.time
      BY <1>3, <1>7
    <2>3. QED
      BY <1>7, <1>8, <1>9, <2>1, <2>2 DEF Summed
  <1>11. told \in Seq(ToldTrade) /\ Len(told) = 0
    BY <1>1
  <1>12. QED
    BY <1>1, <1>10, <1>11 DEF CandleInv

\* Only the end of a tick and the clock touch what the candles depend on.
LEMMA CandlesStep == FormerInv /\ CandleInv /\ [FormerNext]_<<formerVars, simVars>> => CandleInv'
  <1> SUFFICES ASSUME FormerInv, CandleInv, [FormerNext]_<<formerVars, simVars>> PROVE CandleInv'
    OBVIOUS
  <1>1. ASSUME UNCHANGED <<minute, candles, currentCandle, told>> PROVE CandleInv'
    BY <1>1 DEF CandleInv
  <1>2. CASE MinutePasses
    <2>1. minute' = minute + 1 /\ UNCHANGED <<candles, currentCandle, told>> /\ minute \in Nat
      BY <1>2 DEF MinutePasses, CandleInv
    <2>2. Summed(told, Len(told), minute, candles, currentCandle) /\ told \in Seq(ToldTrade)
      BY DEF CandleInv
    <2>3. currentCandle.time \in Nat
      BY <2>2 DEF Summed, Summarises, CandleType
    <2>4. Summed(told, Len(told), minute', candles, currentCandle)
      BY <2>1, <2>2, <2>3 DEF Summed
    <2>5. QED
      BY <2>1, <2>2, <2>4 DEF CandleInv
  <1>3. CASE Return
    <2>1. \/ UpdateCandles(newTrades)
          \/ UNCHANGED <<minute, candles, currentCandle, told>>
      BY <1>3 DEF Return, TickEnds, updateCandle, simVars
    <2>2. newTrades \in Seq(FormerTrade)
      BY DEF FormerInv, FormerShape
    <2>3. QED
      BY <1>1, <2>1, <2>2, FeedKeeps
  <1>4. ASSUME NEW side \in {"buy", "sell"}, NEW type \in {"limit", "market"}, NEW q \in Quantities,
               \/ \E p \in Prices, u \in Users : UserOrder(side, type, p, q, u)
               \/ q > 0 /\ \E x \in Offsets : BotOrder(side, type, x, q)
        PROVE  UNCHANGED <<minute, candles, currentCandle, told>>
    BY <1>4 DEF UserOrder, BotOrder, PlaceOrder, simVars
  <1>5. ASSUME NEW m \in DOMAIN orders, Fill(m) \/ DeleteOrder(m) \/ \E u \in Users : DeleteOwnOrder(m, u)
        PROVE  UNCHANGED <<minute, candles, currentCandle, told>>
    <2>1. ASSUME Fill(m) PROVE UNCHANGED simVars
      BY <2>1 DEF Fill
    <2>2. ASSUME CancelOrder(m) PROVE UNCHANGED simVars
      BY <2>2 DEF CancelOrder
    <2>3. QED
      BY <1>5, <2>1, <2>2 DEF DeleteOrder, DeleteOwnOrder, simVars
  <1>6. ASSUME IdleTick \/ \E a \in Swaps, t \in Tokens : FormerSwap(a, t)
        PROVE  UNCHANGED <<minute, candles, currentCandle, told>>
    BY <1>6 DEF IdleTick, FormerSwap, simVars
  <1>7. ASSUME \E d \in Deposits : FormerDeposit(d[1], d[2])
        PROVE  UNCHANGED <<minute, candles, currentCandle, told>>
    BY <1>7 DEF FormerDeposit, simVars
  <1>8. CASE UNCHANGED <<formerVars, simVars>>
    BY <1>1, <1>8 DEF simVars
  <1>9. QED
    BY <1>1, <1>2, <1>3, <1>4, <1>5, <1>6, <1>7, <1>8 DEF FormerNext

\* A history of candles as CandleInv describes it is one CandlesSummarise accepts.
LEMMA CandlesFollow == CandleInv => CandlesSummarise
  <1> SUFFICES ASSUME CandleInv PROVE CandlesSummarise
    OBVIOUS
  <1> DEFINE n == Len(told)
             k == Len(candles)
             all == Append(candles, currentCandle)
             M == MinutesOf(told, n)
  <1>1. /\ told \in Seq(ToldTrade) /\ DOMAIN told = 1..n /\ n \in Nat
        /\ Summed(told, n, minute, candles, currentCandle)
    BY DEF CandleInv
  <1>2. /\ candles \in Seq(CandleType) /\ k \in Nat /\ k + 1 = Kept(told, n)
        /\ \A i \in 1..k : Summarises(told, n, candles[i]) /\ candles[i].time < currentCandle.time
        /\ \A i, j \in 1..k : i < j => candles[i].time < candles[j].time
        /\ Summarises(told, n, currentCandle)
        /\ \A t \in M : t <= currentCandle.time
    BY <1>1 DEF Summed
  <1>3. currentCandle \in CandleType
    BY <1>2 DEF Summarises
  <1>4. /\ Len(all) = k + 1 /\ DOMAIN all = 1 .. k + 1
        /\ \A i \in 1..k : all[i] = candles[i]
        /\ all[k + 1] = currentCandle
    BY <1>2, <1>3
  <1>5. M = {0} \cup {told[i].time : i \in DOMAIN told}
    BY <1>1 DEF MinutesOf
  <1>6. \A t : At(told, n, t) = {i \in DOMAIN told : told[i].time = t}
    BY <1>1 DEF At
  <1>7. \A i \in 1 .. k + 1 : Summarises(told, n, all[i])
    <2>1. SUFFICES ASSUME NEW i \in 1 .. k + 1 PROVE Summarises(told, n, all[i])
      OBVIOUS
    <2>2. i \in 1..k \/ i = k + 1
      BY <1>2
    <2>3. QED
      BY <1>2, <1>4, <2>2
  <1>8. Len(all) = Min({Cardinality(M), MaxCandles + 1})
    BY <1>2, <1>4 DEF Kept
  <1>9. \A i \in 1 .. k + 1 : i > 1 => all[i - 1].time < all[i].time
    <2>1. SUFFICES ASSUME NEW i \in 1 .. k + 1, i > 1 PROVE all[i - 1].time < all[i].time
      OBVIOUS
    <2>2. i - 1 \in 1..k /\ all[i - 1] = candles[i - 1] /\ i - 1 < i
      BY <1>2, <1>4, <2>1
    <2>3. CASE i = k + 1
      BY <1>2, <1>4, <2>2, <2>3
    <2>4. CASE i # k + 1
      <3>1. i \in 1..k /\ all[i] = candles[i]
        BY <1>2, <1>4, <2>4
      <3>2. QED
        BY <1>2, <2>2, <3>1
    <2>5. QED
      BY <2>3, <2>4
  <1>10. \A i \in 1 .. k + 1 : \A t \in M : t > all[i].time => i < Len(all)
    <2>1. SUFFICES ASSUME NEW i \in 1 .. k + 1, NEW t \in M, t > all[i].time, ~(i < k + 1) PROVE FALSE
      BY <1>4
    <2>2. i = k + 1
      BY <1>2, <2>1
    <2>3. t <= currentCandle.time /\ t > currentCandle.time
      BY <1>2, <1>4, <2>1, <2>2
    <2>4. t \in Int /\ currentCandle.time \in Int
      <3>1. \A j \in 1..n : told[j] \in ToldTrade
        BY <1>1
      <3>2. \A j \in 1..n : told[j].time \in Nat
        BY <3>1 DEF ToldTrade
      <3>3. QED
        BY <1>3, <3>2 DEF MinutesOf, CandleType
    <2>5. QED
      BY <2>3, <2>4
  <1>11. {all[i].time : i \in DOMAIN all} \subseteq M
    BY <1>4, <1>7 DEF Summarises
  <1> HIDE DEF all, M, k, n
  <1>12. ASSUME NEW i \in DOMAIN all
         PROVE  LET c == all[i]
                    at == {j \in DOMAIN told : told[j].time = c.time}
                    begin == IF c.time = 0 THEN {InitialPrice} ELSE {}
                    prices == begin \cup {told[j].price : j \in at}
                IN /\ i > 1 => all[i - 1].time < c.time
                   /\ \A t \in M : t > c.time => i < Len(all)
                   /\ c.high = Max(prices) /\ c.low = Min(prices)
                   /\ c.volume = SumFunctionOnSet([j \in at |-> told[j].quantity], at)
                   /\ c.open = IF begin # {} THEN InitialPrice ELSE told[Min(at)].price
                   /\ c.close = IF at # {} THEN told[Max(at)].price ELSE InitialPrice
    <2> DEFINE c == all[i]
               at == {j \in DOMAIN told : told[j].time = c.time}
               begin == IF c.time = 0 THEN {InitialPrice} ELSE {}
               prices == begin \cup {told[j].price : j \in at}
    <2>1. Summarises(told, n, c) /\ i \in 1 .. k + 1
      BY <1>4, <1>7
    <2>2. at = At(told, n, c.time) /\ begin = Begins(c.time)
      BY <1>6 DEF Begins
    <2>3. prices = PricesAt(told, n, c.time)
      BY <2>2 DEF PricesAt
    <2>4. SumFunctionOnSet([j \in at |-> told[j].quantity], at) = VolumeAt(told, n, c.time)
      BY <2>2 DEF VolumeAt
    <2>5. (i > 1 => all[i - 1].time < c.time) /\ \A t \in M : t > c.time => i < Len(all)
      BY <1>9, <1>10, <2>1
    <2> HIDE DEF c, at, begin, prices
    <2>6. /\ c.high = Max(prices) /\ c.low = Min(prices)
          /\ c.volume = SumFunctionOnSet([j \in at |-> told[j].quantity], at)
          /\ c.open = IF begin # {} THEN InitialPrice ELSE told[Min(at)].price
          /\ c.close = IF at # {} THEN told[Max(at)].price ELSE InitialPrice
      BY <2>1, <2>2, <2>3, <2>4 DEF Summarises
    <2>7. QED
      BY <2>5, <2>6 DEF c, at, begin, prices
  <1>13. QED
    BY <1>5, <1>8, <1>11, <1>12 DEF CandlesSummarise, all, M

\* Every candle is the summary of the trades of its minute, and of the minutes with
\* trades the newest are kept (_initCandle, _updateCandle).
THEOREM CandlesAreRight == FormerSpec => []CandlesSummarise
  <1>1. FormerInit => CandleInv
    BY CandleStarts DEF FormerInit, initCandle
  <1>2. QED
    BY <1>1, FormerInvariance, CandlesStep, CandlesFollow, PTL DEF FormerSpec

-----------------------------------------------------------------------------
(* The pool of the API, as a function of its reserves r, its shares t and   *)
(* the positions ps.                                                        *)

AmountOf(r, a, t) == PaidOut(r[t], r[OtherToken(t)], AfterFee(a, Fee))
SwapOf(r, a, t) ==
  [r EXCEPT ![t] = (@ ++ a) ++ (Fee ** a), ![OtherToken(t)] = @ -- AmountOf(r, a, t)]
FitOf(r, a, b) ==
  LET ratio == r["B"] // r["A"] IN
  IF ~(Zero \prec r["A"] /\ Zero \prec r["B"]) THEN <<a, b>>
  ELSE IF b \prec a ** ratio THEN <<b // ratio, b>> ELSE <<a, a ** ratio>>
IssuedOf(r, t, a, b) ==
  LET actual == FitOf(r, a, b) IN
  IF t = Zero THEN SquareRoot(actual[1] ** actual[2]) ELSE (actual[1] // r["A"]) ** t
DepositOf(r, a, b) == [t \in Tokens |-> r[t] ++ IF t = "A" THEN FitOf(r, a, b)[1] ELSE FitOf(r, a, b)[2]]
RemovalOf(r, t, s) == [x \in Tokens |-> r[x] -- ((s // t) ** r[x])]

Reserves == [Tokens -> Ratio]
BothPositive(r) == IsPositive(r["A"]) /\ IsPositive(r["B"])

\* A reserve that changes at both its tokens.
LEMMA SwapOfIs ==
  ASSUME NEW r \in Reserves, NEW a, NEW t \in Tokens
  PROVE  LET u == OtherToken(t)
         IN /\ u \in Tokens /\ u # t /\ ((t = "A" /\ u = "B") \/ (t = "B" /\ u = "A"))
            /\ SwapOf(r, a, t)[t] = (r[t] ++ a) ++ (Fee ** a)
            /\ SwapOf(r, a, t)[u] = r[u] -- PaidOut(r[t], r[u], AfterFee(a, Fee))
            /\ SwapOf(r, a, t) = [x \in Tokens |-> SwapOf(r, a, t)[x]]
  <1>1. t = "A" \/ t = "B"
    BY DEF Tokens
  <1>2. CASE t = "A"
    <2>1. OtherToken(t) = "B" /\ OtherToken("A") = "B" /\ t \in Tokens /\ "B" \in Tokens
      BY <1>2 DEF OtherToken, Tokens
    <2>2. SwapOf(r, a, t) = [r EXCEPT !["A"] = (@ ++ a) ++ (Fee ** a), !["B"] = @ -- AmountOf(r, a, "A")]
      BY <1>2, <2>1 DEF SwapOf
    <2>3. DOMAIN r = Tokens /\ r = [x \in Tokens |-> r[x]]
      BY DEF Reserves
    <2>4. /\ SwapOf(r, a, t)["A"] = (r["A"] ++ a) ++ (Fee ** a)
          /\ SwapOf(r, a, t)["B"] = r["B"] -- AmountOf(r, a, "A")
          /\ SwapOf(r, a, t) = [x \in Tokens |-> SwapOf(r, a, t)[x]]
      BY <2>2, <2>3 DEF Tokens
    <2>5. AmountOf(r, a, "A") = PaidOut(r["A"], r["B"], AfterFee(a, Fee))
      BY <2>1 DEF AmountOf
    <2>6. "A" # "B"
      OBVIOUS
    <2>7. QED
      BY <1>2, <2>1, <2>4, <2>5, <2>6
  <1>3. CASE t = "B"
    <2>1. OtherToken(t) = "A" /\ OtherToken("B") = "A" /\ t \in Tokens /\ "A" \in Tokens
      BY <1>3 DEF OtherToken, Tokens
    <2>2. SwapOf(r, a, t) = [r EXCEPT !["B"] = (@ ++ a) ++ (Fee ** a), !["A"] = @ -- AmountOf(r, a, "B")]
      BY <1>3, <2>1 DEF SwapOf
    <2>3. DOMAIN r = Tokens /\ r = [x \in Tokens |-> r[x]]
      BY DEF Reserves
    <2>4. /\ SwapOf(r, a, t)["B"] = (r["B"] ++ a) ++ (Fee ** a)
          /\ SwapOf(r, a, t)["A"] = r["A"] -- AmountOf(r, a, "B")
          /\ SwapOf(r, a, t) = [x \in Tokens |-> SwapOf(r, a, t)[x]]
      BY <2>2, <2>3 DEF Tokens
    <2>5. AmountOf(r, a, "B") = PaidOut(r["B"], r["A"], AfterFee(a, Fee))
      BY <2>1 DEF AmountOf
    <2>6. "A" # "B"
      OBVIOUS
    <2>7. QED
      BY <1>3, <2>1, <2>4, <2>5, <2>6
  <1>4. QED
    BY <1>1, <1>2, <1>3

\* What the assumption says of the fee.
LEMMA FeeIs == Fee \in Number /\ Zero \preceq Fee /\ Fee \prec One
  BY AmmAssumption, FiniteIs DEF AmmAssumption

\* A swap of anything leaves numbers, infinities or NaN.
LEMMA SwapTypes ==
  ASSUME NEW r \in Reserves, NEW a \in Ratio, NEW t \in Tokens PROVE SwapOf(r, a, t) \in Reserves
  <1> DEFINE u == OtherToken(t)
             x == r[t]
             y == r[u]
  <1>1. /\ u \in Tokens /\ u # t /\ ((t = "A" /\ u = "B") \/ (t = "B" /\ u = "A"))
        /\ SwapOf(r, a, t)[t] = (x ++ a) ++ (Fee ** a)
        /\ SwapOf(r, a, t)[u] = y -- PaidOut(x, y, AfterFee(a, Fee))
        /\ SwapOf(r, a, t) = [z \in Tokens |-> SwapOf(r, a, t)[z]]
    BY SwapOfIs
  <1>2. x \in Ratio /\ y \in Ratio /\ Fee \in Ratio /\ One \in Ratio
    BY <1>1, FeeIs, ZeroIs, NumbersAreRatios DEF Reserves
  <1> HIDE DEF x, y, u
  <1>3. (x ++ a) ++ (Fee ** a) \in Ratio
    BY <1>2, Closed
  <1>4. AfterFee(a, Fee) \in Ratio
    BY <1>2, Closed DEF AfterFee
  <1>5. PaidOut(x, y, AfterFee(a, Fee)) \in Ratio
    BY <1>2, <1>4, Closed DEF PaidOut
  <1>6. y -- PaidOut(x, y, AfterFee(a, Fee)) \in Ratio
    BY <1>2, <1>5, Closed
  <1>7. \A z \in Tokens : SwapOf(r, a, t)[z] \in Ratio
    BY <1>1, <1>3, <1>6 DEF Tokens
  <1>8. QED
    BY <1>1, <1>7 DEF Reserves

\* What can be swapped, once toFixed has been applied to it.
NotNegative(a) == a \in Number /\ Zero \preceq a

\* A number that is not negative.
LEMMA NotNegativeIs ==
  ASSUME NEW a \in Number PROVE NotNegative(a) <=> a = Zero \/ IsPositive(a)
  BY ZeroIs, Ordered DEF NotNegative, IsPositive, \preceq

\* What nothing does to a number.
LEMMA NothingIs ==
  ASSUME NEW x \in Number
  PROVE  x ** Zero = Zero /\ Zero ** x = Zero /\ x -- Zero = x /\ (IsPositive(x) => Zero // x = Zero)
  <1>1. PICK n \in Int, d \in Nat \ {0} : Is(x, n, d)
    BY HasForm
  <1>2. Is(Zero, 0, 1)
    BY ZeroIs
  <1>3. x ** Zero = Zero /\ Zero ** x = Zero
    <2>1. Is(x ** Zero, n * 0, d * 1) /\ Is(Zero ** x, 0 * n, 1 * d)
      BY <1>1, <1>2, ProductIs
    <2>2. (n * 0) * 1 = 0 * (d * 1) /\ (0 * n) * 1 = 0 * (1 * d)
      OBVIOUS
    <2>3. QED
      BY <1>2, <2>1, <2>2, IsUnique
  <1>4. x -- Zero = x
    <2>1. Is(x -- Zero, n * 1 - 0 * d, d * 1)
      BY <1>1, <1>2, DifferenceIs
    <2>2. (n * 1 - 0 * d) * d = n * (d * 1)
      OBVIOUS
    <2>3. QED
      BY <1>1, <2>1, <2>2, IsUnique
  <1>5. ASSUME IsPositive(x) PROVE Zero // x = Zero
    <2>1. PICK m \in Nat \ {0}, e \in Nat \ {0} : Is(x, m, e)
      BY <1>5, PositiveForm
    <2>2. Is(Zero // x, 0 * e, 1 * m)
      BY <1>2, <2>1, QuotientIs
    <2>3. (0 * e) * 1 = 0 * (1 * m)
      OBVIOUS
    <2>4. QED
      BY <1>2, <2>2, <2>3, IsUnique
  <1>6. QED
    BY <1>3, <1>4, <1>5

\* The pool gives nothing for nothing.
LEMMA NothingPaidOut ==
  ASSUME NEW x, IsPositive(x), NEW y \in Number PROVE PaidOut(x, y, AfterFee(Zero, Fee)) = Zero
  <1>1. One -- Fee \in Number
    BY ZeroIs, FeeIs, SubtractIs
  <1>2. AfterFee(Zero, Fee) = Zero
    BY <1>1, NothingIs DEF AfterFee
  <1>3. y ** Zero = Zero /\ x ++ Zero = x /\ Zero // x = Zero
    BY NothingIs, NothingAdded DEF IsPositive
  <1>4. QED
    BY <1>2, <1>3 DEF PaidOut

\* So a swap of nothing changes nothing.
LEMMA NothingSwapped ==
  ASSUME NEW r \in Reserves, BothPositive(r), NEW t \in Tokens PROVE SwapOf(r, Zero, t) = r
  <1> DEFINE u == OtherToken(t)
  <1>1. /\ u \in Tokens /\ u # t /\ ((t = "A" /\ u = "B") \/ (t = "B" /\ u = "A"))
        /\ SwapOf(r, Zero, t)[t] = (r[t] ++ Zero) ++ (Fee ** Zero)
        /\ SwapOf(r, Zero, t)[u] = r[u] -- PaidOut(r[t], r[u], AfterFee(Zero, Fee))
        /\ SwapOf(r, Zero, t) = [x \in Tokens |-> SwapOf(r, Zero, t)[x]]
    BY SwapOfIs
  <1>2. IsPositive(r[t]) /\ IsPositive(r[u]) /\ r[t] \in Number /\ r[u] \in Number
    BY <1>1 DEF BothPositive, IsPositive
  <1> HIDE DEF u
  <1>3. Fee ** Zero = Zero /\ r[t] ++ Zero = r[t] /\ r[u] -- Zero = r[u]
    BY <1>2, FeeIs, NothingIs, NothingAdded
  <1>4. PaidOut(r[t], r[u], AfterFee(Zero, Fee)) = Zero
    BY <1>2, NothingPaidOut
  <1>5. \A x \in Tokens : SwapOf(r, Zero, t)[x] = r[x]
    BY <1>1, <1>3, <1>4 DEF Tokens
  <1>6. r = [x \in Tokens |-> r[x]]
    BY DEF Reserves
  <1>7. QED
    BY <1>1, <1>5, <1>6

\* A swap leaves both reserves positive and their product no smaller.
LEMMA SwapIsFair ==
  ASSUME NEW r \in Reserves, BothPositive(r), NEW a, NotNegative(a), NEW t \in Tokens,
         NEW r1, r1 = SwapOf(r, a, t)
  PROVE  /\ BothPositive(r1) /\ One \preceq (r1["A"] // r["A"]) ** (r1["B"] // r["B"])
  <1> DEFINE u == OtherToken(t)
  <1>1. /\ u \in Tokens /\ u # t /\ ((t = "A" /\ u = "B") \/ (t = "B" /\ u = "A"))
        /\ r1[t] = (r[t] ++ a) ++ (Fee ** a)
        /\ r1[u] = r[u] -- PaidOut(r[t], r[u], AfterFee(a, Fee))
    BY SwapOfIs
  <1>2. IsPositive(r[t]) /\ IsPositive(r[u])
    BY <1>1 DEF BothPositive
  <1> HIDE DEF u
  <1>3. CASE IsPositive(a)
    <2>1. /\ IsPositive(r1[t]) /\ IsPositive(r1[u])
          /\ One \preceq (r1[t] // r[t]) ** (r1[u] // r[u]) /\ One \preceq (r1[u] // r[u]) ** (r1[t] // r[t])
      BY <1>1, <1>2, <1>3, FeeIs, SwapKeeps
    <2>2. QED
      BY <1>1, <2>1 DEF BothPositive
  <1>4. CASE a = Zero
    <2>1. r1 = r
      BY <1>4, NothingSwapped
    <2>2. r["A"] // r["A"] = One /\ r["B"] // r["B"] = One
      BY PositiveIs DEF BothPositive
    <2>3. One ** One = One /\ One \preceq One
      <3>1. Is(One ** One, 1 * 1, 1 * 1) /\ Is(One, 1, 1)
        BY ZeroIs, ProductIs
      <3>2. QED
        BY <3>1, IsUnique, ZeroIs, Ordered
    <2>4. QED
      BY <2>1, <2>2, <2>3
  <1>5. QED
    BY <1>3, <1>4, NotNegativeIs DEF NotNegative
-----------------------------------------------------------------------------
(* Shares: those the pool counts and those the positions hold *)

StartShares == SquareRoot(InitialA ** InitialB)
SumOf(ps) == FoldFunctionOnSet(++, StartShares, [w \in Wallets |-> ps[w].shares], Wallets)

\* What a root is.
LEMMA RootOfIs ==
  ASSUME NEW n \in Int, \E r \in 0..n : r * r = n PROVE RootOf(n) \in Nat /\ RootOf(n) * RootOf(n) = n
  <1>1. RootOf(n) \in 0..n /\ RootOf(n) * RootOf(n) = n
    BY DEF RootOf
  <1>2. QED
    BY <1>1

\* The root of anything the code takes one of is a fraction.
LEMMA RootTypes ==
  ASSUME NEW x \in Ratio, IsSquare(x)
  PROVE  /\ SquareRoot(x) \in Ratio /\ SquareRoot(x) = Reduce[<<RootOf(x[1]), RootOf(x[2])>>]
         /\ RootOf(x[1]) \in Nat /\ RootOf(x[1]) * RootOf(x[1]) = x[1]
         /\ RootOf(x[2]) \in Nat /\ RootOf(x[2]) * RootOf(x[2]) = x[2]
  <1>1. x[1] \in Int /\ x[2] \in Int
    BY RatioIs
  <1>2. /\ RootOf(x[1]) \in Nat /\ RootOf(x[1]) * RootOf(x[1]) = x[1]
        /\ RootOf(x[2]) \in Nat /\ RootOf(x[2]) * RootOf(x[2]) = x[2]
    BY <1>1, RootOfIs DEF IsSquare
  <1>3. <<RootOf(x[1]), RootOf(x[2])>> \in Fraction
    BY <1>2 DEF Fraction
  <1>4. SquareRoot(x) = Reduce[<<RootOf(x[1]), RootOf(x[2])>>]
    BY DEF SquareRoot, Frac
  <1>5. QED
    BY <1>2, <1>3, <1>4, ReduceRatio

\* The root of a positive number is positive.
LEMMA RootIs ==
  ASSUME NEW x, IsPositive(x), IsSquare(x) PROVE IsPositive(SquareRoot(x))
  <1> DEFINE p == RootOf(x[1])
             q == RootOf(x[2])
  <1>1. x[1] > 0 /\ x[2] > 0 /\ x[1] \in Int /\ x[2] \in Int
    <2>1. Is(x, x[1], x[2]) /\ x[2] \in Nat \ {0} /\ x[2] > 0 /\ x[1] \in Int
      BY NumberIs DEF IsPositive
    <2>2. QED
      BY <2>1, SignIs DEF IsPositive
  <1>2. p \in Nat /\ p * p = x[1] /\ q \in Nat /\ q * q = x[2] /\ SquareRoot(x) = Reduce[<<p, q>>]
    BY RootTypes, NumbersAreRatios DEF IsPositive
  <1> HIDE DEF p, q
  <1>3. p \in Nat \ {0} /\ q \in Nat \ {0}
    BY <1>1, <1>2
  <1>4. Is(Reduce[<<p, q>>], p, q)
    BY <1>3, ReduceIs
  <1>5. QED
    BY <1>2, <1>3, <1>4, IsPositiveForm

\* The pool starts with two positive reserves and positive shares.
LEMMA PoolStarts == IsPositive(InitialA) /\ IsPositive(InitialB) /\ IsPositive(StartShares)
  <1>1. IsPositive(InitialA) /\ IsPositive(InitialB)
    BY AmmAssumption, FiniteIs DEF AmmAssumption, IsPositive
  <1>2. IsPositive(InitialA ** InitialB)
    BY <1>1, PositiveIs
  <1>3. IsPositive(StartShares)
    BY <1>2, RootIs, AmmAssumption DEF AmmAssumption, StartShares
  <1>4. QED
    BY <1>1, <1>3

LPRecord == [shares : Ratio, entryReserveA : Ratio, entryReserveB : Ratio, issued : Ratio]
LPRecords == [Wallets -> LPRecord]
AllCounted(ps) == \A w \in Wallets : ps[w].shares \in Number

\* The positions' shares and those of the start add up to a number.
LEMMA SumOfIs ==
  ASSUME NEW ps, AllCounted(ps)
  PROVE  SumOf(ps) \in Number
  <1> DEFINE f == [w \in Wallets |-> ps[w].shares]
  <1>1. SumOf(ps) = Folded(StartShares, f, Wallets)
    BY DEF SumOf, Folded
  <1>2. \A w \in Wallets : f[w] \in Number
    BY DEF AllCounted
  <1> HIDE DEF f
  <1>3. StartShares \in Number /\ IsFiniteSet(Wallets)
    BY PoolStarts, AmmAssumption DEF IsPositive, AmmAssumption
  <1>4. QED
    BY <1>1, <1>2, <1>3, FoldAny

\* That sum is positive, as long as no position is negative.
LEMMA SumOfPositive ==
  ASSUME NEW ps, AllCounted(ps), \A w \in Wallets : Zero \preceq ps[w].shares
  PROVE  IsPositive(SumOf(ps))
  <1> DEFINE f == [w \in Wallets |-> ps[w].shares]
  <1>1. SumOf(ps) = Folded(StartShares, f, Wallets)
    BY DEF SumOf, Folded
  <1>2. \A w \in Wallets : f[w] \in Number /\ Zero \preceq f[w]
    BY DEF AllCounted
  <1> HIDE DEF f
  <1>3. IsPositive(StartShares) /\ StartShares \in Number /\ IsFiniteSet(Wallets)
    BY PoolStarts, AmmAssumption DEF IsPositive, AmmAssumption
  <1>4. StartShares \preceq SumOf(ps)
    BY <1>1, <1>2, <1>3, FoldAtLeast
  <1>5. SumOf(ps) \in Number /\ Zero \in Number
    BY SumOfIs, ZeroIs
  <1>6. QED
    BY <1>3, <1>4, <1>5, Ordered DEF IsPositive

\* The position of one wallet changes.
Elsewhere(ps, qs, w) == \A x \in Wallets \ {w} : qs[x] = ps[x]
SumsDiffer(ps, qs, w) ==
  \E rest \in Number : SumOf(ps) = ps[w].shares ++ rest /\ SumOf(qs) = qs[w].shares ++ rest

\* When one position changes, the sum changes by as much.
LEMMA SumOfChange ==
  ASSUME NEW ps, AllCounted(ps), NEW w \in Wallets, NEW qs, AllCounted(qs), Elsewhere(ps, qs, w)
  PROVE  SumsDiffer(ps, qs, w)
  <1> DEFINE f == [x \in Wallets |-> ps[x].shares]
             g == [x \in Wallets |-> qs[x].shares]
  <1>1. SumOf(ps) = Folded(StartShares, f, Wallets) /\ SumOf(qs) = Folded(StartShares, g, Wallets)
    BY DEF SumOf, Folded
  <1>2. \A x \in Wallets : f[x] \in Number /\ g[x] \in Number
    BY DEF AllCounted
  <1>3. f[w] = ps[w].shares /\ g[w] = qs[w].shares
    OBVIOUS
  <1>4. SameOn(f, g, Wallets \ {w})
    BY DEF SameOn, Elsewhere
  <1> HIDE DEF f, g
  <1>5. StartShares \in Number /\ IsFiniteSet(Wallets)
    BY PoolStarts, AmmAssumption DEF IsPositive, AmmAssumption
  <1>6. \E rest \in Number : Folded(StartShares, f, Wallets) = f[w] ++ rest /\ Folded(StartShares, g, Wallets) = g[w] ++ rest
    BY <1>2, <1>4, <1>5, FoldChange
  <1>7. QED
    BY <1>1, <1>3, <1>6 DEF SumsDiffer

\* Without positions the shares are those of the start.
LEMMA SumOfNone ==
  ASSUME NEW ps, \A w \in Wallets : ps[w] = NoPosition
  PROVE  SumOf(ps) = StartShares
  <1> DEFINE f == [w \in Wallets |-> ps[w].shares]
             G == {T \in SUBSET Wallets : Folded(StartShares, f, T) = StartShares}
  <1>1. SumOf(ps) = Folded(StartShares, f, Wallets)
    BY DEF SumOf, Folded
  <1>2. \A w \in Wallets : f[w] = Zero
    BY DEF NoPosition
  <1>3. IsFiniteSet(Wallets) /\ StartShares \in Number
    BY PoolStarts, AmmAssumption DEF IsPositive, AmmAssumption
  <1> HIDE DEF f
  <1>4. ASSUME NEW T \in SUBSET Wallets, \A U \in SUBSET T : U # T => U \in G
        PROVE  T \in G
    <2> DEFINE e == NextSummand(T)
               r == Folded(StartShares, f, T \ {e})
    <2>1. Folded(StartShares, f, T) = IF T = {} THEN StartShares ELSE f[e] ++ r
      BY <1>3, FS_Subset, FoldStep
    <2>2. T # {} => e \in T /\ T \ {e} \in G
      BY <1>4, NextIn
    <2>3. T # {} => r = StartShares /\ f[e] = Zero
      BY <1>2, <2>2
    <2> HIDE DEF r, e
    <2>4. Zero ++ StartShares = StartShares
      BY <1>3, NothingAdded
    <2>5. QED
      BY <2>1, <2>3, <2>4
  <1>5. Wallets \in G
    <2> HIDE DEF G
    <2>1. QED
      BY <1>3, <1>4, StrongSetInduction
  <1>6. QED
    BY <1>1, <1>5
-----------------------------------------------------------------------------
(* The pool: its invariant *)

\* A position that the pool can pay what it promises.
Held(p, r, t) ==
  /\ IsPositive(p.entryReserveA) /\ IsPositive(p.entryReserveB)
  /\ p.issued \in Number /\ Zero \preceq p.issued
  /\ Funded(p.entryReserveA, p.entryReserveB, p.issued, r["A"], r["B"], t)

PoolShape(r, t, ps) == r \in Reserves /\ t \in Ratio /\ ps \in LPRecords

\* No more shares than positions, as long as they are a number.
SharesCount(t, ps) == t \in Number => AllCounted(ps) /\ t \preceq SumOf(ps)

\* As long as nobody removed more than its position: the pool has all it was
\* given, and can pay every position.
AllHeld(r, t, ps) ==
  t \in Number /\ SumOf(ps) = t =>
    /\ BothPositive(r)
    /\ \A w \in Wallets : Zero \preceq ps[w].shares /\ (ps[w] # NoPosition => Held(ps[w], r, t))

PoolInv(r, t, ps) == PoolShape(r, t, ps) /\ SharesCount(t, ps) /\ AllHeld(r, t, ps)

\* What the invariant says of a pool that nobody took too much from.
LEMMA AllIsPositive ==
  ASSUME NEW r, NEW t, NEW ps, PoolInv(r, t, ps), t \in Number, SumOf(ps) = t
  PROVE  IsPositive(t) /\ BothPositive(r) /\ AllCounted(ps)
  <1>1. AllCounted(ps) /\ BothPositive(r) /\ \A w \in Wallets : Zero \preceq ps[w].shares
    BY DEF PoolInv, SharesCount, AllHeld
  <1>2. QED
    BY <1>1, SumOfPositive

\* The pool the constructor makes.
LEMMA PoolInvStarts ==
  ASSUME NEW r, r = [t \in Tokens |-> IF t = "A" THEN InitialA ELSE InitialB],
         NEW ps, ps = [w \in Wallets |-> NoPosition]
  PROVE  PoolInv(r, StartShares, ps)
  <1>1. BothPositive(r)
    BY PoolStarts DEF BothPositive, Tokens
  <1>2. r \in Reserves
    BY PoolStarts, NumbersAreRatios DEF Reserves, IsPositive
  <1>3. StartShares \in Number /\ StartShares \in Ratio
    BY PoolStarts, NumbersAreRatios DEF IsPositive
  <1>4. NoPosition \in LPRecord /\ NoPosition.shares = Zero
    BY ZeroIs, NumbersAreRatios DEF NoPosition, LPRecord, NaN, Ratio
  <1>5. ps \in LPRecords /\ AllCounted(ps)
    BY <1>4, ZeroIs DEF LPRecords, AllCounted
  <1>6. SumOf(ps) = StartShares
    BY SumOfNone
  <1>7. StartShares \preceq StartShares /\ Zero \preceq Zero
    BY <1>3, Ordered, ZeroIs
  <1>8. \A w \in Wallets : ps[w] = NoPosition /\ Zero \preceq ps[w].shares
    BY <1>4, <1>7
  <1>9. QED
    BY <1>1, <1>2, <1>3, <1>5, <1>6, <1>7, <1>8 DEF PoolInv, PoolShape, SharesCount, AllHeld

\* What stays backed when the pool grows.
LEMMA StaysHeld ==
  ASSUME NEW p, NEW r, NEW t, Held(p, r, t), BothPositive(r), IsPositive(t),
         NEW r1, NEW t1, BothPositive(r1), IsPositive(t1), Grows(r["A"], r["B"], t, r1["A"], r1["B"], t1)
  PROVE  Held(p, r1, t1)
  <1>1. Funded(p.entryReserveA, p.entryReserveB, p.issued, r1["A"], r1["B"], t1)
    BY StaysFunded DEF Held, BothPositive
  <1>2. QED
    BY <1>1 DEF Held

\* A swap.
LEMMA SwapPool ==
  ASSUME NEW r, NEW t, NEW ps, PoolInv(r, t, ps), NEW a \in Ratio, BothPositive(r) => NotNegative(a),
         NEW tok \in Tokens, NEW r1, r1 = SwapOf(r, a, tok)
  PROVE  PoolInv(r1, t, ps)
  <1>1. r \in Reserves
    BY DEF PoolInv, PoolShape
  <1>2. r1 \in Reserves
    BY <1>1, SwapTypes
  <1>3. PoolShape(r1, t, ps) /\ SharesCount(t, ps)
    BY <1>2 DEF PoolInv, PoolShape
  <1>4. ASSUME t \in Number, SumOf(ps) = t
        PROVE  BothPositive(r1) /\ \A w \in Wallets : ps[w] # NoPosition => Held(ps[w], r1, t)
    <2>1. IsPositive(t) /\ BothPositive(r)
      BY <1>4, AllIsPositive
    <2>2. BothPositive(r1) /\ One \preceq (r1["A"] // r["A"]) ** (r1["B"] // r["B"])
      BY <1>1, <2>1, SwapIsFair
    <2>3. (t // t) ** (t // t) = One
      BY <2>1, PositiveIs
    <2>4. Grows(r["A"], r["B"], t, r1["A"], r1["B"], t)
      BY <2>2, <2>3 DEF Grows
    <2>5. ASSUME NEW w \in Wallets, ps[w] # NoPosition PROVE Held(ps[w], r1, t)
      <3>1. Held(ps[w], r, t)
        BY <1>4, <2>5 DEF PoolInv, AllHeld
      <3>2. QED
        BY <2>1, <2>2, <2>4, <3>1, StaysHeld
    <2>6. QED
      BY <2>2, <2>5
  <1>5. QED
    BY <1>3, <1>4 DEF PoolInv, AllHeld

\* Of a deposit, what fits the reserves.
LEMMA FitTypes ==
  ASSUME NEW r \in Reserves, NEW a \in Ratio, NEW b \in Ratio
  PROVE  FitOf(r, a, b) = <<FitOf(r, a, b)[1], FitOf(r, a, b)[2]>> /\ FitOf(r, a, b)[1] \in Ratio /\ FitOf(r, a, b)[2] \in Ratio
  <1> DEFINE ratio == r["B"] // r["A"]
  <1>1. r["A"] \in Ratio /\ r["B"] \in Ratio
    BY DEF Reserves, Tokens
  <1>2. ratio \in Ratio
    BY <1>1, Closed
  <1>3. FitOf(r, a, b) = IF ~(Zero \prec r["A"] /\ Zero \prec r["B"]) THEN <<a, b>>
                         ELSE IF b \prec a ** ratio THEN <<b // ratio, b>> ELSE <<a, a ** ratio>>
    BY DEF FitOf
  <1> HIDE DEF ratio
  <1>4. b // ratio \in Ratio /\ a ** ratio \in Ratio
    BY <1>2, Closed
  <1>5. QED
    BY <1>3, <1>4

\* What is taken of a deposit is in the ratio of the reserves.
LEMMA ActualFits ==
  ASSUME NEW r \in Reserves, BothPositive(r), NEW a \in Ratio, NEW b \in Ratio, Zero \prec a, Zero \prec b,
         NEW c, c = FitOf(r, a, b), c[1] \in Number
  PROVE  IsPositive(c[1]) /\ c[2] = c[1] ** (r["B"] // r["A"])
  <1> DEFINE ratio == r["B"] // r["A"]
             x == r["A"]
             y == r["B"]
  <1>1. IsPositive(x) /\ IsPositive(y) /\ Zero \prec x /\ Zero \prec y
    BY DEF BothPositive, IsPositive
  <1>2. IsPositive(ratio) /\ ratio \in Ratio
    BY <1>1, PositiveIs, NumbersAreRatios DEF IsPositive
  <1>3. c = IF b \prec a ** ratio THEN <<b // ratio, b>> ELSE <<a, a ** ratio>>
    BY <1>1 DEF FitOf
  <1> HIDE DEF ratio
  <1>4. CASE b \prec a ** ratio
    <2>1. c[1] = b // ratio /\ c[2] = b
      BY <1>3, <1>4
    <2>2. b \in Number
      BY <1>2, <2>1, Closed
    <2>3. IsPositive(b)
      BY <2>2 DEF IsPositive
    <2>4. IsPositive(b // ratio)
      BY <1>2, <2>3, PositiveIs
    <2>5. (b // ratio) ** ratio = b
      BY <1>2, <2>3, PositiveIs
    <2>6. QED
      BY <2>1, <2>4, <2>5 DEF ratio
  <1>5. CASE ~(b \prec a ** ratio)
    <2>1. c[1] = a /\ c[2] = a ** ratio
      BY <1>3, <1>5
    <2>2. QED
      BY <2>1 DEF ratio, IsPositive
  <1>6. QED
    BY <1>4, <1>5

\* A deposit leaves a share worth what it was, and is itself backed.
LEMMA DepositIsFair ==
  ASSUME NEW r \in Reserves, BothPositive(r), NEW t, IsPositive(t),
         NEW a \in Ratio, NEW b \in Ratio, Zero \prec a, Zero \prec b,
         NEW c, c = FitOf(r, a, b), c[1] \in Number,
         NEW s, s = IssuedOf(r, t, a, b), NEW r1, r1 = DepositOf(r, a, b), NEW t1, t1 = t ++ s
  PROVE  /\ SameWorth(r["A"], r["B"], t, r1["A"], r1["B"], t1)
         /\ IsPositive(c[1]) /\ IsPositive(c[2]) /\ IsPositive(s) /\ IsPositive(t1)
         /\ BothPositive(r1) /\ Grows(r["A"], r["B"], t, r1["A"], r1["B"], t1)
         /\ Funded(c[1], c[2], s, r1["A"], r1["B"], t1)
  <1> DEFINE x == r["A"]
             y == r["B"]
             x1 == r1["A"]
             y1 == r1["B"]
             d == c[1]
             e == c[2]
  <1>1. IsPositive(d) /\ e = d ** (y // x)
    BY ActualFits
  <1>2. IsPositive(x) /\ IsPositive(y)
    BY DEF BothPositive
  <1>3. t # Zero
    BY PositiveIs
  <1>4. s = (d // x) ** t
    BY <1>3 DEF IssuedOf
  <1>5. x1 = x ++ d /\ y1 = y ++ e
    BY DEF DepositOf, Tokens
  <1> HIDE DEF x, y, x1, y1, d, e
  <1>6. SameWorth(x, y, t, x1, y1, t1) /\ IsPositive(e) /\ IsPositive(s)
    BY <1>1, <1>2, <1>4, <1>5, DepositKeeps
  <1>7. (d ** e) ** Squared(t1) = Squared(s) ** (x1 ** y1) /\ (d ** e) ** Squared(t1) \in Number
    BY <1>1, <1>2, <1>4, <1>5, DepositKeeps
  <1>8. Funded(d, e, s, x1, y1, t1)
    BY <1>7, Ordered DEF Funded
  <1>9. Grows(x, y, t, x1, y1, t1)
    BY <1>6, Ordered DEF SameWorth, Grows
  <1>10. QED
    BY <1>1, <1>6, <1>8, <1>9 DEF SameWorth, BothPositive, x, y, x1, y1, d, e

\* What a deposit makes of the types.
LEMMA DepositTypes ==
  ASSUME NEW r \in Reserves, NEW t \in Ratio, NEW a \in Ratio, NEW b \in Ratio,
         t = Zero => IsSquare(FitOf(r, a, b)[1] ** FitOf(r, a, b)[2])
  PROVE  /\ DepositOf(r, a, b) \in Reserves /\ IssuedOf(r, t, a, b) \in Ratio /\ t ++ IssuedOf(r, t, a, b) \in Ratio
         /\ t # Zero /\ IssuedOf(r, t, a, b) \in Number => FitOf(r, a, b)[1] \in Number
  <1> DEFINE c == FitOf(r, a, b)
             s == IssuedOf(r, t, a, b)
  <1>1. c[1] \in Ratio /\ c[2] \in Ratio
    BY FitTypes
  <1>2. s = IF t = Zero THEN SquareRoot(c[1] ** c[2]) ELSE (c[1] // r["A"]) ** t
    BY DEF IssuedOf
  <1>3. DepositOf(r, a, b) = [k \in Tokens |-> r[k] ++ IF k = "A" THEN c[1] ELSE c[2]]
    BY DEF DepositOf
  <1>4. t = Zero => IsSquare(c[1] ** c[2])
    OBVIOUS
  <1> HIDE DEF c, s
  <1>5. \A k \in Tokens : r[k] ++ (IF k = "A" THEN c[1] ELSE c[2]) \in Ratio
    <2>1. \A k \in Tokens : r[k] \in Ratio
      BY DEF Reserves
    <2>2. \A k \in Tokens : r[k] ++ c[1] \in Ratio /\ r[k] ++ c[2] \in Ratio
      BY <1>1, <2>1, Closed
    <2>3. QED
      BY <2>2
  <1>6. DepositOf(r, a, b) \in Reserves
    BY <1>3, <1>5 DEF Reserves
  <1>7. r["A"] \in Ratio
    BY DEF Reserves, Tokens
  <1>8. /\ (c[1] // r["A"]) ** t \in Ratio /\ ((c[1] // r["A"]) ** t \in Number => c[1] \in Number)
    <2>1. c[1] // r["A"] \in Ratio /\ (c[1] // r["A"] \in Number => c[1] \in Number)
      BY <1>1, <1>7, Closed
    <2> DEFINE q == c[1] // r["A"]
    <2> HIDE DEF q
    <2>2. q \in Ratio
      BY <2>1 DEF q
    <2>3. q ** t \in Ratio /\ (q ** t \in Number => q \in Number)
      BY <2>2, Closed
    <2>4. QED
      BY <2>1, <2>3 DEF q
  <1>9. s \in Ratio
    <2>1. c[1] ** c[2] \in Ratio
      BY <1>1, Closed
    <2>2. t = Zero => SquareRoot(c[1] ** c[2]) \in Ratio
      BY <1>4, <2>1, RootTypes
    <2>3. QED
      BY <1>2, <1>8, <2>2
  <1>10. t ++ s \in Ratio
    BY <1>9, Closed
  <1>11. QED
    BY <1>2, <1>6, <1>8, <1>9, <1>10 DEF c, s

\* A deposit.
LEMMA DepositPool ==
  ASSUME NEW r, NEW t, NEW ps, PoolInv(r, t, ps), NEW a \in Ratio, NEW b \in Ratio, Zero \prec a, Zero \prec b,
         NEW c, c = FitOf(r, a, b), t = Zero => IsSquare(c[1] ** c[2]),
         NEW s, s = IssuedOf(r, t, a, b), NEW r1, r1 = DepositOf(r, a, b), NEW t1, t1 = t ++ s,
         NEW w \in Wallets, NEW ps1, ps1 = [ps EXCEPT ![w] = Position(@.shares ++ s, c, s)]
  PROVE  PoolInv(r1, t1, ps1)
  <1>1. r \in Reserves /\ t \in Ratio /\ ps \in LPRecords
    BY DEF PoolInv, PoolShape
  <1>2. r1 \in Reserves /\ s \in Ratio /\ t1 \in Ratio /\ (t # Zero /\ s \in Number => c[1] \in Number)
    BY <1>1, DepositTypes
  <1>3. c[1] \in Ratio /\ c[2] \in Ratio
    BY <1>1, FitTypes
  <1>4. ps[w].shares \in Ratio /\ ps[w] \in LPRecord
    BY <1>1 DEF LPRecords, LPRecord
  <1>5. ps[w].shares ++ s \in Ratio
    BY <1>2, <1>4, Closed
  <1> DEFINE q == Position(ps[w].shares ++ s, c, s)
  <1>6. /\ q \in LPRecord /\ q.shares = ps[w].shares ++ s
        /\ q.entryReserveA = c[1] /\ q.entryReserveB = c[2] /\ q.issued = s
    BY <1>2, <1>3, <1>5 DEF Position, LPRecord
  <1>7. ps1 = [ps EXCEPT ![w] = q]
    OBVIOUS
  <1> HIDE DEF q
  <1>8. ps1 \in LPRecords /\ ps1[w] = q /\ \A x \in Wallets \ {w} : ps1[x] = ps[x]
    BY <1>1, <1>6, <1>7 DEF LPRecords
  <1>9. PoolShape(r1, t1, ps1)
    BY <1>2, <1>8 DEF PoolShape
  <1>10. ASSUME t1 \in Number
         PROVE  /\ t \in Number /\ s \in Number /\ AllCounted(ps) /\ AllCounted(ps1) /\ t1 \preceq SumOf(ps1)
                /\ SumOf(ps1) = t1 => SumOf(ps) = t
    <2>1. t \in Number /\ s \in Number
      BY <1>1, <1>2, <1>10, Closed
    <2>2. AllCounted(ps) /\ t \preceq SumOf(ps)
      BY <2>1 DEF PoolInv, SharesCount
    <2>3. ps[w].shares \in Number
      BY <2>2 DEF AllCounted
    <2> DEFINE n == ps[w].shares
    <2> HIDE DEF n
    <2>4. n \in Number /\ n ++ s \in Number /\ q.shares = n ++ s
      BY <1>6, <2>1, <2>3, SumCommutes DEF n
    <2>5. AllCounted(ps1)
      BY <1>8, <2>2, <2>4 DEF AllCounted
    <2>6. PICK rest \in Number : SumOf(ps) = n ++ rest /\ SumOf(ps1) = q.shares ++ rest
      <3>1. Elsewhere(ps, ps1, w)
        BY <1>8 DEF Elsewhere
      <3>2. SumsDiffer(ps, ps1, w)
        BY <2>2, <2>5, <3>1, SumOfChange
      <3>3. QED
        BY <1>8, <3>2 DEF n, SumsDiffer
    <2>7. (n ++ s) ++ rest = (n ++ rest) ++ s
      <3>1. (n ++ s) ++ rest = n ++ (s ++ rest) /\ (n ++ rest) ++ s = n ++ (rest ++ s) /\ s ++ rest = rest ++ s
        BY <2>1, <2>4, <2>6, SumAssociates, SumCommutes
      <3>2. QED
        BY <3>1
    <2>8. SumOf(ps1) = SumOf(ps) ++ s
      BY <2>4, <2>6, <2>7
    <2>9. SumOf(ps) \in Number
      BY <2>2, SumOfIs
    <2>10. t ++ s \preceq SumOf(ps) ++ s
      BY <2>1, <2>2, <2>9, SumOrder
    <2>11. SumOf(ps) ++ s = t ++ s => SumOf(ps) = t
      BY <2>1, <2>9, SumCancels
    <2>12. QED
      BY <2>1, <2>2, <2>5, <2>8, <2>10, <2>11
  <1>11. ASSUME t1 \in Number, SumOf(ps1) = t1
         PROVE  /\ BothPositive(r1)
                /\ \A x \in Wallets : Zero \preceq ps1[x].shares /\ (ps1[x] # NoPosition => Held(ps1[x], r1, t1))
    <2>1. t \in Number /\ s \in Number /\ SumOf(ps) = t
      BY <1>10, <1>11
    <2>2. IsPositive(t) /\ BothPositive(r) /\ AllCounted(ps)
      BY <2>1, AllIsPositive
    <2>3. c[1] \in Number
      BY <1>2, <2>1, <2>2, PositiveIs
    <2>4. IsPositive(c[1]) /\ IsPositive(c[2]) /\ IsPositive(s) /\ IsPositive(t1) /\ BothPositive(r1)
      BY <1>1, <2>2, <2>3, DepositIsFair
    <2>5. Grows(r["A"], r["B"], t, r1["A"], r1["B"], t1) /\ Funded(c[1], c[2], s, r1["A"], r1["B"], t1)
      BY <1>1, <2>2, <2>3, DepositIsFair
    <2>6. \A x \in Wallets : Zero \preceq ps[x].shares /\ (ps[x] # NoPosition => Held(ps[x], r, t))
      BY <2>1 DEF PoolInv, AllHeld
    <2>7. Zero \preceq s /\ s \in Number /\ Zero \in Number
      BY <2>4, ZeroIs, Ordered DEF IsPositive
    <2>8. Held(q, r1, t1)
      BY <1>6, <2>4, <2>5, <2>7 DEF Held
    <2>9. Zero \preceq q.shares
      <3>1. ps[w].shares \in Number /\ Zero \preceq ps[w].shares
        BY <2>2, <2>6 DEF AllCounted
      <3> DEFINE n == ps[w].shares
      <3> HIDE DEF n
      <3>2. n \in Number /\ Zero \preceq n /\ n ++ s \in Number
        BY <2>7, <3>1, SumCommutes DEF n
      <3>3. Zero ++ s \preceq n ++ s /\ Zero ++ s = s
        BY <2>7, <3>2, SumOrder, NothingAdded
      <3>4. Zero \preceq n ++ s
        BY <2>7, <3>2, <3>3, Ordered
      <3>5. QED
        BY <1>6, <3>4 DEF n
    <2>10. ASSUME NEW x \in Wallets, x # w PROVE Zero \preceq ps1[x].shares /\ (ps1[x] # NoPosition => Held(ps1[x], r1, t1))
      <3>1. ps1[x] = ps[x]
        BY <1>8, <2>10
      <3>2. ps[x] # NoPosition => Held(ps[x], r1, t1)
        BY <2>2, <2>4, <2>5, <2>6, StaysHeld
      <3>3. QED
        BY <2>6, <3>1, <3>2
    <2>11. QED
      BY <1>8, <2>4, <2>8, <2>9, <2>10
  <1>12. QED
    BY <1>9, <1>10, <1>11 DEF PoolInv, SharesCount, AllHeld

\* What a removal makes of the types.
LEMMA RemovalTypes ==
  ASSUME NEW r \in Reserves, NEW t \in Ratio, NEW s \in Ratio
  PROVE  RemovalOf(r, t, s) \in Reserves /\ t -- s \in Ratio
  <1>1. \A x \in Tokens : r[x] \in Ratio
    BY DEF Reserves
  <1>2. \A x \in Tokens : r[x] -- ((s // t) ** r[x]) \in Ratio
    BY <1>1, Closed
  <1>3. QED
    BY <1>2, Closed DEF RemovalOf, Reserves

\* A removal that leaves shares leaves each of them what it had.
LEMMA RemovalIsFair ==
  ASSUME NEW r \in Reserves, BothPositive(r), NEW t, IsPositive(t), NEW s, IsPositive(s),
         NEW r1, r1 = RemovalOf(r, t, s), NEW t1, t1 = t -- s, Zero \prec t1
  PROVE  /\ SameWorth(r["A"], r["B"], t, r1["A"], r1["B"], t1)
         /\ BothPositive(r1) /\ IsPositive(t1) /\ Grows(r["A"], r["B"], t, r1["A"], r1["B"], t1)
  <1> DEFINE x == r["A"]
             y == r["B"]
             x1 == r1["A"]
             y1 == r1["B"]
  <1>1. IsPositive(x) /\ IsPositive(y)
    BY DEF BothPositive
  <1>2. x1 = x -- ((s // t) ** x) /\ y1 = y -- ((s // t) ** y)
    BY DEF RemovalOf, Tokens
  <1> HIDE DEF x, y, x1, y1
  <1>3. SameWorth(x, y, t, x1, y1, t1)
    BY <1>1, <1>2, RemovalKeeps
  <1>4. Grows(x, y, t, x1, y1, t1)
    BY <1>3, Ordered DEF SameWorth, Grows
  <1>5. QED
    BY <1>3, <1>4 DEF SameWorth, BothPositive, x, y, x1, y1

\* What is left of the position of one who removes shares.
LeftOf(p, s) ==
  LET left == p.shares -- s
  IN IF p = NoPosition THEN p ELSE IF left \preceq Zero THEN NoPosition ELSE [p EXCEPT !.shares = left]

\* A position is left alone, removed, or smaller by the shares removed.
LEMMA LeftOfIs ==
  ASSUME NEW p \in LPRecord, NEW s \in Ratio, NEW q, q = LeftOf(p, s)
  PROVE  /\ q \in LPRecord
         /\ \/ p = NoPosition /\ q = NoPosition
            \/ p # NoPosition /\ q = NoPosition /\ p.shares -- s \preceq Zero
            \/ /\ p # NoPosition /\ ~(p.shares -- s \preceq Zero) /\ q.shares = p.shares -- s
               /\ q.entryReserveA = p.entryReserveA /\ q.entryReserveB = p.entryReserveB /\ q.issued = p.issued
  <1> DEFINE left == p.shares -- s
  <1>1. left \in Ratio
    BY Closed DEF LPRecord
  <1>2. q = IF p = NoPosition THEN p ELSE IF left \preceq Zero THEN NoPosition ELSE [p EXCEPT !.shares = left]
    BY DEF LeftOf
  <1>3. NoPosition \in LPRecord
    BY ZeroIs, NumbersAreRatios DEF NoPosition, LPRecord, NaN, Ratio
  <1> HIDE DEF left
  <1>4. /\ [p EXCEPT !.shares = left] \in LPRecord
        /\ [p EXCEPT !.shares = left].shares = left
        /\ [p EXCEPT !.shares = left].entryReserveA = p.entryReserveA
        /\ [p EXCEPT !.shares = left].entryReserveB = p.entryReserveB
        /\ [p EXCEPT !.shares = left].issued = p.issued
    BY <1>1 DEF LPRecord
  <1>5. CASE p = NoPosition
    BY <1>2, <1>5
  <1>6. CASE p # NoPosition /\ left \preceq Zero
    BY <1>2, <1>3, <1>6 DEF left
  <1>7. CASE p # NoPosition /\ ~(left \preceq Zero)
    <2>1. q = [p EXCEPT !.shares = left]
      BY <1>2, <1>7
    <2>2. QED
      BY <1>4, <1>7, <2>1 DEF left
  <1>8. QED
    BY <1>5, <1>6, <1>7

\* A removal, of whatever shares are asked for.
LEMMA RemovePool ==
  ASSUME NEW r, NEW t, NEW ps, PoolInv(r, t, ps), NEW s \in Ratio, Zero \prec s,
         NEW r1, r1 = RemovalOf(r, t, s), NEW t1, t1 = t -- s,
         NEW w \in Wallets, NEW ps1, ps1 = [ps EXCEPT ![w] = LeftOf(ps[w], s)]
  PROVE  PoolInv(r1, t1, ps1)
  <1>1. r \in Reserves /\ t \in Ratio /\ ps \in LPRecords
    BY DEF PoolInv, PoolShape
  <1>2. r1 \in Reserves /\ t1 \in Ratio
    BY <1>1, RemovalTypes
  <1> DEFINE p == ps[w]
             q == LeftOf(ps[w], s)
  <1>3. p \in LPRecord
    BY <1>1 DEF LPRecords
  <1>4. /\ q \in LPRecord
        /\ \/ p = NoPosition /\ q = NoPosition
           \/ p # NoPosition /\ q = NoPosition /\ p.shares -- s \preceq Zero
           \/ /\ p # NoPosition /\ ~(p.shares -- s \preceq Zero) /\ q.shares = p.shares -- s
              /\ q.entryReserveA = p.entryReserveA /\ q.entryReserveB = p.entryReserveB /\ q.issued = p.issued
    BY <1>3, LeftOfIs
  <1>5. ps1 \in LPRecords /\ ps1[w] = q /\ \A x \in Wallets \ {w} : ps1[x] = ps[x]
    <2>1. q \in LPRecord
      BY <1>4
    <2> HIDE DEF q
    <2>2. ps1 = [ps EXCEPT ![w] = q]
      BY DEF q
    <2>3. QED
      BY <1>1, <2>1, <2>2 DEF LPRecords
  <1> HIDE DEF p, q
  <1>6. PoolShape(r1, t1, ps1)
    BY <1>2, <1>5 DEF PoolShape
  <1>7. NoPosition.shares = Zero /\ Zero \in Number
    BY ZeroIs DEF NoPosition
  <1>8. ASSUME t1 \in Number
        PROVE  /\ IsPositive(s) /\ t \in Number /\ AllCounted(ps) /\ AllCounted(ps1) /\ t1 \preceq SumOf(ps1)
               /\ SumOf(ps1) = t1 => SumOf(ps) = t /\ p # NoPosition /\ (q = NoPosition \/ Zero \preceq q.shares)
    <2>1. t \in Number /\ s \in Number /\ IsPositive(s)
      BY <1>1, <1>8, Closed DEF IsPositive
    <2>2. AllCounted(ps) /\ t \preceq SumOf(ps)
      BY <2>1 DEF PoolInv, SharesCount
    <2> DEFINE n == p.shares
               m == q.shares
               l == n -- s
    <2>3. n \in Number
      BY <2>2 DEF AllCounted, p
    <2>4. l \in Number
      BY <2>1, <2>3, SubtractIs
    <2>5. m \in Number /\ l \preceq m /\ (p = NoPosition => m # l) /\ (q = NoPosition \/ Zero \preceq m)
      <3>1. CASE p = NoPosition /\ q = NoPosition
        <4>1. n = Zero /\ m = Zero
          BY <1>7, <3>1
        <4> HIDE DEF n, m
        <4>2. l ++ s = Zero /\ Zero ++ s = s /\ l ++ Zero = l /\ s ++ Zero = s
          BY <1>7, <2>1, <2>3, <2>4, <4>1, SubtractIs, NothingAdded
        <4> HIDE DEF l
        <4>3. l ++ Zero \preceq l ++ s
          <5>1. Zero \preceq s
            BY <1>7, <2>1, Ordered DEF IsPositive
          <5>2. Zero ++ l \preceq s ++ l /\ Zero ++ l = l ++ Zero /\ s ++ l = l ++ s
            BY <1>7, <2>1, <2>4, <5>1, SumOrder, SumCommutes
          <5>3. QED
            BY <5>2
        <4>4. l # Zero
          <5>1. s # Zero
            BY <2>1, PositiveIs
          <5>2. QED
            BY <4>2, <5>1
        <4>5. QED
          BY <1>7, <3>1, <4>1, <4>2, <4>3, <4>4
      <3>2. CASE p # NoPosition /\ q = NoPosition /\ l \preceq Zero
        BY <1>7, <3>2
      <3>3. CASE p # NoPosition /\ ~(l \preceq Zero) /\ m = l
        <4> HIDE DEF l, m, n
        <4>1. l \preceq l /\ Zero \preceq l
          BY <1>7, <2>4, <3>3, Ordered
        <4>2. QED
          BY <2>4, <3>3, <4>1
      <3>4. QED
        BY <1>4, <3>1, <3>2, <3>3
    <2>6. AllCounted(ps1)
      BY <1>5, <2>2, <2>5 DEF AllCounted
    <2>7. \E rest \in Number : SumOf(ps) = n ++ rest /\ SumOf(ps1) = m ++ rest
      <3>1. Elsewhere(ps, ps1, w)
        BY <1>5 DEF Elsewhere
      <3>2. SumsDiffer(ps, ps1, w)
        BY <2>2, <2>6, <3>1, SumOfChange
      <3>3. QED
        BY <1>5, <3>2 DEF p, SumsDiffer
    <2> HIDE DEF n, m, l
    <2>8. PICK rest \in Number : SumOf(ps) = n ++ rest /\ SumOf(ps1) = m ++ rest
      BY <2>7
    <2>9. SumOf(ps) \in Number /\ SumOf(ps1) \in Number /\ l ++ rest \in Number
      BY <2>2, <2>4, <2>6, <2>8, SumOfIs, SumCommutes
    <2>10. (n ++ rest) -- s = l ++ rest
      BY <2>1, <2>3, <2>8, SubtractOrder DEF l
    <2>11. t1 \preceq l ++ rest /\ (l ++ rest = t1 => SumOf(ps) = t)
      BY <2>1, <2>2, <2>8, <2>9, <2>10, SubtractOrder
    <2>12. l ++ rest \preceq SumOf(ps1)
      BY <2>4, <2>5, <2>8, SumOrder
    <2>13. t1 \preceq SumOf(ps1)
      BY <1>8, <2>9, <2>11, <2>12, Ordered
    <2>14. ASSUME SumOf(ps1) = t1 PROVE l ++ rest = t1 /\ m = l
      <3>1. l ++ rest = t1
        BY <1>8, <2>9, <2>11, <2>12, <2>14, Ordered
      <3>2. m ++ rest = l ++ rest
        BY <2>8, <2>14, <3>1
      <3>3. QED
        BY <2>4, <2>5, <2>8, <3>1, <3>2, SumCancels
    <2>15. QED
      BY <2>1, <2>2, <2>5, <2>6, <2>11, <2>13, <2>14 DEF m
  <1>9. ASSUME t1 \in Number, SumOf(ps1) = t1
        PROVE  /\ BothPositive(r1)
               /\ \A x \in Wallets : Zero \preceq ps1[x].shares /\ (ps1[x] # NoPosition => Held(ps1[x], r1, t1))
    <2>1. t \in Number /\ IsPositive(s) /\ SumOf(ps) = t /\ AllCounted(ps1) /\ (q = NoPosition \/ Zero \preceq q.shares)
      BY <1>8, <1>9
    <2>2. IsPositive(t) /\ BothPositive(r)
      BY <2>1, AllIsPositive
    <2>3. \A x \in Wallets : Zero \preceq ps[x].shares /\ (ps[x] # NoPosition => Held(ps[x], r, t))
      BY <2>1 DEF PoolInv, AllHeld
    <2>4. Zero \preceq Zero
      BY <1>7, Ordered
    <2>5. \A x \in Wallets : Zero \preceq ps1[x].shares
      BY <1>5, <1>7, <2>1, <2>3, <2>4
    <2>6. Zero \prec t1
      BY <1>9, <2>1, <2>5, SumOfPositive DEF IsPositive
    <2>7. BothPositive(r1) /\ IsPositive(t1) /\ Grows(r["A"], r["B"], t, r1["A"], r1["B"], t1)
      BY <1>1, <2>1, <2>2, <2>6, RemovalIsFair
    <2>8. ASSUME NEW x \in Wallets, ps[x] # NoPosition PROVE Held(ps[x], r1, t1)
      BY <2>2, <2>3, <2>7, <2>8, StaysHeld
    <2>9. q # NoPosition => Held(q, r1, t1)
      <3>1. p # NoPosition => Held(p, r1, t1)
        BY <2>8 DEF p
      <3>2. q # NoPosition => p # NoPosition /\ q.entryReserveA = p.entryReserveA /\ q.entryReserveB = p.entryReserveB /\ q.issued = p.issued
        BY <1>4
      <3>3. QED
        BY <3>1, <3>2 DEF Held
    <2>10. \A x \in Wallets : ps1[x] # NoPosition => Held(ps1[x], r1, t1)
      BY <1>5, <2>8, <2>9
    <2>11. QED
      BY <2>5, <2>7, <2>10
  <1>10. QED
    BY <1>6, <1>8, <1>9 DEF PoolInv, SharesCount, AllHeld
-----------------------------------------------------------------------------
(* The steps of the pool *)

PoolInvNow == PoolInv(reserve, totalLiquidity, lpPositions)

\* What changes the pool: requests with amounts that are numbers, infinite or NaN,
\* and swaps of numbers.
PoolStep ==
  \/ \E a \in Number, t \in Tokens : Swap(a, t)
  \/ \E w \in Wallets, a \in Ratio, b \in Ratio : AddLiquidity(w, a, b)
  \/ \E w \in Wallets, s \in Ratio : RemoveLiquidity(w, s)
  \/ \E w \in Wallets, o \in Orders : HybridOrder(w, o)
  \/ UNCHANGED ammVars

\* The pool of the API swaps in this way.
LEMMA SwappedIs ==
  ASSUME NEW a, NEW t PROVE Swapped(a, t) = SwapOf(reserve, a, t)
  BY DEF Swapped, SwapOf, AmountOut, AmountOf, PaidOut, AfterFee

\* Half a unit of toFixed.
LEMMA HalfIs == Is(Half, 1, 2 * Precision) /\ IsPositive(Half) /\ Precision \in Nat \ {0}
  <1>1. Precision \in Nat \ {0}
    BY AmmAssumption DEF AmmAssumption
  <1>2. 2 * Precision \in Nat \ {0}
    BY <1>1
  <1>3. Is(Half, 1, 2 * Precision)
    BY <1>2, ReduceIs DEF Half, Frac
  <1>4. QED
    BY <1>1, <1>2, <1>3, IsPositiveForm

\* What toFixed gives is a number where its argument is one.
LEMMA FixedTypes == ASSUME NEW x \in Ratio PROVE toFixed(x) \in Ratio
  <1>1. CASE ~IsNumber(x)
    BY <1>1 DEF toFixed
  <1>2. CASE IsNumber(x)
    <2> DEFINE n == x[1]
               d == x[2]
               k == (2 * Abs(n) * Precision + d) \div (2 * d)
    <2>1. n \in Int /\ d \in Nat \ {0} /\ Precision \in Nat \ {0}
      BY <1>2, RatioIs, NumberIs, HalfIs
    <2>2. toFixed(x) = Frac(SignOf(n) * k, Precision)
      BY <1>2 DEF toFixed
    <2>3. SignOf(n) * k \in Int
      <3> HIDE DEF n, d
      <3>1. Abs(n) \in Int /\ SignOf(n) \in Int
        BY <2>1 DEF Abs, SignOf
      <3>2. 2 * Abs(n) * Precision + d \in Int /\ 2 * d \in Nat \ {0}
        BY <2>1, <3>1
      <3>3. k \in Int
        BY <3>2, DivisionIs
      <3> HIDE DEF k
      <3>4. QED
        BY <3>1, <3>3
    <2> HIDE DEF n, d, k
    <2>4. <<SignOf(n) * k, Precision>> \in Fraction
      BY <2>1, <2>3 DEF Fraction
    <2>5. QED
      BY <2>2, <2>4, ReduceRatio DEF Frac
  <1>3. QED
    BY <1>1, <1>2

\* It is not negative where its argument is not, and no more than half a unit above.
LEMMA FixedIs ==
  ASSUME NEW x, NotNegative(x) PROVE NotNegative(toFixed(x)) /\ toFixed(x) \preceq x ++ Half
  <1> DEFINE n == x[1]
             d == x[2]
             P == Precision
             k == (2 * n * P + d) \div (2 * d)
  <1>1. x \in Number /\ n \in Int /\ d \in Nat \ {0} /\ Is(x, n, d) /\ IsNumber(x)
    BY NumberIs DEF NotNegative
  <1>2. n \in Nat /\ P \in Nat \ {0}
    BY <1>1, SignIs, HalfIs DEF NotNegative
  <1> HIDE DEF n, d, P
  <1>3. k \in Nat /\ k * (2 * d) <= 2 * n * P + d
    <2> DEFINE m == 2 * n * P + d
               e == 2 * d
    <2>1. m \in Nat /\ e \in Nat \ {0}
      BY <1>1, <1>2
    <2>2. m \div e \in Nat /\ m % e \in Nat /\ m = (m \div e) * e + (m % e)
      BY <2>1, DivisionIs
    <2> DEFINE q == m \div e
               r == m % e
    <2>3. q \in Nat /\ r \in Nat /\ m = q * e + r
      BY <2>2
    <2> HIDE DEF m, e, q, r
    <2>4. q * e <= m
      BY <2>1, <2>3
    <2>5. QED
      BY <2>3, <2>4 DEF m, e, q
  <1>4. \E j \in Nat : toFixed(x) = Frac(j, P) /\ j * (2 * d) <= 2 * n * P + d
    <2>1. toFixed(x) = Frac(SignOf(n) * ((2 * Abs(n) * P + d) \div (2 * d)), P)
      BY <1>1 DEF toFixed, n, d, P
    <2>2. CASE n = 0
      <3>1. SignOf(n) = 0 /\ Abs(n) = 0
        BY <2>2 DEF SignOf, Abs
      <3>2. (2 * 0 * P + d) \div (2 * d) \in Int
        <4>1. 2 * 0 * P + d \in Int /\ 2 * d \in Nat \ {0}
          BY <1>1, <1>2
        <4>2. QED
          BY <4>1, DivisionIs
      <3>3. SignOf(n) * ((2 * Abs(n) * P + d) \div (2 * d)) = 0
        BY <3>1, <3>2
      <3>4. 0 * (2 * d) <= 2 * n * P + d
        BY <1>1, <1>2, <2>2
      <3>5. QED
        BY <2>1, <3>3, <3>4
    <2>3. CASE n > 0
      <3>1. SignOf(n) = 1 /\ Abs(n) = n
        BY <1>2, <2>3 DEF SignOf, Abs
      <3>2. SignOf(n) * ((2 * Abs(n) * P + d) \div (2 * d)) = 1 * k
        BY <3>1
      <3> HIDE DEF k
      <3>3. 1 * k = k
        BY <1>3
      <3>4. QED
        BY <1>3, <2>1, <3>2, <3>3
    <2>4. QED
      BY <1>2, <2>2, <2>3
  <1> HIDE DEF k
  <1>5. PICK j \in Nat : toFixed(x) = Frac(j, P) /\ j * (2 * d) <= 2 * n * P + d
    BY <1>4
  <1>6. Is(toFixed(x), j, P)
    <2>1. j \in Int /\ P \in Int \ {0}
      BY <1>2
    <2>2. QED
      BY <1>5, <2>1, ReduceIs DEF Frac
  <1>7. Is(x ++ Half, n * (2 * P) + 1 * d, d * (2 * P))
    BY <1>1, HalfIs, SumIs DEF P
  <1>8. NotNegative(toFixed(x))
    BY <1>2, <1>6, SignIs DEF Is, NotNegative
  <1>9. toFixed(x) \preceq x ++ Half
    <2>1. P > 0 /\ d * (2 * P) > 0
      BY <1>1, <1>2
    <2>2. j * (d * (2 * P)) <= (n * (2 * P) + 1 * d) * P
      <3> DEFINE u == j * (2 * d)
                 v == 2 * n * P + d
      <3>1. u \in Int /\ v \in Int /\ u <= v
        BY <1>1, <1>2, <1>5
      <3>2. j * (d * (2 * P)) = u * P /\ (n * (2 * P) + 1 * d) * P = v * P
        BY <1>1, <1>2
      <3> HIDE DEF u, v
      <3>3. u * P <= v * P
        BY <1>2, <3>1
      <3>4. QED
        BY <3>2, <3>3
    <2>3. QED
      BY <1>6, <1>7, <2>1, <2>2, BelowIs
  <1>10. QED
    BY <1>8, <1>9

\* What was rounded up, divided by the price it was multiplied with.
LEMMA DividedBack ==
  ASSUME NEW p, IsPositive(p), NEW u \in Number, NEW w \in Number, NEW h \in Number, w \preceq (u ** p) ++ h
  PROVE  w // p \in Number /\ h // p \in Number /\ w // p \preceq u ++ (h // p)
  <1>1. PICK A \in Nat \ {0}, B \in Nat \ {0} : Is(p, A, B)
    BY PositiveForm
  <1>2. PICK a \in Int, b \in Nat \ {0} : Is(u, a, b)
    BY HasForm
  <1>3. PICK c \in Int, d \in Nat \ {0} : Is(w, c, d)
    BY HasForm
  <1>4. PICK e \in Int, f \in Nat \ {0} : Is(h, e, f)
    BY HasForm
  <1>5. Is((u ** p) ++ h, (a * A) * f + e * (b * B), (b * B) * f)
    BY <1>1, <1>2, <1>4, ProductIs, SumIs
  <1>6. Is(w // p, c * B, d * A) /\ Is(h // p, e * B, f * A)
    BY <1>1, <1>3, <1>4, QuotientIs
  <1>7. Is(u ++ (h // p), a * (f * A) + (e * B) * b, b * (f * A))
    BY <1>2, <1>6, SumIs
  <1>8. d > 0 /\ (b * B) * f > 0 /\ d * A > 0 /\ b * (f * A) > 0
    <2>1. b * B > 0 /\ f * A > 0 /\ d * A > 0 /\ d > 0
      BY <1>1, <1>2, <1>3, <1>4
    <2>2. QED
      BY <1>2, <1>4, <2>1
  <1> DEFINE S == (a * A) * f + e * (b * B)
             T == c * ((b * B) * f)
             D == (b * B) * f
  <1>9. T \in Int /\ S \in Int /\ T <= S * d
    <2>1. S \in Int /\ T \in Int
      BY <1>1, <1>2, <1>3, <1>4
    <2>2. T = c * D /\ Is((u ** p) ++ h, S, D) /\ D > 0 /\ d > 0
      BY <1>5, <1>8
    <2> HIDE DEF S, T, D
    <2>3. c * D <= S * d
      BY <1>3, <2>2, BelowIs
    <2>4. QED
      BY <2>1, <2>2, <2>3
  <1>10. (c * B) * (b * (f * A)) = T * A /\ (a * (f * A) + (e * B) * b) * (d * A) = (S * d) * A
    BY <1>1, <1>2, <1>3, <1>4
  <1> HIDE DEF S, T
  <1>11. T * A <= (S * d) * A
    <2> DEFINE R == S * d
    <2>1. R \in Int /\ T <= R
      BY <1>9
    <2> HIDE DEF R
    <2>2. T * A <= R * A
      BY <1>1, <1>9, <2>1
    <2>3. QED
      BY <2>2 DEF R
  <1>12. w // p \preceq u ++ (h // p)
    <2> DEFINE m == c * B
               M == d * A
               q == a * (f * A) + (e * B) * b
               Q == b * (f * A)
    <2>1. Is(w // p, m, M) /\ Is(u ++ (h // p), q, Q) /\ M > 0 /\ Q > 0 /\ m * Q <= q * M
      BY <1>6, <1>7, <1>8, <1>10, <1>11
    <2> HIDE DEF m, M, q, Q
    <2>2. QED
      BY <2>1, BelowIs
  <1>13. QED
    BY <1>6, <1>12 DEF Is

\* What the order route swaps for a market order, what the pool gives it, and by how
\* much its amounts are rounded up.
RemainderOf(r, o) ==
  LET unfilled == toFixed(o.quantity -- o.filled)
  IN IF o.side = "buy" THEN toFixed(unfilled ** (r["B"] // r["A"])) ELSE unfilled
GivenOf(r, o) == IF o.side = "buy" THEN AmountOf(r, RemainderOf(r, o), "B") ELSE RemainderOf(r, o)
SlackOf(r, side) == IF side = "buy" THEN Half ++ (Half // (r["B"] // r["A"])) ELSE Half

\* What is rounded up by no more than s, beside what was filled.
LEMMA RoundedUp ==
  ASSUME NEW f \in Number, NEW n \in Number, NEW v \in Number, NEW s \in Number, v \preceq (n -- f) ++ s
  PROVE  f ++ v \preceq n ++ s
  <1> DEFINE r == n -- f
  <1>1. r \in Number /\ r ++ f = n
    BY SubtractIs
  <1> HIDE DEF r
  <1>2. v ++ f \preceq (r ++ s) ++ f
    BY <1>1, SumOrder, SumCommutes DEF r
  <1>3. (r ++ s) ++ f = n ++ s
    <2>1. (r ++ s) ++ f = r ++ (s ++ f) /\ s ++ f = f ++ s /\ r ++ (f ++ s) = (r ++ f) ++ s
      BY <1>1, SumAssociates, SumCommutes
    <2>2. QED
      BY <1>1, <2>1
  <1>4. v ++ f = f ++ v
    BY SumCommutes
  <1>5. QED
    BY <1>2, <1>3, <1>4

\* The pool gives no more for an amount than that is worth at the price of its
\* reserves, and nothing for nothing.
LEMMA GivesNoMore ==
  ASSUME NEW x, IsPositive(x), NEW y, IsPositive(y), NEW w, NotNegative(w)
  PROVE  LET out == PaidOut(y, x, AfterFee(w, Fee)) IN out \in Number /\ out \preceq w // (y // x)
  <1> DEFINE p == y // x
             out == PaidOut(y, x, AfterFee(w, Fee))
  <1>1. IsPositive(p) /\ p \in Number
    BY PositiveIs DEF IsPositive
  <1>2. CASE w = Zero
    <2>1. out = Zero
      BY <1>2, NothingPaidOut DEF IsPositive
    <2> HIDE DEF p, out
    <2>2. w // p = Zero /\ Zero \in Number /\ Zero \preceq Zero
      BY <1>1, <1>2, NothingIs, ZeroIs, Ordered
    <2>3. QED
      BY <2>1, <2>2 DEF p, out
  <1>3. CASE IsPositive(w)
    <2>1. IsPositive(w // p) /\ (w // p) ** p = w
      BY <1>1, <1>3, PositiveIs
    <2>2. LET given == PaidOut(y, x, AfterFee((w // p) ** p, Fee)) IN given \in Number /\ given \preceq w // p
      BY <2>1, FeeIs, NeverTooMuch
    <2>3. QED
      BY <2>1, <2>2
  <1>4. QED
    BY <1>2, <1>3, NotNegativeIs DEF NotNegative

\* What a market order swaps is not negative, and the pool gives no more than what
\* the order asks for and what was rounded up.
LEMMA RemainderIs ==
  ASSUME NEW k, BothPositive(k), NEW o, o.filled \in Number, o.quantity \in Number, o.filled \prec o.quantity
  PROVE  NotNegative(RemainderOf(k, o)) /\ o.filled ++ GivenOf(k, o) \preceq o.quantity ++ SlackOf(k, o.side)
  <1> DEFINE f == o.filled
             n == o.quantity
             r == n -- f
             u == toFixed(r)
             x == k["A"]
             y == k["B"]
             p == y // x
             w == toFixed(u ** p)
  <1>1. f \in Number /\ n \in Number /\ f \prec n
    OBVIOUS
  <1>2. IsPositive(x) /\ IsPositive(y)
    BY DEF BothPositive
  <1>3. /\ RemainderOf(k, o) = IF o.side = "buy" THEN w ELSE u
        /\ GivenOf(k, o) = IF o.side = "buy" THEN PaidOut(y, x, AfterFee(w, Fee)) ELSE u
        /\ SlackOf(k, o.side) = IF o.side = "buy" THEN Half ++ (Half // p) ELSE Half
    BY DEF RemainderOf, GivenOf, SlackOf, AmountOf, OtherToken
  <1> HIDE DEF f, n, x, y
  <1>4. r \in Number /\ r ++ f = n
    BY <1>1, SubtractIs
  <1>5. NotNegative(r)
    <2> HIDE DEF r
    <2>1. Zero ++ f \prec r ++ f
      BY <1>1, <1>4, NothingAdded
    <2>2. Zero \prec r
      BY <1>1, <1>4, <2>1, ZeroIs, SumOrder
    <2>3. QED
      BY <1>4, <2>2, ZeroIs, Ordered DEF NotNegative
  <1>6. NotNegative(u) /\ u \preceq r ++ Half
    <2> HIDE DEF r
    <2>1. QED
      BY <1>5, FixedIs
  <1>7. IsPositive(p)
    BY <1>2, PositiveIs
  <1> HIDE DEF u, p
  <1>8. u \in Number /\ p \in Number /\ Half \in Number
    BY <1>6, <1>7, HalfIs DEF NotNegative, IsPositive
  <1>9. NotNegative(u ** p)
    <2>1. CASE u = Zero
      BY <1>8, <2>1, NothingIs, ZeroIs, Ordered DEF NotNegative
    <2>2. CASE IsPositive(u)
      <3>1. IsPositive(u ** p)
        BY <1>7, <2>2, PositiveIs
      <3>2. QED
        BY <3>1, ZeroIs, Ordered DEF NotNegative, IsPositive
    <2>3. QED
      BY <1>6, <1>8, <2>1, <2>2, NotNegativeIs
  <1>10. NotNegative(w) /\ w \preceq (u ** p) ++ Half
    BY <1>9, FixedIs
  <1> HIDE DEF w, r
  <1>11. f ++ u \preceq n ++ Half
    BY <1>1, <1>6, <1>8, RoundedUp DEF r
  <1>12. f ++ PaidOut(y, x, AfterFee(w, Fee)) \preceq n ++ (Half ++ (Half // p))
    <2> DEFINE out == PaidOut(y, x, AfterFee(w, Fee))
               h == Half // p
    <2>1. out \in Number /\ out \preceq w // p
      BY <1>2, <1>10, GivesNoMore DEF p
    <2>2. w // p \in Number /\ h \in Number /\ w // p \preceq u ++ h
      BY <1>7, <1>8, <1>10, DividedBack DEF NotNegative
    <2> HIDE DEF out, h
    <2>3. u ++ h \preceq (r ++ Half) ++ h /\ (r ++ Half) ++ h = r ++ (Half ++ h)
      BY <1>4, <1>6, <1>8, <2>2, SumOrder, SumAssociates, SumCommutes
    <2>4. u ++ h \in Number /\ Half ++ h \in Number /\ r ++ (Half ++ h) \in Number
      BY <1>4, <1>8, <2>2, SumCommutes
    <2>5. out \preceq u ++ h
      BY <2>1, <2>2, <2>4, Ordered
    <2>6. out \preceq r ++ (Half ++ h)
      BY <2>1, <2>3, <2>4, <2>5, Ordered
    <2>7. f ++ out \preceq n ++ (Half ++ h)
      BY <1>1, <2>1, <2>4, <2>6, RoundedUp DEF r
    <2>8. QED
      BY <2>7 DEF out, h
  <1>13. QED
    BY <1>3, <1>6, <1>10, <1>11, <1>12 DEF f, n

\* What it swaps is a number, an infinity or NaN, whatever the reserves.
LEMMA RemainderTypes ==
  ASSUME NEW r \in Reserves, NEW o, o.filled \in Number, o.quantity \in Number PROVE RemainderOf(r, o) \in Ratio
  <1> DEFINE u == toFixed(o.quantity -- o.filled)
             p == r["B"] // r["A"]
  <1>1. u \in Ratio
    BY NumbersAreRatios, Closed, FixedTypes
  <1>2. p \in Ratio
    BY Closed DEF Reserves, Tokens
  <1>3. RemainderOf(r, o) = IF o.side = "buy" THEN toFixed(u ** p) ELSE u
    BY DEF RemainderOf
  <1> HIDE DEF u, p
  <1>4. toFixed(u ** p) \in Ratio
    BY <1>1, <1>2, Closed, FixedTypes
  <1>5. QED
    BY <1>1, <1>3, <1>4

\* So it is for the orders of the API.
LEMMA PoolInIs ==
  ASSUME NEW o \in Orders, o.filled \prec o.quantity
  PROVE  /\ reserve \in Reserves => PoolIn(o) \in Ratio
         /\ BothPositive(reserve) =>
              NotNegative(PoolIn(o)) /\ o.filled ++ PoolFill(o) \preceq o.quantity ++ Slack(o.side)
  <1>1. o.filled \in Number /\ o.quantity \in Number
    BY AmmAssumption, FiniteIs DEF AmmAssumption
  <1>2. PoolIn(o) = RemainderOf(reserve, o)
    BY DEF PoolIn, RemainderOf, SpotPrice
  <1>3. PoolFill(o) = GivenOf(reserve, o)
    BY <1>2 DEF PoolFill, GivenOf, AmountOut, AmountOf, PaidOut, AfterFee
  <1>4. Slack(o.side) = SlackOf(reserve, o.side)
    BY DEF Slack, SlackOf, SpotPrice
  <1>5. QED
    BY <1>1, <1>2, <1>3, <1>4, RemainderIs, RemainderTypes

\* Positive, as the code tests it.
LEMMA PositiveTest == ASSUME NEW x \in Ratio PROVE Positive(x) <=> IsPositive(x)
  BY RatioIs DEF Positive, IsPositive

\* Sound, in terms of positive numbers.
LEMMA SoundIs ==
  ASSUME PoolInvNow
  PROVE  Sound <=> BothPositive(reserve) /\ IsPositive(totalLiquidity)
  <1>1. reserve["A"] \in Ratio /\ reserve["B"] \in Ratio /\ totalLiquidity \in Ratio
    BY DEF PoolInvNow, PoolInv, PoolShape, Reserves, Tokens
  <1>2. QED
    BY <1>1, PositiveTest DEF Sound, BothPositive
\* What PoolIsFair and NeverOverfilled say of a step.
KeepsWorth ==
  Sound /\ Sound' =>
    /\ Grows(reserve["A"], reserve["B"], totalLiquidity, reserve'["A"], reserve'["B"], totalLiquidity')
    /\ totalLiquidity' # totalLiquidity => SpotPrice' = SpotPrice
NeverMore ==
  Sound /\ lastFill' # lastFill =>
    (lastFill'.filled ++ lastFill'.fromPool) \preceq (lastFill'.quantity ++ Slack(lastFill'.side))
PoolInvNext == PoolInv(reserve', totalLiquidity', lpPositions')

\* A pool that stays as it is.
LEMMA GrowsNot ==
  ASSUME NEW x, IsPositive(x), NEW y, IsPositive(y), NEW t, IsPositive(t)
  PROVE  Grows(x, y, t, x, y, t)
  <1>1. (t // t) ** (t // t) = One
    BY PositiveIs
  <1>2. (x // x) ** (y // y) = One
    <2>1. x // x = One /\ y // y = One
      BY PositiveIs
    <2>2. Is(One ** One, 1 * 1, 1 * 1) /\ Is(One, 1, 1)
      BY ZeroIs, ProductIs
    <2>3. One ** One = One
      BY <2>2, IsUnique
    <2>4. QED
      BY <2>1, <2>3
  <1>3. One \preceq One
    BY ZeroIs, Ordered
  <1>4. QED
    BY <1>1, <1>2, <1>3 DEF Grows

\* Nothing changes.
LEMMA UnchangedIsFair ==
  ASSUME PoolInvNow, UNCHANGED <<reserve, totalLiquidity, lpPositions>> PROVE PoolInvNext /\ KeepsWorth
  <1>1. PoolInvNext
    BY DEF PoolInvNext, PoolInvNow
  <1>2. ASSUME Sound
        PROVE  Grows(reserve["A"], reserve["B"], totalLiquidity, reserve["A"], reserve["B"], totalLiquidity)
    <2> DEFINE x == reserve["A"]
               y == reserve["B"]
               t == totalLiquidity
    <2>1. IsPositive(x) /\ IsPositive(y) /\ IsPositive(t)
      BY <1>2, SoundIs DEF BothPositive
    <2>2. QED
      BY <2>1, GrowsNot
  <1>3. QED
    BY <1>1, <1>2 DEF KeepsWorth

\* The swap of a request.
LEMMA SwapStep ==
  ASSUME PoolInvNow, NEW a \in Ratio, BothPositive(reserve) => NotNegative(a), NEW t \in Tokens,
         reserve' = Swapped(a, t), UNCHANGED <<totalLiquidity, lpPositions>>
  PROVE  PoolInvNext /\ KeepsWorth
  <1> DEFINE r1 == SwapOf(reserve, a, t)
  <1>1. reserve' = r1
    BY SwappedIs
  <1>2. PoolInv(reserve, totalLiquidity, lpPositions)
    BY DEF PoolInvNow
  <1>3. PoolInv(r1, totalLiquidity, lpPositions)
    BY <1>2, SwapPool
  <1>4. PoolInvNext
    BY <1>1, <1>3 DEF PoolInvNext
  <1>5. ASSUME Sound
        PROVE  Grows(reserve["A"], reserve["B"], totalLiquidity, r1["A"], r1["B"], totalLiquidity)
    <2>1. BothPositive(reserve) /\ IsPositive(totalLiquidity) /\ reserve \in Reserves
      BY <1>2, <1>5, SoundIs DEF PoolInv, PoolShape, PoolInvNow
    <2>2. One \preceq (r1["A"] // reserve["A"]) ** (r1["B"] // reserve["B"])
      BY <2>1, SwapIsFair
    <2>3. (totalLiquidity // totalLiquidity) ** (totalLiquidity // totalLiquidity) = One
      BY <2>1, PositiveIs
    <2>4. QED
      BY <2>2, <2>3 DEF Grows
  <1>6. QED
    BY <1>1, <1>4, <1>5 DEF KeepsWorth

\* The deposit of a request.
LEMMA AddStep ==
  ASSUME PoolInvNow, NEW w \in Wallets, NEW a \in Ratio, NEW b \in Ratio, AddLiquidity(w, a, b)
  PROVE  PoolInvNext /\ KeepsWorth
  <1> DEFINE r == reserve
             t == totalLiquidity
             ps == lpPositions
             c == FitOf(r, a, b)
             s == IssuedOf(r, t, a, b)
             r1 == DepositOf(r, a, b)
             t1 == t ++ s
             ps1 == [ps EXCEPT ![w] = Position(@.shares ++ s, c, s)]
  <1>1. Actual(a, b) = c /\ SharesIssued(a, b) = s
    BY DEF Actual, SharesIssued, FitOf, IssuedOf, SpotPrice
  <1>2. Zero \prec a /\ Zero \prec b /\ (t = Zero => IsSquare(c[1] ** c[2]))
    BY <1>1 DEF AddLiquidity
  <1>3. reserve' = r1
    BY <1>1 DEF AddLiquidity, DepositOf
  <1>4. totalLiquidity' = t1
    BY <1>1 DEF AddLiquidity
  <1>5. lpPositions' = ps1
    BY <1>1 DEF AddLiquidity, Recorded
  <1>6. PoolInv(r, t, ps)
    BY DEF PoolInvNow
  <1>7. r \in Reserves /\ t \in Ratio
    BY <1>6 DEF PoolInv, PoolShape
  <1> HIDE DEF r, t, ps, c, s, r1, t1, ps1
  <1>8. PoolInv(r1, t1, ps1)
    <2>1. c = FitOf(r, a, b) /\ s = IssuedOf(r, t, a, b) /\ r1 = DepositOf(r, a, b) /\ t1 = t ++ s
          /\ ps1 = [ps EXCEPT ![w] = Position(@.shares ++ s, c, s)]
      BY DEF c, s, r1, t1, ps1
    <2>2. QED
      BY <1>2, <1>6, <2>1, DepositPool
  <1>9. ASSUME Sound, Sound'
        PROVE  Grows(r["A"], r["B"], t, r1["A"], r1["B"], t1) /\ r1["B"] // r1["A"] = r["B"] // r["A"]
    <2>1. BothPositive(r) /\ IsPositive(t)
      BY <1>9, SoundIs DEF r, t
    <2>2. t1 \in Number
      <3>1. IsNumber(t1)
        BY <1>4, <1>9 DEF Sound, Positive
      <3>2. t1 \in Ratio
        BY <1>8 DEF PoolInv, PoolShape
      <3>3. QED
        BY <3>1, <3>2, RatioIs
    <2>3. t = Zero => IsSquare(FitOf(r, a, b)[1] ** FitOf(r, a, b)[2])
      BY <1>2 DEF c
    <2>4. /\ IssuedOf(r, t, a, b) \in Ratio
          /\ t # Zero /\ IssuedOf(r, t, a, b) \in Number => FitOf(r, a, b)[1] \in Number
      BY <1>7, <2>3, DepositTypes
    <2>5. s \in Number
      BY <1>7, <2>2, <2>4, Closed DEF s, t1
    <2>6. c[1] \in Number
      BY <2>1, <2>4, <2>5, PositiveIs DEF s, c
    <2>7. c = FitOf(r, a, b) /\ s = IssuedOf(r, t, a, b) /\ r1 = DepositOf(r, a, b) /\ t1 = t ++ s
      BY DEF c, s, r1, t1
    <2>8. SameWorth(r["A"], r["B"], t, r1["A"], r1["B"], t1) /\ Grows(r["A"], r["B"], t, r1["A"], r1["B"], t1)
      BY <1>2, <1>7, <2>1, <2>6, <2>7, DepositIsFair
    <2>9. QED
      BY <2>8 DEF SameWorth
  <1>10. PoolInvNext
    BY <1>3, <1>4, <1>5, <1>8 DEF PoolInvNext
  <1>11. SpotPrice' = r1["B"] // r1["A"] /\ SpotPrice = r["B"] // r["A"]
    BY <1>3 DEF SpotPrice, r
  <1>12. QED
    BY <1>3, <1>4, <1>9, <1>10, <1>11 DEF KeepsWorth, r, t

\* The removal of a request.
LEMMA RemoveStep ==
  ASSUME PoolInvNow, NEW w \in Wallets, NEW s \in Ratio, RemoveLiquidity(w, s)
  PROVE  PoolInvNext /\ KeepsWorth
  <1> DEFINE r == reserve
             t == totalLiquidity
             ps == lpPositions
             r1 == RemovalOf(r, t, s)
             t1 == t -- s
             ps1 == [ps EXCEPT ![w] = LeftOf(ps[w], s)]
  <1>1. Zero \prec s /\ totalLiquidity' = t1 /\ reserve' = r1
    BY DEF RemoveLiquidity, RemovalOf, Share
  <1>2. PoolInv(r, t, ps)
    BY DEF PoolInvNow
  <1>3. r \in Reserves /\ t \in Ratio /\ ps \in LPRecords
    BY <1>2 DEF PoolInv, PoolShape
  <1>4. lpPositions' = ps1
    <2>1. lpPositions' = Released(w, s)
      BY DEF RemoveLiquidity
    <2>2. CASE lpPositions[w] = NoPosition
      <3>1. Released(w, s) = ps
        BY <2>2 DEF Released
      <3>2. ps1 = [ps EXCEPT ![w] = ps[w]]
        BY <2>2 DEF LeftOf
      <3>3. [ps EXCEPT ![w] = ps[w]] = ps
        BY <1>3 DEF LPRecords
      <3>4. QED
        BY <2>1, <3>1, <3>2, <3>3
    <2>3. CASE lpPositions[w] # NoPosition
      BY <2>1, <2>3 DEF Released, LeftOf
    <2>4. QED
      BY <2>2, <2>3
  <1> HIDE DEF r, t, ps, r1, t1, ps1
  <1>5. r1 = RemovalOf(r, t, s) /\ t1 = t -- s /\ ps1 = [ps EXCEPT ![w] = LeftOf(ps[w], s)]
    BY DEF r1, t1, ps1
  <1>6. PoolInv(r1, t1, ps1)
    BY <1>1, <1>2, <1>5, RemovePool
  <1>7. ASSUME Sound, Sound'
        PROVE  Grows(r["A"], r["B"], t, r1["A"], r1["B"], t1) /\ r1["B"] // r1["A"] = r["B"] // r["A"]
    <2>1. BothPositive(r) /\ IsPositive(t)
      BY <1>7, SoundIs DEF r, t
    <2>2. IsNumber(t1) /\ Zero \prec t1
      BY <1>1, <1>7 DEF Sound, Positive
    <2>3. t1 \in Number
      BY <1>6, <2>2, RatioIs DEF PoolInv, PoolShape
    <2>4. IsPositive(s)
      BY <1>1, <1>3, <1>5, <2>3, Closed DEF IsPositive
    <2>5. SameWorth(r["A"], r["B"], t, r1["A"], r1["B"], t1) /\ Grows(r["A"], r["B"], t, r1["A"], r1["B"], t1)
      BY <1>3, <1>5, <2>1, <2>2, <2>4, RemovalIsFair
    <2>6. QED
      BY <2>5 DEF SameWorth
  <1>8. PoolInvNext
    BY <1>1, <1>4, <1>6 DEF PoolInvNext
  <1>9. SpotPrice' = r1["B"] // r1["A"] /\ SpotPrice = r["B"] // r["A"]
    BY <1>1 DEF SpotPrice, r
  <1>10. QED
    BY <1>1, <1>7, <1>8, <1>9 DEF KeepsWorth, r, t

\* A market order, of which the book has filled a part.
LEMMA HybridStep ==
  ASSUME PoolInvNow, NEW w \in Wallets, NEW o \in Orders, HybridOrder(w, o)
  PROVE  PoolInvNext /\ KeepsWorth /\ NeverMore
  <1>1. UNCHANGED <<totalLiquidity, lpPositions>>
    BY DEF HybridOrder
  <1>2. CASE ~(o.filled \prec o.quantity)
    <2>1. UNCHANGED ammVars \/ UNCHANGED <<reserve, lastFill>>
      BY <1>2 DEF HybridOrder
    <2>2. UNCHANGED <<reserve, lastFill>>
      BY <2>1 DEF ammVars
    <2>3. PoolInvNext
      BY <1>1, <2>2 DEF PoolInvNext, PoolInvNow
    <2>4. KeepsWorth
      BY <1>1, <2>2, UnchangedIsFair
    <2>5. QED
      BY <2>2, <2>3, <2>4 DEF NeverMore
  <1>3. CASE o.filled \prec o.quantity
    <2> DEFINE tok == IF o.side = "buy" THEN "B" ELSE "A"
    <2>1. /\ reserve' = Swapped(PoolIn(o), tok)
          /\ lastFill' = [side |-> o.side, quantity |-> o.quantity, filled |-> o.filled, fromPool |-> PoolFill(o)]
      BY <1>3 DEF HybridOrder
    <2>2. tok \in Tokens
      BY DEF Tokens
    <2> HIDE DEF tok
    <2>3. reserve \in Reserves
      BY DEF PoolInvNow, PoolInv, PoolShape
    <2>4. /\ PoolIn(o) \in Ratio
          /\ BothPositive(reserve) =>
               NotNegative(PoolIn(o)) /\ o.filled ++ PoolFill(o) \preceq o.quantity ++ Slack(o.side)
      BY <1>3, <2>3, PoolInIs
    <2>5. PoolInvNext /\ KeepsWorth
      BY <1>1, <2>1, <2>2, <2>4, SwapStep
    <2>6. NeverMore
      BY <2>1, <2>4, SoundIs DEF NeverMore
    <2>7. QED
      BY <2>5, <2>6
  <1>4. QED
    BY <1>2, <1>3
-----------------------------------------------------------------------------
(* The panels *)

Shown == {None} \cup Ratio

\* What was sent, and what came back.
Asked(p, args) ==
  /\ p = "swap" => args[1] \in Number /\ args[2] \in Tokens
  /\ p \in {"add", "calculator"} => args[1] \in Ratio /\ args[2] \in Ratio
  /\ p = "remove" => args[1] \in Ratio
  /\ p = "balance" => args[1] = Wallet
PanelOK(p, x) ==
  /\ x.state = "sent" => Asked(p, x.args)
  /\ x.state = "done" => x.args[1] \in Shown \cup {Error}

PanelsTyped(ps) == ps = [p \in Panels |-> ps[p]] /\ \A p \in Panels : PanelOK(p, ps[p])
PanelShape ==
  /\ wallet \in {NoWallet, Wallet} /\ ammPool \in {None} \cup Reserves /\ lpPosition \in Shown
  /\ PanelsTyped(panel)

PanelsInv == PoolInvNow /\ PanelShape

\* One panel moves on.
LEMMA PanelMoves ==
  ASSUME NEW ps, PanelsTyped(ps), NEW p, NEW x, p \in Panels => PanelOK(p, x)
  PROVE  PanelsTyped([ps EXCEPT ![p] = x])
  <1>1. ps = [q \in Panels |-> ps[q]] /\ \A q \in Panels : PanelOK(q, ps[q])
    BY DEF PanelsTyped
  <1> DEFINE qs == [ps EXCEPT ![p] = x]
  <1>2. qs = [q \in Panels |-> IF q = p THEN x ELSE ps[q]]
    BY <1>1
  <1>3. qs = [q \in Panels |-> qs[q]]
    BY <1>2
  <1>4. \A q \in Panels : PanelOK(q, qs[q])
    BY <1>1, <1>2
  <1>5. QED
    BY <1>3, <1>4 DEF PanelsTyped

\* Nothing is asked at first.
LEMMA PanelsStart == PanelsInit => PanelsInv
  <1> SUFFICES ASSUME PanelsInit PROVE PanelsInv
    OBVIOUS
  <1>1. PoolInv(reserve, StartShares, lpPositions) /\ totalLiquidity = StartShares
    BY PoolInvStarts DEF PanelsInit, AmmInit, StartShares
  <1>2. PanelsTyped(panel)
    BY DEF PanelsInit, PanelsTyped, PanelOK, Idle
  <1>3. QED
    BY <1>1, <1>2 DEF PanelsInv, PoolInvNow, PanelShape, PanelsInit, Shown

\* What a panel asks.
LEMMA SwapAsked ==
  ASSUME PanelShape, NEW p, NEW a \in Typed, NEW t \in Tokens, AskSwap(p, a, t) PROVE PanelsTyped(panel')
  <1>1. panel' = [panel EXCEPT ![p] = Sent(<<a, t>>)] /\ p \in {"quote", "swap"}
    BY DEF AskSwap, Ask
  <1>2. a \in Number
    BY PanelsAssumption, FiniteIs DEF PanelsAssumption
  <1>3. PanelOK(p, Sent(<<a, t>>))
    BY <1>1, <1>2 DEF PanelOK, Sent, Asked
  <1>4. QED
    BY <1>1, <1>3, PanelMoves DEF PanelShape

\* The panel of deposits asks for numbers, infinities or NaN: it divides by a reserve.
LEMMA AddAsked ==
  ASSUME PanelShape, NEW a \in Typed, AskAdd(a) PROVE PanelsTyped(panel')
  <1> DEFINE b == a ** (ammPool["B"] // ammPool["A"])
  <1>1. panel' = [panel EXCEPT !["add"] = Sent(<<a, b>>)] /\ ammPool # None
    BY DEF AskAdd, Ask
  <1>2. a \in Ratio
    BY PanelsAssumption, FiniteIs, NumbersAreRatios DEF PanelsAssumption
  <1>3. ammPool["A"] \in Ratio /\ ammPool["B"] \in Ratio
    BY <1>1 DEF PanelShape, Reserves, Tokens
  <1>4. b \in Ratio
    <2>1. ammPool["B"] // ammPool["A"] \in Ratio
      BY <1>3, Closed
    <2>2. QED
      BY <1>2, <2>1, Closed
  <1> HIDE DEF b
  <1>5. PanelOK("add", Sent(<<a, b>>))
    BY <1>2, <1>4 DEF PanelOK, Sent, Asked
  <1>6. QED
    BY <1>1, <1>5, PanelMoves DEF PanelShape

\* The calculator asks for what is typed.
LEMMA CalculatorAsked ==
  ASSUME PanelShape, NEW d \in Deposits, AskCalculator(d) PROVE PanelsTyped(panel')
  <1>1. panel' = [panel EXCEPT !["calculator"] = Sent(d)]
    BY DEF AskCalculator, Ask
  <1>2. d[1] \in Ratio /\ d[2] \in Ratio
    BY AmmAssumption, FiniteIs, NumbersAreRatios DEF AmmAssumption
  <1>3. PanelOK("calculator", Sent(d))
    BY <1>2 DEF PanelOK, Sent, Asked
  <1>4. QED
    BY <1>1, <1>3, PanelMoves DEF PanelShape

\* A removal is asked for part of the shares on show.
LEMMA RemoveAsked ==
  ASSUME PanelShape, NEW n \in {1, 2}, lpPosition # None, AskRemove(lpPosition // Frac(n, 1)) PROVE PanelsTyped(panel')
  <1> DEFINE x == lpPosition // Frac(n, 1)
  <1>1. panel' = [panel EXCEPT !["remove"] = Sent(<<x>>)]
    BY DEF AskRemove, Ask
  <1>2. lpPosition \in Ratio
    BY DEF PanelShape, Shown
  <1>3. Frac(n, 1) \in Ratio
    <2>1. <<n, 1>> \in Fraction
      BY DEF Fraction
    <2>2. QED
      BY <2>1, ReduceRatio DEF Frac
  <1>4. x \in Ratio
    BY <1>2, <1>3, Closed
  <1> HIDE DEF x
  <1>5. PanelOK("remove", Sent(<<x>>))
    BY <1>4 DEF PanelOK, Sent, Asked
  <1>6. QED
    BY <1>1, <1>5, PanelMoves DEF PanelShape

\* A balance is asked for the wallet that is connected.
LEMMA BalanceAsked ==
  ASSUME PanelShape, AskBalance PROVE PanelsTyped(panel')
  <1>1. panel' = [panel EXCEPT !["balance"] = Sent(<<wallet>>)] /\ wallet = Wallet
    BY DEF AskBalance, Ask, PanelShape
  <1>2. PanelOK("balance", Sent(<<wallet>>))
    BY <1>1 DEF PanelOK, Sent, Asked
  <1>3. QED
    BY <1>1, <1>2, PanelMoves DEF PanelShape

\* What the API answers.
LEMMA ServeTypes ==
  ASSUME PanelsInv, PoolInvNext, NEW p \in Panels, Serve(p) PROVE PanelsTyped(panel')
  <1> DEFINE w == IF p = "balance" THEN panel[p].args[1] ELSE "anon"
             x == PositionOf(lpPositions', w)
  <1>1. panel[p].state = "sent" /\ panel' = [panel EXCEPT ![p] = Done(x)]
    BY DEF Serve
  <1>2. PanelOK(p, panel[p])
    BY DEF PanelsInv, PanelShape, PanelsTyped
  <1>3. w \in Wallets
    BY <1>1, <1>2, AmmAssumption, PanelsAssumption DEF AmmAssumption, PanelsAssumption, PanelOK, Asked
  <1>4. x \in Shown
    BY <1>3 DEF PoolInvNext, PoolInv, PoolShape, LPRecords, LPRecord, PositionOf, Shown
  <1> HIDE DEF x
  <1>5. PanelOK(p, Done(x))
    BY <1>4 DEF PanelOK, Done
  <1>6. QED
    BY <1>1, <1>5, PanelMoves DEF PanelsInv, PanelShape

\* A failure.
LEMMA FailTypes ==
  ASSUME PanelShape, NEW p \in Panels, Fail(p) PROVE PanelsTyped(panel')
  <1>1. panel' = [panel EXCEPT ![p] = Done(Error)] /\ PanelOK(p, Done(Error))
    BY DEF Fail, PanelOK, Done
  <1>2. QED
    BY <1>1, PanelMoves DEF PanelShape

\* An answer is shown.
LEMMA AnswerTypes ==
  ASSUME PanelShape, NEW p \in Panels, Answer(p) PROVE PanelsTyped(panel') /\ lpPosition' \in Shown
  <1>1. panel' = [panel EXCEPT ![p] = Idle] /\ PanelOK(p, Idle) /\ panel[p].state = "done"
    BY DEF Answer, Over, PanelOK, Idle
  <1>2. PanelsTyped(panel')
    BY <1>1, PanelMoves DEF PanelShape
  <1>3. PanelOK(p, panel[p])
    BY DEF PanelShape, PanelsTyped
  <1> DEFINE x == panel[p].args[1]
  <1>4. x \in Shown \cup {Error} /\ lpPosition \in Shown
    BY <1>1, <1>3 DEF PanelOK, PanelShape
  <1> HIDE DEF x
  <1>5. lpPosition' = lpPosition \/ (lpPosition' = x /\ x # Error)
    BY DEF Answer, x
  <1>6. QED
    BY <1>2, <1>4, <1>5

\* What the panels' requests do to the pool.
LEMMA ServeIsPoolStep ==
  ASSUME PanelsInv, NEW p \in Panels, Serve(p) PROVE PoolStep
  <1> DEFINE args == panel[p].args
  <1>1. PanelOK(p, panel[p])
    BY DEF PanelsInv, PanelShape, PanelsTyped
  <1>2. Asked(p, args) /\ Handles(p, args)
    BY <1>1 DEF Serve, PanelOK
  <1>3. "anon" \in Wallets
    BY AmmAssumption DEF AmmAssumption
  <1> HIDE DEF args
  <1>4. CASE p \in {"quote", "balance"} /\ UNCHANGED <<ammVars, rateVars>>
    BY <1>4 DEF PoolStep
  <1>5. CASE p = "swap" /\ Swap(args[1], args[2])
    BY <1>2, <1>5 DEF PoolStep, Asked
  <1>6. CASE p \in {"add", "calculator"} /\ AddLiquidity("anon", args[1], args[2])
    BY <1>2, <1>3, <1>6 DEF PoolStep, Asked
  <1>7. CASE p = "remove" /\ RemoveLiquidity("anon", args[1])
    BY <1>2, <1>3, <1>7 DEF PoolStep, Asked
  <1>8. QED
    BY <1>2, <1>4, <1>5, <1>6, <1>7 DEF Handles

\* What the other requests do to the pool.
LEMMA OthersIsPoolStep ==
  ASSUME Others PROVE PoolStep
  <1>1. ASSUME NEW a \in Swaps PROVE a \in Number /\ a \in Ratio
    BY AmmAssumption, FiniteIs, NumbersAreRatios DEF AmmAssumption
  <1>2. ASSUME NEW d \in Deposits PROVE d[1] \in Ratio /\ d[2] \in Ratio
    BY AmmAssumption, FiniteIs, NumbersAreRatios DEF AmmAssumption
  <1>3. CASE \E a \in Swaps, t \in Tokens : Swap(a, t)
    BY <1>1, <1>3 DEF PoolStep
  <1>4. CASE \E w \in Wallets, o \in Orders : HybridOrder(w, o)
    BY <1>4 DEF PoolStep
  <1>5. CASE \E w \in Wallets, d \in Deposits : AddLiquidity(w, d[1], d[2])
    BY <1>2, <1>5 DEF PoolStep
  <1>6. CASE \E w \in Wallets, a \in Swaps : RemoveLiquidity(w, a)
    BY <1>1, <1>6 DEF PoolStep
  <1>7. CASE Tick
    BY <1>7 DEF PoolStep, Tick
  <1>8. QED
    BY <1>3, <1>4, <1>5, <1>6, <1>7 DEF Others

\* A step of the pool keeps the invariant, is fair, and gives no order too much.
LEMMA PoolSteps == PoolInvNow /\ PoolStep => PoolInvNext /\ KeepsWorth /\ NeverMore
  <1> SUFFICES ASSUME PoolInvNow, PoolStep PROVE PoolInvNext /\ KeepsWorth /\ NeverMore
    OBVIOUS
  <1>1. CASE \E a \in Number, t \in Tokens : Swap(a, t)
    <2>1. PICK a \in Number, t \in Tokens : Swap(a, t)
      BY <1>1
    <2>2. a \in Ratio /\ NotNegative(a) /\ reserve' = Swapped(a, t) /\ UNCHANGED <<totalLiquidity, lpPositions, lastFill>>
      BY <2>1, NumbersAreRatios DEF Swap, NotNegative, \preceq
    <2>3. PoolInvNext /\ KeepsWorth
      BY <2>2, SwapStep
    <2>4. QED
      BY <2>2, <2>3 DEF NeverMore
  <1>2. CASE \E w \in Wallets, a \in Ratio, b \in Ratio : AddLiquidity(w, a, b)
    <2>1. PICK w \in Wallets, a \in Ratio, b \in Ratio : AddLiquidity(w, a, b)
      BY <1>2
    <2>2. QED
      BY <2>1, AddStep DEF NeverMore, AddLiquidity
  <1>3. CASE \E w \in Wallets, s \in Ratio : RemoveLiquidity(w, s)
    <2>1. PICK w \in Wallets, s \in Ratio : RemoveLiquidity(w, s)
      BY <1>3
    <2>2. QED
      BY <2>1, RemoveStep DEF NeverMore, RemoveLiquidity
  <1>4. CASE \E w \in Wallets, o \in Orders : HybridOrder(w, o)
    BY <1>4, HybridStep
  <1>5. CASE UNCHANGED ammVars
    BY <1>5, UnchangedIsFair DEF ammVars, NeverMore
  <1>6. QED
    BY <1>1, <1>2, <1>3, <1>4, <1>5 DEF PoolStep

\* Of the panels' steps, those that are steps of the pool.
LEMMA StepsAreThePools ==
  ASSUME PanelsInv, [PanelsNext]_panelVars PROVE PoolStep
  <1>1. CASE \E p \in Panels : Serve(p)
    BY <1>1, ServeIsPoolStep
  <1>2. CASE Others
    BY <1>2, OthersIsPoolStep
  <1>3. CASE \E p \in Panels : Fail(p) \/ Answer(p)
    BY <1>3 DEF Fail, Answer, PoolStep
  <1>4. ASSUME NEW p, NEW args, Ask(p, args) PROVE PoolStep
    BY <1>4 DEF Ask, PoolStep
  <1>5. CASE \E p \in Panels, a \in Typed, t \in Tokens : AskSwap(p, a, t)
    BY <1>4, <1>5 DEF AskSwap
  <1>6. CASE \E a \in Typed : AskAdd(a)
    BY <1>4, <1>6 DEF AskAdd
  <1>7. CASE \E d \in Deposits : AskCalculator(d)
    BY <1>4, <1>7 DEF AskCalculator
  <1>8. CASE \E n \in {1, 2} : AskRemove(lpPosition // Frac(n, 1))
    BY <1>4, <1>8 DEF AskRemove
  <1>9. CASE AskBalance
    BY <1>4, <1>9 DEF AskBalance
  <1>10. CASE SetWallet \/ Connect \/ StreamBreaks \/ Streamed
    BY <1>10 DEF SetWallet, Connect, StreamBreaks, Streamed, PoolStep
  <1>11. CASE UNCHANGED panelVars
    BY <1>11 DEF panelVars, PoolStep
  <1>12. QED
    BY <1>1, <1>2, <1>3, <1>5, <1>6, <1>7, <1>8, <1>9, <1>10, <1>11 DEF PanelsNext

\* The panels stay what they are.
LEMMA PanelStep ==
  ASSUME PanelsInv, PoolInvNext, [PanelsNext]_panelVars PROVE PanelShape'
  <1>1. PanelShape /\ wallet \in {NoWallet, Wallet} /\ ammPool \in {None} \cup Reserves /\ lpPosition \in Shown /\ PanelsTyped(panel)
    BY DEF PanelsInv, PanelShape
  <1>2. reserve \in Reserves
    BY DEF PanelsInv, PoolInvNow, PoolInv, PoolShape
  <1>3. ASSUME UNCHANGED screen, PanelsTyped(panel') PROVE PanelShape'
    BY <1>1, <1>3 DEF PanelShape, screen
  <1>4. ASSUME UNCHANGED panel, wallet' \in {NoWallet, Wallet}, ammPool' \in {None} \cup Reserves, UNCHANGED lpPosition
        PROVE  PanelShape'
    BY <1>1, <1>4 DEF PanelShape
  <1>5. CASE \E p \in Panels : Serve(p)
    BY <1>3, <1>5, ServeTypes DEF Serve
  <1>6. CASE \E p \in Panels : Fail(p)
    BY <1>1, <1>3, <1>6, FailTypes DEF Fail
  <1>7. CASE \E p \in Panels : Answer(p)
    <2>1. PICK p \in Panels : Answer(p)
      BY <1>7
    <2>2. PanelsTyped(panel') /\ lpPosition' \in Shown /\ UNCHANGED <<wallet, ammPool>>
      BY <1>1, <2>1, AnswerTypes DEF Answer
    <2>3. QED
      BY <1>1, <2>2 DEF PanelShape
  <1>8. ASSUME NEW p, NEW args, Ask(p, args), PanelsTyped(panel') PROVE PanelShape'
    BY <1>3, <1>8 DEF Ask
  <1>9. CASE \E p \in Panels, a \in Typed, t \in Tokens : AskSwap(p, a, t)
    BY <1>1, <1>8, <1>9, SwapAsked DEF AskSwap
  <1>10. CASE \E a \in Typed : AskAdd(a)
    BY <1>1, <1>8, <1>10, AddAsked DEF AskAdd
  <1>11. CASE \E d \in Deposits : AskCalculator(d)
    BY <1>1, <1>8, <1>11, CalculatorAsked DEF AskCalculator
  <1>12. CASE lpPosition # None /\ \E n \in {1, 2} : AskRemove(lpPosition // Frac(n, 1))
    BY <1>1, <1>8, <1>12, RemoveAsked DEF AskRemove
  <1>13. CASE AskBalance
    BY <1>1, <1>8, <1>13, BalanceAsked DEF AskBalance
  <1>14. CASE SetWallet
    BY <1>1, <1>4, <1>14 DEF SetWallet
  <1>15. CASE Connect \/ Streamed
    BY <1>1, <1>2, <1>4, <1>15 DEF Connect, Streamed
  <1>16. CASE StreamBreaks \/ Others \/ UNCHANGED panelVars
    BY <1>1, <1>4, <1>16 DEF StreamBreaks, Others, panelVars, screen
  <1>17. QED
    BY <1>5, <1>6, <1>7, <1>9, <1>10, <1>11, <1>12, <1>13, <1>14, <1>15, <1>16 DEF PanelsNext

\* PanelsInv is inductive, and every step is fair.
LEMMA PanelsStep == PanelsInv /\ [PanelsNext]_panelVars => PanelsInv' /\ KeepsWorth /\ NeverMore
  <1> SUFFICES ASSUME PanelsInv, [PanelsNext]_panelVars PROVE PanelsInv' /\ KeepsWorth /\ NeverMore
    OBVIOUS
  <1>1. PoolInvNext /\ KeepsWorth /\ NeverMore
    BY StepsAreThePools, PoolSteps DEF PanelsInv
  <1>2. PanelShape'
    BY <1>1, PanelStep
  <1>3. PoolInvNow'
    BY <1>1 DEF PoolInvNow, PoolInvNext
  <1>4. QED
    BY <1>1, <1>2, <1>3 DEF PanelsInv

\* The pool and its panels keep their invariant.
LEMMA PanelsInvariance == PanelsSpec => []PanelsInv
  <1>1. PanelsInv /\ [PanelsNext]_panelVars => PanelsInv'
    BY PanelsStep
  <1>2. QED
    BY <1>1, PanelsStart, PTL DEF PanelsSpec

\* No request takes value from those who stay in the pool, whatever the amounts,
\* the fee and the order of the requests (executeSwap, addLiquidity,
\* removeLiquidity).
THEOREM PoolStaysFair == PanelsSpec => PoolIsFair
  <1>1. PanelsInv /\ [PanelsNext]_panelVars => PanelsInv' /\ KeepsWorth
    BY PanelsStep
  <1>2. KeepsWorth =>
          [Sound /\ Sound' =>
             /\ LET growth == totalLiquidity' // totalLiquidity IN
                (growth ** growth) \preceq
                  ((reserve["A"]' // reserve["A"]) ** (reserve["B"]' // reserve["B"]))
             /\ totalLiquidity' # totalLiquidity => SpotPrice' = SpotPrice]_ammVars
    BY DEF KeepsWorth, Grows
  <1>3. QED
    BY <1>1, <1>2, PanelsStart, PTL DEF PanelsSpec, PoolIsFair

\* Book and pool together never give more than a market order asks for and what its
\* amounts were rounded up by: half a unit of toFixed, and for a buy what half a unit
\* of the second token buys (the order route).
THEOREM NeverTooMuchFilled == PanelsSpec => NeverOverfilled
  <1>1. PanelsInv /\ [PanelsNext]_panelVars => PanelsInv' /\ NeverMore
    BY PanelsStep
  <1>2. NeverMore =>
          [Sound /\ lastFill' # lastFill =>
             (lastFill'.filled ++ lastFill'.fromPool)
               \preceq (lastFill'.quantity ++ Slack(lastFill'.side))]_ammVars
    BY DEF NeverMore
  <1>3. QED
    BY <1>1, <1>2, PanelsStart, PTL DEF PanelsSpec, NeverOverfilled

\* What is promised to a position that is no smaller than its last deposit.
LEMMA CoverFollows == PanelsInv => PositionsCover
  <1> SUFFICES ASSUME PanelsInv, IsNumber(totalLiquidity) PROVE PositionsCover
    BY DEF PositionsCover
  <1> DEFINE r == reserve
             t == totalLiquidity
             ps == lpPositions
  <1>1. PoolInv(r, t, ps) /\ r \in Reserves /\ ps \in LPRecords
    BY DEF PanelsInv, PoolInvNow, PoolInv, PoolShape
  <1>2. t \in Number
    BY RatioIs DEF PanelsInv, PoolInvNow, PoolInv, PoolShape
  <1>3. SharesKnown = SumOf(ps)
    BY DEF SharesKnown, SumOf, StartShares
  <1>4. AllCounted(ps) /\ t \preceq SumOf(ps)
    BY <1>1, <1>2 DEF PoolInv, SharesCount
  <1>5. ~(SharesKnown \prec t)
    BY <1>2, <1>3, <1>4, SumOfIs, Ordered
  <1>6. ASSUME SharesKnown = t, NEW w \in Wallets, ps[w] # NoPosition, ps[w].issued \preceq ps[w].shares
        PROVE  currentValueLP(ps[w]) \preceq Square(Worth(ps[w]))
    <2> DEFINE x == r["A"]
               y == r["B"]
               p == ps[w]
               a == p.entryReserveA
               b == p.entryReserveB
               h == p.shares
               s == p.issued
    <2>1. IsPositive(t) /\ BothPositive(r)
      BY <1>1, <1>2, <1>3, <1>6, AllIsPositive
    <2>2. Held(p, r, t)
      BY <1>1, <1>2, <1>3, <1>6 DEF PoolInv, AllHeld
    <2>3. h \in Number
      BY <1>4 DEF AllCounted
    <2>4. currentValueLP(p) = LossValue(a, b, x, y)
      BY DEF currentValueLP, LossValue, SpotPrice, Square, Squared
    <2>5. Worth(p) = PaidFor(h, x, y, t)
      BY DEF Worth, Share, PaidFor, SpotPrice
    <2>6. IsPositive(x) /\ IsPositive(y) /\ IsPositive(a) /\ IsPositive(b) /\ s \in Number /\ Zero \preceq s
          /\ Funded(a, b, s, x, y, t) /\ s \preceq h
      BY <1>6, <2>1, <2>2 DEF Held, BothPositive
    <2> HIDE DEF x, y, a, b, h, s, p, t
    <2>7. LossValue(a, b, x, y) \preceq Squared(PaidFor(h, x, y, t))
      BY <2>1, <2>3, <2>6, PromiseKept
    <2>8. QED
      BY <2>4, <2>5, <2>7 DEF Square, Squared, p
  <1>7. QED
    BY <1>3, <1>5, <1>6 DEF PositionsCover

\* The pool never counts more shares than the positions hold, and pays a position
\* what the loss calculator promised it, whatever was swapped, deposited and
\* removed in between (recordLPPosition, removeLPPosition, calcImpermanentLoss).
THEOREM PositionsStayCovered == PanelsSpec => []PositionsCover
  BY PanelsInvariance, CoverFollows, PTL
\* The fractions of the former engine's pool are the same.
LEMMA SameGcd == Pool!Gcd = Gcd
  BY DEF Gcd, Pool!Gcd

\* Division by a common divisor.
LEMMA SameDivideBy == Pool!DivideBy = DivideBy
  BY DEF DivideBy, Pool!DivideBy, SignOf, Pool!SignOf, Abs, Pool!Abs, Fraction, Pool!Fraction

\* Lowest terms.
LEMMA SameReduce == Pool!Reduce = Reduce
  BY SameGcd, SameDivideBy DEF Reduce, Pool!Reduce, SignOf, Pool!SignOf, Abs, Pool!Abs, Fraction, Pool!Fraction

\* Products.
LEMMA SameProduct == \A x, y : Pool!**(x, y) = x ** y
  <1>1. Pool!Times = Times
    BY SameReduce DEF Times, Pool!Times, Fraction, Pool!Fraction
  <1>2. Pool!Multiply = Multiply
    BY SameReduce, <1>1 DEF Multiply, Pool!Multiply, Fraction, Pool!Fraction
  <1>3. QED
    BY <1>2 DEF **, Pool!**

\* Quotients.
LEMMA SameQuotient == \A x, y : Pool!//(x, y) = x // y
  <1>1. Pool!Times = Times
    BY SameReduce DEF Times, Pool!Times, Fraction, Pool!Fraction
  <1>2. Pool!Multiply = Multiply
    BY SameReduce, <1>1 DEF Multiply, Pool!Multiply, Fraction, Pool!Fraction
  <1>3. QED
    BY <1>2, SameReduce DEF //, Pool!//

\* Sums.
LEMMA SameSum == \A x, y : Pool!++(x, y) = x ++ y
  <1>1. Pool!PlusOver = PlusOver
    BY SameReduce DEF PlusOver, Pool!PlusOver, Fraction, Pool!Fraction
  <1>2. Pool!Plus = Plus
    BY SameGcd, <1>1 DEF Plus, Pool!Plus, Fraction, Pool!Fraction
  <1>3. QED
    BY <1>2 DEF ++, Pool!++

\* Differences.
LEMMA SameDifference == \A x, y : Pool!--(x, y) = x -- y
  <1>1. Pool!PlusOver = PlusOver
    BY SameReduce DEF PlusOver, Pool!PlusOver, Fraction, Pool!Fraction
  <1>2. Pool!Plus = Plus
    BY SameGcd, <1>1 DEF Plus, Pool!Plus, Fraction, Pool!Fraction
  <1>3. QED
    BY <1>2 DEF --, Pool!--

\* Comparisons.
LEMMA SameBelow == /\ \A x, y : Pool!\prec(x, y) <=> x \prec y
                   /\ \A x, y : Pool!\preceq(x, y) <=> x \preceq y
  <1>1. Pool!Below = Below
    BY DEF Below, Pool!Below, Fraction, Pool!Fraction
  <1>2. Pool!NaN = NaN
    BY DEF NaN, Pool!NaN
  <1>3. \A x, y : Pool!\prec(x, y) <=> x \prec y
    BY <1>1, <1>2 DEF \prec, Pool!\prec
  <1>4. QED
    BY <1>2, <1>3 DEF \preceq, Pool!\preceq

\* Constants.
LEMMA SameNumbers == Pool!Zero = Zero /\ Pool!One = One /\ \A x : Pool!IsNumber(x) <=> IsNumber(x)
  BY DEF Zero, Pool!Zero, One, Pool!One, IsNumber, Pool!IsNumber

\* Fractions of integers.
LEMMA SameFrac == \A n, d : Pool!Frac(n, d) = Frac(n, d)
  BY SameReduce DEF Frac, Pool!Frac

\* What toFixed does.
LEMMA SameFixed == \A x : Pool!toFixed(x) = toFixed(x)
  BY SameFrac, SameNumbers DEF toFixed, Pool!toFixed, SignOf, Pool!SignOf, Abs, Pool!Abs

\* What it rounds up at most.
LEMMA SameSlack == \A side : Pool!Slack(side) = SlackOf(formerReserve, side)
  <1>1. Pool!Half = Half
    BY SameFrac DEF Half, Pool!Half
  <1>2. QED
    BY <1>1, SameSum, SameQuotient DEF Pool!Slack, Pool!SpotPrice, SlackOf

\* The former engine's pool swaps as the API's does.
LEMMA FormerSwapped ==
  ASSUME NEW a, NEW t PROVE Pool!Swapped(a, t) = SwapOf(formerReserve, a, t)
  <1>1. \A u : Pool!OtherToken(u) = OtherToken(u)
    BY DEF OtherToken, Pool!OtherToken
  <1>2. Pool!AmountOut(a, t) = AmountOf(formerReserve, a, t)
    BY <1>1, SameSum, SameDifference, SameProduct, SameQuotient, SameNumbers
       DEF Pool!AmountOut, AmountOf, PaidOut, AfterFee
  <1>3. QED
    BY <1>1, <1>2, SameSum, SameDifference, SameProduct DEF Pool!Swapped, SwapOf

\* It takes as much of a deposit.
LEMMA FormerActual ==
  ASSUME NEW a, NEW b PROVE Pool!Actual(a, b) = FitOf(formerReserve, a, b)
  <1>1. Pool!SpotPrice = formerReserve["B"] // formerReserve["A"]
    BY SameQuotient DEF Pool!SpotPrice
  <1>2. QED
    BY <1>1, SameBelow, SameProduct, SameQuotient, SameNumbers DEF Pool!Actual, FitOf

\* It issues as many shares, once it has some.
LEMMA FormerIssued ==
  ASSUME NEW a, NEW b, formerLiquidity # Zero PROVE Pool!SharesIssued(a, b) = IssuedOf(formerReserve, formerLiquidity, a, b)
  BY FormerActual, SameProduct, SameQuotient, SameNumbers DEF Pool!SharesIssued, IssuedOf
-----------------------------------------------------------------------------
(* The spreads a tick records *)

SpreadPoint == [spread : Int]
SpreadInv == spreadHistory \in Seq(SpreadPoint)

\* What a spread is to be.
RealSpread(spread) ==
  /\ LivePrices("sell") # {} /\ LivePrices("buy") # {}
  /\ LET bid == Max(LivePrices("buy"))
         ask == Min(LivePrices("sell"))
     IN IF bid > 0 /\ ask > 0 THEN spread > 0 /\ spread = ask - bid ELSE spread = 0

\* The first level that is shown is the best key, if an order is left under it
\* (getSnapshot).
LEMMA FirstLevel ==
  ASSUME FormerInv, NEW s \in Sides, NEW p \in getSnapshot(s, 1)
  PROVE  /\ p \in levels[s] /\ p \in Int /\ \A x \in levels[s] : IF s = "buy" THEN x <= p ELSE p <= x
         /\ \E o \in book : orders[o].side = s /\ orders[o].price = p
  <1> DEFINE ahead == {x \in levels[s] : IF s = "buy" THEN x > p ELSE x < p}
             under == {o \in book : orders[o].side = s /\ orders[o].price = p}
  <1>1. p \in levels[s] /\ Cardinality(ahead) < 1 /\ LevelQuantity(s, p) > 0
    BY DEF getSnapshot
  <1>2. levels[s] \subseteq Int /\ IsFiniteSet(levels[s])
    BY DEF FormerInv, FormerShape
  <1>3. IsFiniteSet(ahead)
    <2>1. ahead \in SUBSET levels[s]
      OBVIOUS
    <2> HIDE DEF ahead
    <2>2. QED
      BY <1>2, <2>1, FS_Subset
  <1>4. ahead = {}
    <2> HIDE DEF ahead
    <2>1. Cardinality(ahead) \in Nat /\ (Cardinality(ahead) = 0 <=> ahead = {})
      BY <1>3, FS_CardinalityType, FS_EmptySet
    <2>2. QED
      BY <1>1, <2>1
  <1>5. \A x \in levels[s] : IF s = "buy" THEN x <= p ELSE p <= x
    BY <1>1, <1>2, <1>4
  <1>6. under # {}
    <2> SUFFICES ASSUME under = {} PROVE FALSE
      OBVIOUS
    <2>1. LevelQuantity(s, p) = SumFunctionOnSet([o \in book |-> orders[o].quantity - filled[o]], under)
      BY DEF LevelQuantity
    <2>2. LevelQuantity(s, p) = 0
      BY <2>1, SumEmpty
    <2>3. QED
      BY <1>1, <2>2
  <1>7. QED
    BY <1>1, <1>2, <1>5, <1>6

\* So, when no call runs, it is the best price of the live orders.
LEMMA FirstIsBest ==
  ASSUME FormerInv, taker = 0, NEW s \in Sides, NEW p \in getSnapshot(s, 1)
  PROVE  /\ p \in LivePrices(s) /\ p \in Int /\ getSnapshot(s, 1) = {p}
         /\ \A x \in LivePrices(s) : x \in Int /\ IF s = "buy" THEN x <= p ELSE p <= x
  <1>1. /\ p \in levels[s] /\ p \in Int /\ \A x \in levels[s] : IF s = "buy" THEN x <= p ELSE p <= x
        /\ \E o \in book : orders[o].side = s /\ orders[o].price = p
    BY FirstLevel
  <1>2. DOMAIN orders = Placed
    BY DEF FormerInv, FormerShape, Placed
  <1>3. \A o \in Placed : o \in book <=> Live(o)
    <2>1. \A o \in Placed : o # 0
      BY DEF Placed
    <2>2. QED
      BY <2>1 DEF FormerInv, FillsAgree
  <1>4. book \subseteq Placed
    BY DEF FormerInv, FormerShape
  <1>5. LivePrices(s) = {orders[o].price : o \in {o \in book : orders[o].side = s}}
    BY <1>2, <1>3, <1>4 DEF LivePrices
  <1>6. \A o \in book : orders[o].side = s => orders[o].price \in levels[s]
    BY DEF FormerInv, Keyed
  <1>7. levels[s] \subseteq Int
    BY DEF FormerInv, FormerShape
  <1>8. \A q \in getSnapshot(s, 1) : q = p
    <2>1. SUFFICES ASSUME NEW q \in getSnapshot(s, 1) PROVE q = p
      OBVIOUS
    <2>2. q \in levels[s] /\ q \in Int /\ \A x \in levels[s] : IF s = "buy" THEN x <= q ELSE q <= x
      BY FirstLevel
    <2>3. QED
      BY <1>1, <2>2
  <1>9. QED
    BY <1>1, <1>5, <1>6, <1>7, <1>8

\* A set of integers with a least or a greatest element.
LEMMA GreatestIs ==
  ASSUME NEW S, NEW p \in S, \A x \in S : x \in Int /\ x <= p PROVE Max(S) = p
  <1>1. \A y \in S : p >= y
    OBVIOUS
  <1>2. Max(S) \in S /\ \A y \in S : Max(S) >= y
    BY <1>1 DEF Max
  <1>3. QED
    BY <1>2

\* Its least element.
LEMMA LeastIs ==
  ASSUME NEW S, NEW p \in S, \A x \in S : x \in Int /\ p <= x PROVE Min(S) = p
  <1>1. \A y \in S : p <= y
    OBVIOUS
  <1>2. Min(S) \in S /\ \A y \in S : Min(S) <= y
    BY <1>1 DEF Min
  <1>3. QED
    BY <1>2

\* The point a tick would record is real.
PointsAreReal == taker = 0 => \A x \in SpreadPoints : x \in SpreadPoint /\ RealSpread(x.spread)

\* The best bid and ask of an uncrossed book are apart.
LEMMA RealPoints == FormerInv => PointsAreReal
  <1> SUFFICES ASSUME FormerInv, taker = 0, NEW x \in SpreadPoints
               PROVE  x \in SpreadPoint /\ RealSpread(x.spread)
    BY DEF PointsAreReal
  <1>1. PICK b \in getSnapshot("buy", 1), a \in getSnapshot("sell", 1) : x = [spread |-> Spread(b, a)]
    BY DEF SpreadPoints
  <1>2. /\ a \in LivePrices("sell") /\ a \in Int
        /\ \A y \in LivePrices("sell") : y \in Int /\ a <= y
    BY <1>1, FirstIsBest DEF Sides
  <1>3. /\ b \in LivePrices("buy") /\ b \in Int
        /\ \A y \in LivePrices("buy") : y \in Int /\ y <= b
    BY <1>1, FirstIsBest DEF Sides
  <1>4. Min(LivePrices("sell")) = a
    BY <1>2, LeastIs
  <1>5. Max(LivePrices("buy")) = b
    BY <1>3, GreatestIs
  <1>6. a - b > 0
    <2>1. \E o \in book : orders[o].side = "sell" /\ orders[o].price = a
      BY <1>1, FirstLevel DEF Sides
    <2>2. \E o \in book : orders[o].side = "buy" /\ orders[o].price = b
      BY <1>1, FirstLevel DEF Sides
    <2>3. b < a
      BY <2>1, <2>2 DEF FormerInv, Uncrossed
    <2>4. QED
      BY <1>2, <1>3, <2>3
  <1>7. x.spread = Spread(b, a) /\ x = [spread |-> Spread(b, a)]
    BY <1>1
  <1>8. Spread(b, a) \in Int /\ IF b > 0 /\ a > 0 THEN Spread(b, a) > 0 /\ Spread(b, a) = a - b ELSE Spread(b, a) = 0
    BY <1>2, <1>3, <1>6 DEF Spread
  <1>9. x \in SpreadPoint
    BY <1>7, <1>8 DEF SpreadPoint
  <1>10. QED
    BY <1>2, <1>3, <1>4, <1>5, <1>7, <1>8, <1>9 DEF RealSpread

\* The newest element of the spreads.
LEMMA RecordedIs ==
  ASSUME NEW s \in Seq(SpreadPoint), NEW x \in SpreadPoint, NEW new, new = Newest(Append(s, x), MaxSpreads)
  PROVE  new \in Seq(SpreadPoint) /\ new[Len(new)] = x
  <1> DEFINE l == Append(s, x)
  <1>1. l \in Seq(SpreadPoint) /\ Len(l) = Len(s) + 1 /\ l[Len(l)] = x /\ Len(s) \in Nat /\ MaxSpreads \in Nat \ {0}
    BY SimulationAssumption
  <1> HIDE DEF l
  <1>2. CASE Len(l) > MaxSpreads
    <2>1. new = Tail(l)
      BY <1>2 DEF Newest, l
    <2>2. l # <<>> /\ Len(l) >= 2
      BY <1>1, <1>2
    <2>3. Tail(l) \in Seq(SpreadPoint) /\ Len(Tail(l)) = Len(l) - 1 /\ \A i \in 1..(Len(l) - 1) : Tail(l)[i] = l[i + 1]
      BY <1>1, <2>2
    <2>4. Len(l) - 1 \in 1..(Len(l) - 1) /\ (Len(l) - 1) + 1 = Len(l)
      BY <1>1, <2>2
    <2>5. QED
      BY <1>1, <2>1, <2>3, <2>4
  <1>3. CASE ~(Len(l) > MaxSpreads)
    BY <1>1, <1>3 DEF Newest, l
  <1>4. QED
    BY <1>2, <1>3

\* A tick that ends with no call under way records what it sees.
RecordsNow == RecordSpread(SpreadPoints) /\ taker = 0 /\ UNCHANGED bookVars
RecordsThen == taker' = 0 /\ RecordSpread(SpreadPoints')

\* Only the end of a tick records a spread.
LEMMA RecordSteps ==
  ASSUME [FormerNext]_<<formerVars, simVars>>
  PROVE  UNCHANGED spreadHistory \/ RecordsNow \/ RecordsThen
  <1>1. CASE IdleTick
    BY <1>1 DEF IdleTick, RecordsNow, PoolCall
  <1>2. CASE Return
    BY <1>2 DEF Return, TickEnds, RecordsThen, simVars
  <1>3. ASSUME NEW side \in {"buy", "sell"}, NEW type \in {"limit", "market"}, NEW q \in Quantities,
               \/ \E p \in Prices, u \in Users : UserOrder(side, type, p, q, u)
               \/ q > 0 /\ \E x \in Offsets : BotOrder(side, type, x, q)
        PROVE  UNCHANGED spreadHistory
    BY <1>3 DEF UserOrder, BotOrder, PlaceOrder, simVars
  <1>4. ASSUME NEW m \in DOMAIN orders, Fill(m) \/ DeleteOrder(m) \/ \E u \in Users : DeleteOwnOrder(m, u)
        PROVE  UNCHANGED spreadHistory
    <2>1. ASSUME Fill(m) PROVE UNCHANGED simVars
      BY <2>1 DEF Fill
    <2>2. ASSUME CancelOrder(m) PROVE UNCHANGED simVars
      BY <2>2 DEF CancelOrder
    <2>3. QED
      BY <1>4, <2>1, <2>2 DEF DeleteOrder, DeleteOwnOrder, simVars
  <1>5. CASE \E a \in Swaps, t \in Tokens : FormerSwap(a, t)
    BY <1>5 DEF FormerSwap, simVars
  <1>6. CASE \E d \in Deposits : FormerDeposit(d[1], d[2])
    BY <1>6 DEF FormerDeposit, simVars
  <1>7. CASE MinutePasses \/ UNCHANGED <<formerVars, simVars>>
    BY <1>7 DEF MinutePasses, simVars
  <1>8. QED
    BY <1>1, <1>2, <1>3, <1>4, <1>5, <1>6, <1>7 DEF FormerNext

LastIsReal == RealSpread(spreadHistory[Len(spreadHistory)].spread)
NewIsReal == spreadHistory' # spreadHistory => LastIsReal'

\* What is recorded is one of the points.
LEMMA ChosenPoint ==
  ASSUME SpreadInv, NEW P, P \subseteq SpreadPoint, RecordSpread(P)
  PROVE  /\ spreadHistory' \in Seq(SpreadPoint)
         /\ spreadHistory' # spreadHistory => \E x \in P : spreadHistory'[Len(spreadHistory')] = x
  <1>1. CASE P = {}
    BY <1>1 DEF RecordSpread, SpreadInv
  <1>2. CASE P # {}
    <2> DEFINE x == CHOOSE y \in P : TRUE
    <2>1. x \in P /\ x \in SpreadPoint
      BY <1>2
    <2> HIDE DEF x
    <2>2. spreadHistory' = Newest(Append(spreadHistory, x), MaxSpreads)
      BY <1>2 DEF RecordSpread, x
    <2>3. QED
      BY <2>1, <2>2, RecordedIs DEF SpreadInv
  <1>3. QED
    BY <1>1, <1>2

\* What is recorded is real, before or after the bot's order.
LEMMA SpreadStep ==
  ASSUME PointsAreReal, PointsAreReal', SpreadInv, [FormerNext]_<<formerVars, simVars>>
  PROVE  SpreadInv' /\ NewIsReal
  <1>1. CASE UNCHANGED spreadHistory
    BY <1>1 DEF SpreadInv, NewIsReal
  <1>2. CASE RecordsNow
    <2>1. \A x \in SpreadPoints : x \in SpreadPoint /\ RealSpread(x.spread)
      BY <1>2 DEF PointsAreReal, RecordsNow
    <2>2. /\ spreadHistory' \in Seq(SpreadPoint)
          /\ spreadHistory' # spreadHistory => \E x \in SpreadPoints : spreadHistory'[Len(spreadHistory')] = x
      BY <1>2, <2>1, ChosenPoint DEF RecordsNow
    <2>3. \A s : LivePrices(s)' = LivePrices(s)
      BY <1>2 DEF RecordsNow, bookVars, LivePrices, Live
    <2>4. ASSUME NEW x \in SpreadPoints, spreadHistory'[Len(spreadHistory')] = x PROVE LastIsReal'
      BY <2>1, <2>3, <2>4 DEF LastIsReal, RealSpread
    <2>5. QED
      BY <2>2, <2>4 DEF SpreadInv, NewIsReal
  <1>3. CASE RecordsThen
    <2>1. \A x \in SpreadPoints' :
            /\ x \in SpreadPoint /\ LivePrices("sell")' # {} /\ LivePrices("buy")' # {}
            /\ LET bid == Max(LivePrices("buy")')
                   ask == Min(LivePrices("sell")')
               IN IF bid > 0 /\ ask > 0 THEN x.spread > 0 /\ x.spread = ask - bid ELSE x.spread = 0
      BY <1>3 DEF PointsAreReal, RecordsThen, RealSpread
    <2>2. /\ spreadHistory' \in Seq(SpreadPoint)
          /\ spreadHistory' # spreadHistory => \E x \in SpreadPoints' : spreadHistory'[Len(spreadHistory')] = x
      <3> DEFINE P == SpreadPoints'
      <3>1. P \subseteq SpreadPoint /\ RecordSpread(P)
        BY <1>3, <2>1 DEF RecordsThen
      <3> HIDE DEF P
      <3>2. /\ spreadHistory' \in Seq(SpreadPoint)
            /\ spreadHistory' # spreadHistory => \E x \in P : spreadHistory'[Len(spreadHistory')] = x
        BY <3>1, ChosenPoint
      <3>3. QED
        BY <3>2 DEF P
    <2>3. ASSUME NEW x \in SpreadPoints', spreadHistory'[Len(spreadHistory')] = x PROVE LastIsReal'
      BY <2>1, <2>3 DEF LastIsReal, RealSpread
    <2>4. QED
      BY <2>2, <2>3 DEF SpreadInv, NewIsReal
  <1>4. QED
    BY <1>1, <1>2, <1>3, RecordSteps

\* Nothing is recorded at first.
LEMMA SpreadsStart == FormerInit => SpreadInv
  BY DEF FormerInit, initCandle, SimulationInit, SpreadInv

\* The spread of a tick is that of the best live bid and the best live ask, whatever
\* keys cancellations have left behind: positive as long as both prices are, and 0
\* otherwise (getSnapshot, removeFromBook, the end of a tick).
THEOREM SpreadsHold == FormerSpec => SpreadsAreReal
  <1>1. FormerInv => PointsAreReal
    BY RealPoints
  <1>2. PointsAreReal /\ PointsAreReal' /\ SpreadInv /\ [FormerNext]_<<formerVars, simVars>> => SpreadInv' /\ NewIsReal
    BY SpreadStep
  <1>3. NewIsReal =>
          [spreadHistory' # spreadHistory =>
             /\ LivePrices("sell")' # {} /\ LivePrices("buy")' # {}
             /\ LET spread == spreadHistory'[Len(spreadHistory')].spread
                    bid == Max(LivePrices("buy")')
                    ask == Min(LivePrices("sell")')
                IN IF bid > 0 /\ ask > 0 THEN spread > 0 /\ spread = ask - bid ELSE spread = 0
          ]_<<formerVars, simVars>>
    BY DEF NewIsReal, LastIsReal, RealSpread
  <1>4. QED
    BY <1>1, <1>2, <1>3, FormerStarts, StepFormer, SpreadsStart, PTL DEF FormerSpec, SpreadsAreReal
-----------------------------------------------------------------------------
(***************************************************************************)
(* The pool of the former engine.                                          *)
(***************************************************************************)
FormerReservesOK == formerReserve \in Reserves /\ BothPositive(formerReserve)
FormerPoolInv == FormerReservesOK /\ IsPositive(formerLiquidity)

\* What a step does to the pool: it takes nothing from the shares, and gives no
\* order too much.
FormerFair ==
  /\ Grows(formerReserve["A"], formerReserve["B"], formerLiquidity,
           formerReserve'["A"], formerReserve'["B"], formerLiquidity')
  /\ formerLiquidity' # formerLiquidity =>
       formerReserve'["B"] // formerReserve'["A"] = formerReserve["B"] // formerReserve["A"]
FormerMore ==
  ammFill' # ammFill =>
    ammFill'.filled ++ ammFill'.fromPool \preceq ammFill'.quantity ++ SlackOf(formerReserve, ammFill'.side)
FormerPoolStep == FormerPoolInv' /\ FormerFair /\ FormerMore

\* The constructor's pool.
LEMMA FormerPoolStarts == FormerInit => FormerPoolInv
  <1> SUFFICES ASSUME FormerInit PROVE FormerPoolInv
    OBVIOUS
  <1>1. formerReserve = [t \in Tokens |-> IF t = "A" THEN InitialA ELSE InitialB] /\ formerLiquidity = StartShares
    BY DEF FormerInit, FormerPoolInit, StartShares
  <1>2. IsPositive(InitialA) /\ IsPositive(InitialB) /\ IsPositive(StartShares)
    BY PoolStarts
  <1>3. BothPositive(formerReserve)
    BY <1>1, <1>2 DEF BothPositive, Tokens
  <1>4. InitialA \in Ratio /\ InitialB \in Ratio
    BY <1>2, NumbersAreRatios DEF IsPositive
  <1>5. formerReserve \in Reserves
    BY <1>1, <1>4 DEF Reserves
  <1>6. QED
    BY <1>1, <1>2, <1>3, <1>5 DEF FormerPoolInv, FormerReservesOK

\* A step that does not touch the pool.
LEMMA FormerStays ==
  ASSUME FormerPoolInv, UNCHANGED <<formerReserve, formerLiquidity, ammFill>> PROVE FormerPoolStep
  <1>1. IsPositive(formerReserve["A"]) /\ IsPositive(formerReserve["B"]) /\ IsPositive(formerLiquidity)
    BY DEF FormerPoolInv, FormerReservesOK, BothPositive
  <1>2. Grows(formerReserve["A"], formerReserve["B"], formerLiquidity,
              formerReserve["A"], formerReserve["B"], formerLiquidity)
    BY <1>1, GrowsNot
  <1>3. FormerFair /\ FormerMore
    BY <1>2 DEF FormerFair, FormerMore
  <1>4. FormerPoolInv'
    BY DEF FormerPoolInv, FormerReservesOK
  <1>5. QED
    BY <1>3, <1>4 DEF FormerPoolStep

\* A swap of an amount that is not negative.
LEMMA FormerSwapStep ==
  ASSUME FormerPoolInv, NEW a, NotNegative(a), NEW t \in Tokens, executeSwap(a, t)
  PROVE  FormerPoolInv' /\ FormerFair
  <1> DEFINE r == formerReserve
             r1 == SwapOf(r, a, t)
             l == formerLiquidity
  <1>1. r \in Reserves /\ BothPositive(r) /\ IsPositive(l)
    BY DEF FormerPoolInv, FormerReservesOK
  <1>2. formerReserve' = r1 /\ formerLiquidity' = l
    BY FormerSwapped DEF executeSwap
  <1> HIDE DEF r, l
  <1>3. BothPositive(r1) /\ One \preceq (r1["A"] // r["A"]) ** (r1["B"] // r["B"])
    <2>1. r1 = SwapOf(r, a, t)
      OBVIOUS
    <2> HIDE DEF r1
    <2>2. QED
      BY <1>1, <2>1, SwapIsFair
  <1>4. r1 \in Reserves
    <2>1. a \in Ratio
      BY NumbersAreRatios DEF NotNegative
    <2>2. QED
      BY <1>1, <2>1, SwapTypes
  <1> HIDE DEF r1
  <1>5. (l // l) ** (l // l) = One
    BY <1>1, PositiveIs
  <1>6. Grows(r["A"], r["B"], l, r1["A"], r1["B"], l)
    BY <1>3, <1>5 DEF Grows
  <1>7. FormerFair
    BY <1>2, <1>6 DEF FormerFair, r, l
  <1>8. FormerPoolInv'
    BY <1>1, <1>2, <1>3, <1>4 DEF FormerPoolInv, FormerReservesOK
  <1>9. QED
    BY <1>7, <1>8

\* Of two positive amounts, something fits the ratio of positive reserves.
LEMMA FitIsNumber ==
  ASSUME NEW r, BothPositive(r), NEW a, IsPositive(a), NEW b, IsPositive(b)
  PROVE  FitOf(r, a, b)[1] \in Number
  <1> DEFINE ratio == r["B"] // r["A"]
  <1>1. IsPositive(r["A"]) /\ IsPositive(r["B"]) /\ Zero \prec r["A"] /\ Zero \prec r["B"]
    BY DEF BothPositive, IsPositive
  <1>2. IsPositive(ratio)
    BY <1>1, PositiveIs
  <1>3. FitOf(r, a, b) = IF b \prec a ** ratio THEN <<b // ratio, b>> ELSE <<a, a ** ratio>>
    BY <1>1 DEF FitOf
  <1> HIDE DEF ratio
  <1>4. b // ratio \in Number /\ a \in Number
    BY <1>2, PositiveIs DEF IsPositive
  <1>5. QED
    BY <1>3, <1>4

\* A deposit of two positive amounts.
LEMMA FormerDepositStep ==
  ASSUME FormerPoolInv, NEW a, IsPositive(a), NEW b, IsPositive(b), addLiquidity(a, b)
  PROVE  FormerPoolInv' /\ FormerFair
  <1> DEFINE r == formerReserve
             l == formerLiquidity
             c == FitOf(r, a, b)
             s == IssuedOf(r, l, a, b)
             r1 == DepositOf(r, a, b)
             l1 == l ++ s
  <1>1. r \in Reserves /\ BothPositive(r) /\ IsPositive(l)
    BY DEF FormerPoolInv, FormerReservesOK
  <1>2. l # Zero
    BY <1>1, PositiveIs
  <1>3. formerLiquidity' = l1
    BY <1>2, FormerIssued DEF addLiquidity
  <1>4. formerReserve' = r1
    <2>1. formerReserve' = [t \in Tokens |-> r[t] ++ c[IF t = "A" THEN 1 ELSE 2]]
      BY FormerActual DEF addLiquidity
    <2>2. r1 = [t \in Tokens |-> r[t] ++ IF t = "A" THEN c[1] ELSE c[2]]
      BY DEF DepositOf
    <2> HIDE DEF r1, c, r
    <2>3. \A t \in Tokens : c[IF t = "A" THEN 1 ELSE 2] = IF t = "A" THEN c[1] ELSE c[2]
      OBVIOUS
    <2>4. \A t \in Tokens : r[t] ++ c[IF t = "A" THEN 1 ELSE 2] = r[t] ++ IF t = "A" THEN c[1] ELSE c[2]
      BY <2>3
    <2>5. QED
      BY <2>1, <2>2, <2>4
  <1>5. a \in Ratio /\ b \in Ratio /\ Zero \prec a /\ Zero \prec b
    BY NumbersAreRatios DEF IsPositive
  <1>6. c[1] \in Number
    BY <1>1, FitIsNumber
  <1>7. c = FitOf(r, a, b) /\ s = IssuedOf(r, l, a, b) /\ r1 = DepositOf(r, a, b) /\ l1 = l ++ s
    OBVIOUS
  <1>8. r1 \in Reserves
    <2>1. l \in Ratio
      BY <1>1, NumbersAreRatios DEF IsPositive
    <2>2. QED
      BY <1>1, <1>2, <1>5, <2>1, DepositTypes
  <1> HIDE DEF r, l, c, s, r1, l1
  <1>9. /\ SameWorth(r["A"], r["B"], l, r1["A"], r1["B"], l1)
        /\ IsPositive(l1) /\ BothPositive(r1) /\ Grows(r["A"], r["B"], l, r1["A"], r1["B"], l1)
    BY <1>1, <1>5, <1>6, <1>7, DepositIsFair
  <1>10. r1["B"] // r1["A"] = r["B"] // r["A"]
    BY <1>9 DEF SameWorth
  <1>11. FormerFair
    BY <1>3, <1>4, <1>9, <1>10 DEF FormerFair, r, l
  <1>12. FormerPoolInv'
    BY <1>3, <1>4, <1>8, <1>9 DEF FormerPoolInv, FormerReservesOK
  <1>13. QED
    BY <1>11, <1>12

\* Whole quantities, as fractions.
LEMMA WholeOrder ==
  ASSUME NEW f \in Nat, NEW n \in Nat, f < n
  PROVE  Frac(f, Grain) \in Number /\ Frac(n, Grain) \in Number /\ Frac(f, Grain) \prec Frac(n, Grain)
  <1> DEFINE x == Reduce[<<f, Grain>>]
             y == Reduce[<<n, Grain>>]
  <1>1. Frac(f, Grain) = x /\ Frac(n, Grain) = y
    BY DEF Frac
  <1>2. Grain \in Nat \ {0} /\ Grain > 0
    BY FormerAssumption
  <1>3. Is(x, f, Grain) /\ Is(y, n, Grain)
    BY <1>2, ReduceIs
  <1> HIDE DEF x, y
  <1>4. x \prec y <=> f * Grain < n * Grain
    <2> DEFINE g == Grain
    <2>1. Is(x, f, g) /\ Is(y, n, g) /\ g > 0
      BY <1>2, <1>3
    <2> HIDE DEF g
    <2>2. x \prec y <=> f * g < n * g
      BY <2>1, BelowIs
    <2>3. QED
      BY <2>2 DEF g
  <1>5. f * Grain < n * Grain
    BY <1>2
  <1>6. x \in Number /\ y \in Number
    BY <1>3 DEF Is
  <1>7. QED
    BY <1>1, <1>4, <1>5, <1>6

\* What the book leaves of a market order.
LEMMA FormerRouteStep ==
  ASSUME FormerPoolInv, NEW o, o.filled \in Number, o.quantity \in Number, o.filled \prec o.quantity, RouteRemainder(o)
  PROVE  FormerPoolStep
  <1> DEFINE t == IF o.side = "buy" THEN "B" ELSE "A"
             r == formerReserve
  <1>1. Pool!SpotPrice = r["B"] // r["A"]
    BY SameQuotient DEF Pool!SpotPrice
  <1>2. Pool!PoolIn(o) = RemainderOf(r, o)
    BY <1>1, SameDifference, SameProduct, SameFixed DEF Pool!PoolIn, RemainderOf
  <1>3. Pool!PoolFill(o) = GivenOf(r, o)
    <2>1. \A a : Pool!AmountOut(a, "B") = AmountOf(r, a, "B")
      <3>1. \A u : Pool!OtherToken(u) = OtherToken(u)
        BY DEF OtherToken, Pool!OtherToken
      <3>2. QED
        BY <3>1, SameSum, SameDifference, SameProduct, SameQuotient, SameNumbers
           DEF Pool!AmountOut, AmountOf, PaidOut, AfterFee
    <2>2. QED
      BY <1>2, <2>1 DEF Pool!PoolFill, GivenOf
  <1>4. executeSwap(RemainderOf(r, o), t)
    BY <1>2 DEF RouteRemainder
  <1>5. ammFill' = [side |-> o.side, quantity |-> o.quantity, filled |-> o.filled, fromPool |-> GivenOf(r, o)]
    BY <1>3 DEF RouteRemainder
  <1>6. t \in Tokens
    BY DEF Tokens
  <1>7. BothPositive(r)
    BY DEF FormerPoolInv, FormerReservesOK
  <1> HIDE DEF t, r
  <1>8. NotNegative(RemainderOf(r, o)) /\ o.filled ++ GivenOf(r, o) \preceq o.quantity ++ SlackOf(r, o.side)
    BY <1>7, RemainderIs
  <1>9. FormerPoolInv' /\ FormerFair
    BY <1>4, <1>6, <1>8, FormerSwapStep
  <1>10. FormerMore
    BY <1>5, <1>8 DEF FormerMore, r
  <1>11. QED
    BY <1>9, <1>10 DEF FormerPoolStep

\* Every step of the former engine keeps its pool sound.
LEMMA FormerPoolSteps ==
  ASSUME FormerInv, FormerPoolInv, [FormerNext]_<<formerVars, simVars>> PROVE FormerPoolStep
  <1>1. ASSUME NEW a \in Swaps, NEW t \in Tokens, Zero \prec a, executeSwap(a, t), UNCHANGED ammFill PROVE FormerPoolStep
    <2>1. NotNegative(a)
      <3>1. a \in Number
        BY AmmAssumption, FiniteIs DEF AmmAssumption
      <3>2. QED
        BY <1>1, <3>1, ZeroIs, Ordered DEF NotNegative
    <2>2. FormerPoolInv' /\ FormerFair
      BY <1>1, <2>1, FormerSwapStep
    <2>3. QED
      BY <1>1, <2>2 DEF FormerPoolStep, FormerMore
  <1>2. ASSUME NEW a \in Swaps, NEW t \in Tokens, FormerSwap(a, t) PROVE FormerPoolStep
    BY <1>1, <1>2 DEF FormerSwap
  <1>3. ASSUME NEW d \in Deposits, FormerDeposit(d[1], d[2]) PROVE FormerPoolStep
    <2> DEFINE a == d[1]
               b == d[2]
    <2>1. IsPositive(a) /\ IsPositive(b) /\ addLiquidity(a, b) /\ UNCHANGED ammFill
      BY <1>3, AmmAssumption, FiniteIs DEF AmmAssumption, IsPositive, FormerDeposit
    <2> HIDE DEF a, b
    <2>2. FormerPoolInv' /\ FormerFair
      BY <2>1, FormerDepositStep
    <2>3. QED
      BY <2>1, <2>2 DEF FormerPoolStep, FormerMore
  <1>4. CASE UNCHANGED poolVars
    BY <1>4, FormerStays DEF poolVars
  <1>5. CASE IdleTick
    <2>1. UNCHANGED ammFill
      BY <1>5 DEF IdleTick
    <2>2. \/ \E a \in Swaps, t \in Tokens : Zero \prec a /\ executeSwap(a, t)
          \/ UNCHANGED <<formerReserve, formerLiquidity>>
      BY <1>5 DEF IdleTick
    <2>3. QED
      BY <1>1, <2>1, <2>2, FormerStays
  <1>6. CASE Return
    <2> DEFINE o == [side |-> orders[taker].side, quantity |-> Frac(orders[taker].quantity, Grain),
                     filled |-> Frac(filled[taker], Grain)]
    <2>1. \/ RouteRemainder(o) /\ ~Complete
          \/ UNCHANGED <<formerReserve, formerLiquidity, ammFill>>
      BY <1>6 DEF Return
    <2>2. taker \in Placed
      BY <1>6 DEF Return, FormerInv, FormerShape
    <2> DEFINE f == filled[taker]
               n == orders[taker].quantity
    <2>3. f \in Nat /\ n \in Nat /\ f <= n
      BY <2>2, OrderIs DEF FormerInv, FormerShape, FillsAgree
    <2>4. ASSUME RouteRemainder(o), ~Complete PROVE FormerPoolStep
      <3>1. f # n
        BY <2>4 DEF Complete
      <3> HIDE DEF f, n
      <3>2. f < n
        BY <2>3, <3>1
      <3>3. Frac(f, Grain) \in Number /\ Frac(n, Grain) \in Number /\ Frac(f, Grain) \prec Frac(n, Grain)
        BY <2>3, <3>2, WholeOrder
      <3>4. o.filled = Frac(f, Grain) /\ o.quantity = Frac(n, Grain)
        BY DEF f, n
      <3> HIDE DEF o
      <3>5. QED
        BY <2>4, <3>3, <3>4, FormerRouteStep
    <2>5. QED
      BY <2>1, <2>4, FormerStays
  <1>7. ASSUME NEW side, NEW type, NEW p, NEW q, NEW trader, PlaceOrder(side, type, p, q, trader)
        PROVE  UNCHANGED poolVars
    BY <1>7 DEF PlaceOrder
  <1>8. ASSUME NEW m, Fill(m) \/ CancelOrder(m) PROVE UNCHANGED poolVars
    <2>1. ASSUME Fill(m) PROVE UNCHANGED poolVars
      BY <2>1 DEF Fill
    <2>2. ASSUME CancelOrder(m) PROVE UNCHANGED poolVars
      BY <2>2 DEF CancelOrder
    <2>3. QED
      BY <1>8, <2>1, <2>2
  <1>9. CASE UNCHANGED <<formerVars, simVars>> \/ (MinutePasses /\ UNCHANGED formerVars)
    BY <1>4, <1>9 DEF formerVars
  <1>10. CASE \E side \in {"buy", "sell"}, type \in {"limit", "market"}, q \in Quantities :
                \/ \E p \in Prices, u \in Users : UserOrder(side, type, p, q, u)
                \/ q > 0 /\ \E x \in Offsets : BotOrder(side, type, x, q)
    BY <1>4, <1>7, <1>10 DEF UserOrder, BotOrder
  <1>11. CASE \E m \in DOMAIN orders : Fill(m) \/ DeleteOrder(m) \/ \E u \in Users : DeleteOwnOrder(m, u)
    BY <1>4, <1>8, <1>11 DEF DeleteOrder, DeleteOwnOrder
  <1>12. QED
    BY <1>2, <1>3, <1>5, <1>6, <1>9, <1>10, <1>11 DEF FormerNext

\* So the pool is sound throughout.
LEMMA FormerPoolInvariance ==
  FormerInv /\ FormerPoolInv /\ [FormerNext]_<<formerVars, simVars>> => FormerPoolInv' /\ FormerFair /\ FormerMore
  BY FormerPoolSteps DEF FormerPoolStep

\* What the former engine shows and answers is sound: the spreads are real, book
\* and pool together never give more than a market order asks for and what its
\* amounts were rounded up by, and no swap or deposit takes value from the shares
\* there are (getSnapshot, the order route, executeSwap, addLiquidity).
THEOREM FormerAnswersHold == FormerSpec => FormerAnswers
  <1>1. FormerMore =>
          [Pool!Sound /\ ammFill' # ammFill =>
             Pool!\preceq(Pool!++(ammFill'.filled, ammFill'.fromPool),
                           Pool!++(ammFill'.quantity, Pool!Slack(ammFill'.side)))]_(Pool!ammVars)
    BY SameSum, SameBelow, SameSlack DEF FormerMore
  <1>2. FormerFair =>
          [Pool!Sound /\ Pool!Sound' =>
             /\ LET growth == Pool!//(formerLiquidity', formerLiquidity) IN
                Pool!\preceq(Pool!**(growth, growth),
                  Pool!**(Pool!//(formerReserve["A"]', formerReserve["A"]), Pool!//(formerReserve["B"]', formerReserve["B"])))
             /\ formerLiquidity' # formerLiquidity => Pool!SpotPrice' = Pool!SpotPrice]_(Pool!ammVars)
    <2>1. Pool!SpotPrice = formerReserve["B"] // formerReserve["A"] /\ Pool!SpotPrice' = formerReserve'["B"] // formerReserve'["A"]
      BY SameQuotient DEF Pool!SpotPrice
    <2>2. QED
      BY <2>1, SameProduct, SameQuotient, SameBelow DEF FormerFair, Grows
  <1>3. FormerSpec => Pool!NeverOverfilled
    BY <1>1, FormerStarts, StepFormer, FormerPoolStarts, FormerPoolInvariance, PTL DEF FormerSpec, Pool!NeverOverfilled
  <1>4. FormerSpec => Pool!PoolIsFair
    BY <1>2, FormerStarts, StepFormer, FormerPoolStarts, FormerPoolInvariance, PTL DEF FormerSpec, Pool!PoolIsFair
  <1>5. QED
    BY <1>3, <1>4, SpreadsHold DEF FormerAnswers
=============================================================================
