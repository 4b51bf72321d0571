---------------------- MODULE OrderBookContract_proofs ----------------------
(***************************************************************************)
(* Proofs about OrderBookContract, and about the subgraph that follows it  *)
(* (IndexedBook), for every set of traders, pairs, orders, signatures and  *)
(* commitments, and any number of blocks.                                  *)
(***************************************************************************)
EXTENDS IndexedBook, Library_proofs, SequenceTheorems, FiniteSetTheorems, TLAPS

\* ins is arr with x after its first k elements.
Inserted(ins, arr, k, x) ==
  /\ Len(ins) = Len(arr) + 1
  /\ \A i \in 1..k : ins[i] = arr[i]
  /\ ins[k + 1] = x
  /\ \A i \in (k + 2)..(Len(arr) + 1) : ins[i] = arr[i - 1]

\* An element put into an array stands at its index; those behind it move up.
LEMMA InsertFacts ==
  ASSUME NEW S, NEW arr \in Seq(S), NEW k \in 0..Len(arr), NEW x \in S
  PROVE  InsertAt(arr, k + 1, x) \in Seq(S) /\ Inserted(InsertAt(arr, k + 1, x), arr, k, x)
  <1> DEFINE n == Len(arr)
             front == SubSeq(arr, 1, (k + 1) - 1)
             back == SubSeq(arr, k + 1, n)
  <1>1. n \in Nat /\ k \in Nat /\ k <= n /\ \A i \in 1..n : arr[i] \in S
    OBVIOUS
  <1> HIDE DEF n
  <1>2. /\ front \in Seq(S) /\ Len(front) = k /\ \A i \in 1..k : front[i] = arr[i]
    <2>1. 1 \in Int /\ (k + 1) - 1 \in Int /\ (k + 1) - 1 = k /\ \A i \in 1..((k + 1) - 1) : arr[i] \in S
      BY <1>1
    <2>2. /\ front \in Seq(S)
          /\ Len(front) = IF 1 <= (k + 1) - 1 THEN ((k + 1) - 1) - 1 + 1 ELSE 0
          /\ \A i \in 1..(((k + 1) - 1) - 1 + 1) : front[i] = arr[1 + i - 1]
      BY <2>1, SubSeqProperties DEF front
    <2> HIDE DEF front
    <2>3. QED
      BY <1>1, <2>2
  <1>3. back \in Seq(S) /\ Len(back) = n - k /\ \A i \in 1..(n - k) : back[i] = arr[i + k]
    <2>1. k + 1 \in Int /\ n \in Int /\ \A i \in (k + 1)..n : arr[i] \in S
      BY <1>1
    <2>2. /\ back \in Seq(S)
          /\ Len(back) = IF k + 1 <= n THEN n - (k + 1) + 1 ELSE 0
          /\ \A i \in 1..(n - (k + 1) + 1) : back[i] = arr[k + 1 + i - 1]
      BY <2>1, SubSeqProperties DEF back
    <2> HIDE DEF back
    <2>3. QED
      BY <1>1, <2>2
  <1>4. InsertAt(arr, k + 1, x) = front \o <<x>> \o back
    <2>1. InsertAt(arr, k + 1, x) = SubSeq(arr, 1, (k + 1) - 1) \o <<x>> \o SubSeq(arr, k + 1, Len(arr))
      BY DEF InsertAt
    <2>2. QED
      BY <2>1 DEF front, back, n
  <1> HIDE DEF front, back
  <1>5. /\ front \o <<x>> \in Seq(S) /\ Len(front \o <<x>>) = k + 1
        /\ \A i \in 1..k : (front \o <<x>>)[i] = arr[i]
        /\ (front \o <<x>>)[k + 1] = x
    <2>1. <<x>> \in Seq(S) /\ Len(<<x>>) = 1 /\ <<x>>[1] = x
      OBVIOUS
    <2>2. QED
      BY <1>1, <1>2, <2>1, ConcatProperties
  <1> DEFINE ahead == front \o <<x>>
  <1>6. ahead \in Seq(S) /\ back \in Seq(S) /\ InsertAt(arr, k + 1, x) = ahead \o back
    BY <1>3, <1>4, <1>5
  <1>7. Len(ahead) = k + 1 /\ ahead[k + 1] = x /\ \A i \in 1..k : ahead[i] = arr[i]
    BY <1>5
  <1> HIDE DEF ahead
  <1>8. /\ ahead \o back \in Seq(S) /\ Len(ahead \o back) = Len(ahead) + Len(back)
        /\ \A i \in 1..(Len(ahead) + Len(back)) :
             (ahead \o back)[i] = IF i <= Len(ahead) THEN ahead[i] ELSE back[i - Len(ahead)]
    BY <1>6, ConcatProperties
  <1> DEFINE ins == InsertAt(arr, k + 1, x)
  <1>9. /\ ins \in Seq(S) /\ Len(ins) = n + 1
        /\ \A i \in 1..(n + 1) : ins[i] = IF i <= k + 1 THEN ahead[i] ELSE back[i - (k + 1)]
    <2>1. Len(ahead) + Len(back) = n + 1
      BY <1>1, <1>3, <1>7
    <2>2. QED
      BY <1>6, <1>7, <1>8, <2>1
  <1> HIDE DEF ins
  <1>10. \A i \in 1..k : i \in 1..(n + 1) /\ i <= k + 1
    BY <1>1
  <1>11. \A i \in (k + 2)..(n + 1) :
           /\ i \in 1..(n + 1) /\ ~(i <= k + 1)
           /\ i - (k + 1) \in 1..(n - k) /\ (i - (k + 1)) + k = i - 1
    BY <1>1
  <1>12. \A i \in (k + 2)..(n + 1) : ins[i] = arr[i - 1]
    <2>1. TAKE i \in (k + 2)..(n + 1)
    <2>2. ins[i] = back[i - (k + 1)]
      BY <1>9, <1>11
    <2>3. back[i - (k + 1)] = arr[(i - (k + 1)) + k]
      BY <1>3, <1>11
    <2>4. QED
      BY <1>11, <2>2, <2>3
  <1>13. k + 1 \in 1..(n + 1)
    BY <1>1
  <1>14. QED
    BY <1>7, <1>9, <1>10, <1>12, <1>13 DEF n, ins, Inserted

\* What is left of an array without its head.
LEMMA TailFacts ==
  ASSUME NEW S, NEW arr \in Seq(S), arr # <<>>
  PROVE  /\ Tail(arr) \in Seq(S) /\ Len(Tail(arr)) = Len(arr) - 1 /\ Len(arr) \in Nat
         /\ Len(arr) > 0 /\ Head(arr) = arr[1]
         /\ \A i \in 1..(Len(arr) - 1) : Tail(arr)[i] = arr[i + 1]
  <1>1. Len(arr) \in Nat /\ Len(arr) > 0
    BY EmptySeq
  <1>2. Head(arr) = arr[1]
    BY <1>1
  <1>3. QED
    BY <1>1, <1>2, HeadTailProperties

\* What BookInv says of the book: all but the types of the other variables.
Book ==
  BookTypeOK /\ Unwritten /\ QueueSorted /\ QueueHolds /\ FillsAgree /\ OnlyArrivalCrosses

\* The invariant of the book, in two parts.
LEMMA BookInvParts == BookInv <=> Book /\ AccountsTypeOK
  BY DEF BookInv, Book, ContractTypeOK

\* The orders that exist are records of a placement.
LEMMA PlacedFacts ==
  ASSUME BookTypeOK
  PROVE  /\ orderNonce \in Nat /\ orderNonce <= MaxOrders
         /\ \A o \in Placed :
              /\ o \in Id /\ o \in Nat /\ o <= orderNonce /\ orders[o] \in OrderRecord
              /\ orders[o].pair \in Pairs /\ orders[o].side \in Side /\ orders[o].price \in Nat
              /\ orders[o].quantity \in Nat /\ orders[o].quantity > 0
              /\ orders[o].expiry \in Nat /\ orders[o].timestamp \in Nat
              /\ filled[o] \in Nat /\ status[o] \in OrderStatus
  <1>1. orderNonce \in Nat /\ orderNonce <= MaxOrders /\ MaxOrders \in Nat
    BY ContractAssumption DEF BookTypeOK
  <1>2. \A o \in Placed : o \in Id /\ o \in Nat /\ o <= orderNonce /\ ~(o > orderNonce)
    BY <1>1 DEF Placed, Id
  <1>3. \A o \in Placed : orders[o] \in OrderRecord
    BY <1>2 DEF BookTypeOK
  <1>4. \A o \in Placed : filled[o] \in Nat /\ status[o] \in OrderStatus
    BY <1>2 DEF BookTypeOK
  <1>5. QED
    BY <1>1, <1>2, <1>3, <1>4 DEF OrderRecord

\* The array of a side holds orders that exist, of its pair and side.
LEMMA QueueFacts ==
  ASSUME BookTypeOK, QueueHolds, NEW p \in Pairs, NEW s \in Side
  PROVE  /\ queue[p][s] \in Seq(Placed) /\ Len(queue[p][s]) \in Nat
         /\ DOMAIN queue[p][s] = 1..Len(queue[p][s])
         /\ \A i \in DOMAIN queue[p][s] :
              /\ i \in Nat /\ queue[p][s][i] \in Placed
              /\ orders[queue[p][s][i]].pair = p /\ orders[queue[p][s][i]].side = s
              /\ status[queue[p][s][i]] # "FILLED"
  <1>1. queue[p][s] \in Seq(Placed)
    BY DEF BookTypeOK
  <1>2. Len(queue[p][s]) \in Nat /\ DOMAIN queue[p][s] = 1..Len(queue[p][s])
    BY <1>1
  <1>3. \A i \in DOMAIN queue[p][s] : i \in Nat /\ queue[p][s][i] \in Placed
    BY <1>1, <1>2
  <1>4. QED
    BY <1>1, <1>2, <1>3 DEF QueueHolds

\* Nothing crosses between transactions.
LEMMA IdleUncrossed ==
  ASSUME Book, Idle, NEW p \in Pairs
  PROVE  Uncrossed(p)
  <1> SUFFICES ASSUME NEW i \in DOMAIN queue[p]["BUY"], NEW j \in DOMAIN queue[p]["SELL"]
               PROVE  orders[queue[p]["BUY"][i]].price < orders[queue[p]["SELL"][j]].price
    BY DEF Uncrossed
  <1>1. p # matching
    BY ContractAssumption DEF Idle
  <1>2. ~(orders[queue[p]["BUY"][i]].price >= orders[queue[p]["SELL"][j]].price)
    BY <1>1 DEF Book, OnlyArrivalCrosses
  <1>3. queue[p]["BUY"][i] \in Placed /\ queue[p]["SELL"][j] \in Placed
    BY QueueFacts DEF Book, Side
  <1>4. QED
    BY <1>2, <1>3, PlacedFacts DEF Book

\* A call that leaves the arrays alone keeps the book: it may cancel orders that are
\* not filled, let time pass, or start _tryMatch.
LEMMA QuietInv ==
  ASSUME Book, Idle, UNCHANGED <<orderNonce, orders, filled, queue, executed>>,
         matching' \in Pairs \cup {NoPair}, now' \in Nat, now <= now',
         status' \in [Id -> OrderStatus],
         \A o \in Id : \/ status'[o] = status[o]
                       \/ o \in Placed /\ Cancellable(o) /\ status'[o] = "CANCELLED"
  PROVE  Book'
  <1> USE DEF Book
  <1>1. BookTypeOK'
    BY DEF BookTypeOK, Placed
  <1>2. Placed' = Placed /\ \A o \in Placed : o \in Id
    BY PlacedFacts DEF Placed
  <1>3. Unwritten'
    <2>1. \A o \in Id : o > orderNonce => o \notin Placed
      BY PlacedFacts DEF Id, Placed
    <2>2. QED
      BY <2>1 DEF Unwritten
  <1>4. QueueSorted'
    BY DEF QueueSorted, Precedes, BetterPrice
  <1>5. \A o \in Placed : CanTrade(o)' => CanTrade(o)
    BY <1>2, PlacedFacts DEF CanTrade, IsInactive, IsExpired, BookTypeOK
  <1>6. \A o \in Placed : status'[o] = "FILLED" <=> status[o] = "FILLED"
    BY <1>2 DEF Cancellable
  <1>7. QueueHolds'
    <2>1. \A p \in Pairs, s \in Side : \A i \in DOMAIN queue[p][s] : queue[p][s][i] \in Placed
      BY QueueFacts
    <2>2. QED
      BY <1>2, <1>5, <1>6, <2>1 DEF QueueHolds
  <1>8. FillsAgree'
    <2> SUFFICES ASSUME NEW o \in Placed
                 PROVE  /\ filled[o] <= orders[o].quantity
                        /\ status'[o] = "FILLED" <=> filled[o] = orders[o].quantity
                        /\ status'[o] = "OPEN" => filled[o] = 0
                        /\ status'[o] = "PARTIALLY_FILLED" => filled[o] > 0
      BY <1>2 DEF FillsAgree
    <2>1. status'[o] = status[o] \/ (Cancellable(o) /\ status'[o] = "CANCELLED")
      BY <1>2
    <2>2. QED
      BY <1>6, <2>1 DEF FillsAgree
  <1>9. OnlyArrivalCrosses'
    <2>1. \A p \in Pairs : Uncrossed(p)
      BY IdleUncrossed
    <2>2. \A p \in Pairs : \A i \in DOMAIN queue[p]["BUY"], j \in DOMAIN queue[p]["SELL"] :
            ~(orders[queue[p]["BUY"][i]].price >= orders[queue[p]["SELL"][j]].price)
      <3> SUFFICES ASSUME NEW p \in Pairs, NEW i \in DOMAIN queue[p]["BUY"],
                          NEW j \in DOMAIN queue[p]["SELL"]
                   PROVE  ~(orders[queue[p]["BUY"][i]].price >= orders[queue[p]["SELL"][j]].price)
        OBVIOUS
      <3>1. queue[p]["BUY"][i] \in Placed /\ queue[p]["SELL"][j] \in Placed
        BY QueueFacts DEF Side
      <3>2. QED
        BY <2>1, <3>1, PlacedFacts DEF Uncrossed
    <2>3. QED
      BY <2>2 DEF OnlyArrivalCrosses
  <1>10. QED
    BY <1>1, <1>3, <1>4, <1>7, <1>8, <1>9

\* What a placement writes: the new order, at the index where it stops.
LEMMA CreateFacts ==
  ASSUME Book, NEW r \in Submission, NEW nonce \in Nat, CreateOrder(r, nonce),
         NEW n, n = orderNonce + 1
  PROVE  /\ orderNonce' = n /\ n \in Id /\ n \notin Placed /\ Placed' = Placed \cup {n}
         /\ orders'[n] = OrderOf(r, nonce) /\ OrderOf(r, nonce) \in OrderRecord
         /\ \A o \in Placed : orders'[o] = orders[o]
         /\ orders' \in [Id -> OrderRecord \cup {NoOrder}]
         /\ \A o \in Id : orders'[o] = NoOrder <=> o > n
         /\ status[n] = "OPEN" /\ filled[n] = 0
         /\ UNCHANGED <<filled, status, executed, now, bookPaused>>
         /\ ~bookPaused /\ matching' = r.pair /\ r.pair \in Pairs /\ r.side \in Side
         /\ \A o \in Placed : o < n
  <1> USE DEF Book
  <1>1. /\ orderNonce \in Nat /\ n \in Nat /\ n \in Id /\ n \notin Placed /\ n > orderNonce
        /\ \A o \in Placed : o \in Id /\ o # n /\ o < n
    BY PlacedFacts, ContractAssumption DEF CreateOrder, Placed, Id
  <1>2. orderNonce' = n /\ Placed' = Placed \cup {n}
    BY <1>1 DEF CreateOrder, Placed
  <1>3. OrderOf(r, nonce) \in OrderRecord
    BY DEF OrderOf, OrderRecord, Submission, CreateOrder, BookTypeOK
  <1>4. NoOrder \notin OrderRecord
    BY ContractAssumption DEF NoOrder, OrderRecord
  <1> HIDE DEF Book
  <1>5. orders' = [orders EXCEPT ![n] = OrderOf(r, nonce)] /\ orders \in [Id -> OrderRecord \cup {NoOrder}]
    BY DEF CreateOrder, Book, BookTypeOK
  <1>6. /\ orders'[n] = OrderOf(r, nonce) /\ \A o \in Id : o # n => orders'[o] = orders[o]
        /\ orders' \in [Id -> OrderRecord \cup {NoOrder}]
    BY <1>1, <1>3, <1>5
  <1>7. \A o \in Id : orders'[o] = NoOrder <=> o > n
    <2>1. \A o \in Id : o \in Nat
      BY DEF Id
    <2>2. \A o \in Id : orders[o] = NoOrder <=> o > orderNonce
      BY DEF Book, BookTypeOK
    <2>3. QED
      BY <1>1, <1>3, <1>4, <1>6, <2>1, <2>2
  <1>8. status[n] = "OPEN" /\ filled[n] = 0
    BY <1>1 DEF Book, Unwritten
  <1>9. /\ UNCHANGED <<filled, status, executed, now, bookPaused>>
        /\ ~bookPaused /\ matching' = r.pair /\ r.pair \in Pairs /\ r.side \in Side
    BY DEF CreateOrder, configVars, Submission
  <1>10. QED
    BY <1>1, <1>2, <1>3, <1>6, <1>7, <1>8, <1>9

\* Where the new order goes: behind the orders it does not beat, ahead of the rest.
LEMMA CreatedQueue ==
  ASSUME Book, NEW r \in Submission, NEW nonce \in Nat, CreateOrder(r, nonce),
         NEW n, n = orderNonce + 1
  PROVE  \E k \in 0..Len(queue[r.pair][r.side]) :
           /\ StopsBehind(k, r.side, r.price, queue[r.pair][r.side])
           /\ Inserted(queue'[r.pair][r.side], queue[r.pair][r.side], k, n)
           /\ queue' \in [Pairs -> [Side -> Seq(Placed')]]
           /\ \A p \in Pairs, s \in Side : ~(p = r.pair /\ s = r.side) => queue'[p][s] = queue[p][s]
  <1> DEFINE arr == queue[r.pair][r.side]
  <1>1. Placed' = Placed \cup {n} /\ r.pair \in Pairs /\ r.side \in Side
    BY CreateFacts
  <1>2. queue \in [Pairs -> [Side -> Seq(Placed)]]
    BY DEF Book, BookTypeOK
  <1>3. PICK k \in 0..Len(arr) :
          /\ StopsBehind(k, r.side, r.price, arr)
          /\ queue' = [queue EXCEPT ![r.pair][r.side] = InsertAt(@, k + 1, n)]
    BY DEF CreateOrder
  <1>4. \A a \in Seq(Placed) : a \in Seq(Placed')
    BY <1>1
  <1>5. InsertAt(arr, k + 1, n) \in Seq(Placed') /\ Inserted(InsertAt(arr, k + 1, n), arr, k, n)
    <2>1. arr \in Seq(Placed') /\ n \in Placed'
      BY <1>1, <1>2, <1>4
    <2>2. QED
      BY <2>1, InsertFacts
  <1>6. queue'[r.pair][r.side] = InsertAt(arr, k + 1, n)
    BY <1>1, <1>2, <1>3
  <1>7. \A p \in Pairs, s \in Side : ~(p = r.pair /\ s = r.side) => queue'[p][s] = queue[p][s]
    BY <1>1, <1>2, <1>3
  <1>8. queue' \in [Pairs -> [Side -> Seq(Placed')]]
    <2>1. queue \in [Pairs -> [Side -> Seq(Placed')]]
      BY <1>2, <1>4
    <2>2. QED
      BY <1>1, <1>3, <1>5, <2>1
  <1>9. WITNESS k \in 0..Len(queue[r.pair][r.side])
  <1>10. QED
    BY <1>3, <1>5, <1>6, <1>7, <1>8

\* Precedes, of the orders os.
Before(os, x, y) ==
  \/ IF os[x].side = "BUY" THEN os[x].price > os[y].price ELSE os[x].price < os[y].price
  \/ os[x].price = os[y].price /\ x < y

\* The order of the queues is the one the library sorts by.
LEMMA PrecedesIsBefore == \A x, y : Precedes(x, y) <=> Before(orders, x, y)
  BY DEF Precedes, BetterPrice, Before

\* The terms of the orders in the arrays do not change when an order is created.
LEMMA CreatedTerms ==
  ASSUME Book, NEW r \in Submission, NEW nonce \in Nat, CreateOrder(r, nonce),
         NEW x \in Placed, NEW y \in Placed
  PROVE  Before(orders', x, y) <=> Before(orders, x, y)
  <1>1. orders'[x] = orders[x] /\ orders'[y] = orders[y]
    BY CreateFacts
  <1>2. QED
    BY <1>1 DEF Before

\* An order that does not beat another of its side, which came before it, stands after it.
LEMMA NotBeaten ==
  ASSUME Book, NEW r \in Submission, NEW nonce \in Nat, CreateOrder(r, nonce),
         NEW n, n = orderNonce + 1, NEW x \in Placed, orders[x].side = r.side
  PROVE  /\ ~Beats(r.side, r.price, orders[x].price) => Before(orders', x, n)
         /\ Beats(r.side, r.price, orders[x].price) => Before(orders', n, x)
  <1>1. /\ orders'[x] = orders[x] /\ orders'[n] = OrderOf(r, nonce) /\ x < n
        /\ r.side \in Side
    BY CreateFacts
  <1>2. orders'[n].side = r.side /\ orders'[n].price = r.price /\ r.price \in Nat
    BY <1>1 DEF OrderOf, Submission
  <1>3. orders[x].price \in Nat
    BY PlacedFacts DEF Book
  <1>4. QED
    BY <1>1, <1>2, <1>3 DEF Beats, Before, Side

\* Standing before an order that stands before the new one is standing before it.
LEMMA PrecedesNew ==
  ASSUME Book, NEW r \in Submission, NEW nonce \in Nat, CreateOrder(r, nonce),
         NEW n, n = orderNonce + 1, NEW x \in Placed, NEW y \in Placed,
         orders[x].side = r.side, orders[y].side = r.side,
         Before(orders, x, y), ~Beats(r.side, r.price, orders[y].price)
  PROVE  Before(orders', x, n)
  <1>1. orders[x].price \in Nat /\ orders[y].price \in Nat /\ r.price \in Nat /\ r.side \in Side
    BY PlacedFacts DEF Book, Submission
  <1>2. ~Beats(r.side, r.price, orders[x].price)
    BY <1>1 DEF Before, Beats, Side
  <1>3. QED
    BY <1>2, NotBeaten

\* The array that takes the new order stays sorted.
LEMMA InsertSorted ==
  ASSUME Book, NEW r \in Submission, NEW nonce \in Nat, CreateOrder(r, nonce),
         NEW i \in DOMAIN queue'[r.pair][r.side], NEW j \in DOMAIN queue'[r.pair][r.side], i < j
  PROVE  Before(orders', queue'[r.pair][r.side][i], queue'[r.pair][r.side][j])
  <1> DEFINE n == orderNonce + 1
             arr == queue[r.pair][r.side]
             ins == queue'[r.pair][r.side]
             m == Len(arr)
  <1> USE DEF Book
  <1>1. PICK k \in 0..m : /\ StopsBehind(k, r.side, r.price, arr)
                          /\ Inserted(ins, arr, k, n)
                          /\ queue' \in [Pairs -> [Side -> Seq(Placed')]]
    BY CreatedQueue
  <1>2. r.pair \in Pairs /\ r.side \in Side
    BY CreateFacts
  <1>3. /\ m \in Nat /\ DOMAIN arr = 1..m
        /\ \A x \in 1..m : arr[x] \in Placed /\ orders[arr[x]].side = r.side
    BY <1>2, QueueFacts
  <1>4. \A x, y \in 1..m : x < y => Before(orders, arr[x], arr[y])
    BY <1>2, <1>3, PrecedesIsBefore DEF QueueSorted
  <1>5. /\ Len(ins) = m + 1
        /\ \A x \in 1..k : ins[x] = arr[x]
        /\ ins[k + 1] = n
        /\ \A x \in (k + 2)..(m + 1) : ins[x] = arr[x - 1]
    BY <1>1 DEF Inserted
  <1>6. /\ k > 0 => ~Beats(r.side, r.price, orders[arr[k]].price)
        /\ \A x \in (k + 1)..m : Beats(r.side, r.price, orders[arr[x]].price)
    BY <1>1 DEF StopsBehind
  <1>7. i \in 1..(m + 1) /\ j \in 1..(m + 1)
    <2>1. ins \in Seq(Placed')
      BY <1>1, <1>2
    <2>2. DOMAIN ins = 1..Len(ins)
      BY <2>1
    <2>3. QED
      BY <1>5, <2>2
  <1>8. \A x, y \in 1..m : x < y => Before(orders', arr[x], arr[y])
    BY <1>3, <1>4, CreatedTerms
  <1>9. \A x \in 1..k : Before(orders', arr[x], n)
    <2> SUFFICES ASSUME NEW x \in 1..k PROVE Before(orders', arr[x], n)
      OBVIOUS
    <2>1. x \in 1..m /\ k \in 1..m /\ k > 0
      BY <1>3
    <2>2. CASE x = k
      BY <1>3, <1>6, <2>1, <2>2, NotBeaten
    <2>3. CASE x < k
      <3>1. Before(orders, arr[x], arr[k])
        BY <1>4, <2>1, <2>3
      <3>2. QED
        BY <1>3, <1>6, <2>1, <3>1, PrecedesNew
    <2>4. QED
      BY <2>1, <2>2, <2>3
  <1>10. \A x \in (k + 1)..m : Before(orders', n, arr[x])
    BY <1>3, <1>6, NotBeaten
  <1> HIDE DEF n, arr, ins, m
  <1>11. CASE j <= k
    <2>1. i \in 1..k /\ j \in 1..k /\ i \in 1..m /\ j \in 1..m
      BY <1>3, <1>7, <1>11
    <2>2. QED
      BY <1>5, <1>8, <2>1 DEF ins
  <1>12. CASE j = k + 1
    <2>1. i \in 1..k
      BY <1>3, <1>7, <1>12
    <2>2. QED
      BY <1>5, <1>9, <1>12, <2>1 DEF ins
  <1>13. CASE j > k + 1
    <2>1. j \in (k + 2)..(m + 1) /\ j - 1 \in (k + 1)..m /\ j - 1 \in 1..m
      BY <1>3, <1>7, <1>13
    <2>2. ins[j] = arr[j - 1]
      BY <1>5, <2>1
    <2>3. CASE i <= k
      <3>1. i \in 1..k /\ i \in 1..m /\ i < j - 1
        BY <1>3, <1>7, <1>13, <2>3
      <3>2. QED
        BY <1>5, <1>8, <2>1, <2>2, <3>1 DEF ins
    <2>4. CASE i = k + 1
      BY <1>5, <1>10, <2>1, <2>2, <2>4 DEF ins
    <2>5. CASE i > k + 1
      <3>1. i \in (k + 2)..(m + 1) /\ i - 1 \in 1..m /\ i - 1 < j - 1
        BY <1>3, <1>7, <2>5
      <3>2. ins[i] = arr[i - 1]
        BY <1>5, <3>1
      <3>3. QED
        BY <1>8, <2>1, <2>2, <3>1, <3>2 DEF ins
    <2>6. QED
      BY <1>3, <1>7, <2>3, <2>4, <2>5
  <1>14. QED
    BY <1>3, <1>7, <1>11, <1>12, <1>13

\* What the arrays hold after an order was created: what they held, and the order.
LEMMA CreatedMembers ==
  ASSUME Book, NEW r \in Submission, NEW nonce \in Nat, CreateOrder(r, nonce),
         NEW n, n = orderNonce + 1, NEW p \in Pairs, NEW s \in Side
  PROVE  /\ \A i \in DOMAIN queue'[p][s] :
              \/ queue'[p][s][i] = n /\ p = r.pair /\ s = r.side
              \/ \E j \in DOMAIN queue[p][s] : queue'[p][s][i] = queue[p][s][j]
         /\ \A j \in DOMAIN queue[p][s] : \E i \in DOMAIN queue'[p][s] :
              queue'[p][s][i] = queue[p][s][j]
         /\ p = r.pair /\ s = r.side => \E i \in DOMAIN queue'[p][s] : queue'[p][s][i] = n
  <1> DEFINE arr == queue[r.pair][r.side]
             ins == queue'[r.pair][r.side]
             m == Len(arr)
  <1>1. PICK k \in 0..m : /\ Inserted(ins, arr, k, n)
                          /\ queue' \in [Pairs -> [Side -> Seq(Placed')]]
                          /\ ~(p = r.pair /\ s = r.side) => queue'[p][s] = queue[p][s]
    BY CreatedQueue
  <1>2. r.pair \in Pairs /\ r.side \in Side
    BY CreateFacts
  <1>3. CASE ~(p = r.pair /\ s = r.side)
    BY <1>1, <1>3
  <1>4. CASE p = r.pair /\ s = r.side
    <2>1. m \in Nat /\ DOMAIN arr = 1..m
      BY <1>2, QueueFacts DEF Book
    <2>2. ins \in Seq(Placed')
      BY <1>1, <1>2
    <2>3. /\ Len(ins) = m + 1
          /\ \A x \in 1..k : ins[x] = arr[x]
          /\ ins[k + 1] = n
          /\ \A x \in (k + 2)..(m + 1) : ins[x] = arr[x - 1]
      BY <1>1 DEF Inserted
    <2>4. DOMAIN ins = 1..(m + 1)
      BY <2>2, <2>3
    <2> HIDE DEF arr, ins, m
    <2>5. \A i \in 1..(m + 1) : ins[i] = n \/ \E j \in 1..m : ins[i] = arr[j]
      <3> SUFFICES ASSUME NEW i \in 1..(m + 1) PROVE ins[i] = n \/ \E j \in 1..m : ins[i] = arr[j]
        OBVIOUS
      <3>1. CASE i <= k
        <4>1. i \in 1..k /\ i \in 1..m
          BY <2>1, <3>1
        <4>2. QED
          BY <2>3, <4>1
      <3>2. CASE i = k + 1
        BY <2>3, <3>2
      <3>3. CASE i > k + 1
        <4>1. i \in (k + 2)..(m + 1) /\ i - 1 \in 1..m
          BY <2>1, <3>3
        <4>2. QED
          BY <2>3, <4>1
      <3>4. QED
        BY <2>1, <3>1, <3>2, <3>3
    <2>6. \A j \in 1..m : \E i \in 1..(m + 1) : ins[i] = arr[j]
      <3> SUFFICES ASSUME NEW j \in 1..m PROVE \E i \in 1..(m + 1) : ins[i] = arr[j]
        OBVIOUS
      <3>1. CASE j <= k
        <4>1. j \in 1..k /\ j \in 1..(m + 1)
          BY <2>1, <3>1
        <4>2. QED
          BY <2>3, <4>1
      <3>2. CASE j > k
        <4>1. j + 1 \in (k + 2)..(m + 1) /\ j + 1 \in 1..(m + 1) /\ (j + 1) - 1 = j
          BY <2>1, <3>2
        <4>2. ins[j + 1] = arr[j]
          BY <2>3, <4>1
        <4>3. QED
          BY <4>1, <4>2
      <3>3. QED
        BY <2>1, <3>1, <3>2
    <2>7. k + 1 \in 1..(m + 1)
      BY <2>1
    <2>8. queue'[p][s] = ins /\ queue[p][s] = arr
      BY <1>4 DEF arr, ins
    <2>9. \A i \in DOMAIN ins : ins[i] = n \/ \E j \in DOMAIN arr : ins[i] = arr[j]
      BY <2>1, <2>4, <2>5
    <2>10. \A j \in DOMAIN arr : \E i \in DOMAIN ins : ins[i] = arr[j]
      BY <2>1, <2>4, <2>6
    <2>11. \E i \in DOMAIN ins : ins[i] = n
      BY <2>3, <2>4, <2>7
    <2>12. QED
      BY <1>4, <2>8, <2>9, <2>10, <2>11, Zenon
  <1>5. QED
    BY <1>3, <1>4

\* A new order keeps the book.
LEMMA CreateInv ==
  ASSUME Book, NEW r \in Submission, NEW nonce \in Nat, CreateOrder(r, nonce)
  PROVE  Book'
  <1> DEFINE n == orderNonce + 1
  <1> USE DEF Book
  <1>1. /\ orderNonce' = n /\ n \in Id /\ n \notin Placed /\ Placed' = Placed \cup {n}
        /\ orders'[n] = OrderOf(r, nonce) /\ OrderOf(r, nonce) \in OrderRecord
        /\ \A o \in Placed : orders'[o] = orders[o]
        /\ orders' \in [Id -> OrderRecord \cup {NoOrder}]
        /\ \A o \in Id : orders'[o] = NoOrder <=> o > n
        /\ status[n] = "OPEN" /\ filled[n] = 0
        /\ UNCHANGED <<filled, status, executed, now, bookPaused>>
        /\ ~bookPaused /\ matching' = r.pair /\ r.pair \in Pairs /\ r.side \in Side
    BY CreateFacts
  <1>2. orders'[n].pair = r.pair /\ orders'[n].side = r.side /\ orders'[n].timestamp = now
        /\ orders'[n].quantity \in Nat /\ orders'[n].quantity > 0
    BY <1>1 DEF OrderOf, OrderRecord
  <1>3. BookTypeOK'
    <2>1. queue' \in [Pairs -> [Side -> Seq(Placed')]]
      BY CreatedQueue
    <2>2. orderNonce' \in 0..MaxOrders
      BY <1>1, ContractAssumption DEF Id
    <2>3. QED
      BY <1>1, <2>1, <2>2 DEF BookTypeOK
  <1>4. Unwritten'
    <2>1. \A o \in Id : o > n => o > orderNonce
      BY PlacedFacts DEF Id
    <2>2. QED
      BY <1>1, <2>1 DEF Unwritten
  <1> HIDE DEF n
  <1>5. QueueSorted'
    <2> SUFFICES ASSUME NEW p \in Pairs, NEW s \in Side, NEW i \in DOMAIN queue'[p][s],
                        NEW j \in DOMAIN queue'[p][s], i < j
                 PROVE  Before(orders', queue'[p][s][i], queue'[p][s][j])
      BY DEF QueueSorted, Precedes, BetterPrice, Before
    <2>1. CASE p = r.pair /\ s = r.side
      BY <2>1, InsertSorted
    <2>2. CASE ~(p = r.pair /\ s = r.side)
      <3>1. queue'[p][s] = queue[p][s]
        BY <2>2, CreatedQueue
      <3>2. Before(orders, queue[p][s][i], queue[p][s][j])
        BY <3>1, PrecedesIsBefore DEF QueueSorted
      <3>3. queue[p][s][i] \in Placed /\ queue[p][s][j] \in Placed
        BY <3>1, QueueFacts
      <3>4. QED
        BY <3>1, <3>2, <3>3, CreatedTerms
    <2>3. QED
      BY <2>1, <2>2
  <1>6. QueueHolds'
    <2>1. ASSUME NEW p \in Pairs, NEW s \in Side, NEW i \in DOMAIN queue'[p][s]
          PROVE  /\ orders'[queue'[p][s][i]].pair = p /\ orders'[queue'[p][s][i]].side = s
                 /\ status'[queue'[p][s][i]] # "FILLED"
      <3>1. CASE queue'[p][s][i] = n /\ p = r.pair /\ s = r.side
        BY <1>1, <1>2, <3>1
      <3>2. ASSUME NEW j \in DOMAIN queue[p][s], queue'[p][s][i] = queue[p][s][j]
            PROVE  /\ orders'[queue'[p][s][i]].pair = p /\ orders'[queue'[p][s][i]].side = s
                   /\ status'[queue'[p][s][i]] # "FILLED"
        BY <1>1, <3>2, QueueFacts
      <3>3. QED
        BY <3>1, <3>2, CreatedMembers DEF n
    <2>2. ASSUME NEW o \in Placed', CanTrade(o)'
          PROVE  \E i \in DOMAIN queue'[orders'[o].pair][orders'[o].side] :
                   queue'[orders'[o].pair][orders'[o].side][i] = o
      <3>1. CASE o = n
        BY <1>1, <1>2, <3>1, CreatedMembers DEF n
      <3>2. CASE o \in Placed
        <4>1. CanTrade(o) /\ orders'[o] = orders[o]
          BY <1>1, <2>2, <3>2 DEF CanTrade, IsInactive, IsExpired
        <4>2. orders[o].pair \in Pairs /\ orders[o].side \in Side
          BY <3>2, PlacedFacts
        <4>3. PICK j \in DOMAIN queue[orders[o].pair][orders[o].side] :
                queue[orders[o].pair][orders[o].side][j] = o
          BY <3>2, <4>1 DEF QueueHolds
        <4>4. QED
          BY <4>1, <4>2, <4>3, CreatedMembers
      <3>3. QED
        BY <1>1, <3>1, <3>2
    <2>3. QED
      BY <2>1, <2>2 DEF QueueHolds
  <1>7. FillsAgree'
    <2> SUFFICES ASSUME NEW o \in Placed'
                 PROVE  /\ filled[o] <= orders'[o].quantity
                        /\ status[o] = "FILLED" <=> filled[o] = orders'[o].quantity
                        /\ status[o] = "OPEN" => filled[o] = 0
                        /\ status[o] = "PARTIALLY_FILLED" => filled[o] > 0
      BY <1>1 DEF FillsAgree
    <2>1. CASE o = n
      BY <1>1, <1>2, <2>1
    <2>2. CASE o \in Placed
      BY <1>1, <2>2 DEF FillsAgree
    <2>3. QED
      BY <1>1, <2>1, <2>2
  <1>8. OnlyArrivalCrosses'
    <2> SUFFICES ASSUME NEW p \in Pairs, NEW i \in DOMAIN queue'[p]["BUY"],
                        NEW j \in DOMAIN queue'[p]["SELL"],
                        orders'[queue'[p]["BUY"][i]].price >= orders'[queue'[p]["SELL"][j]].price
                 PROVE  p = matching' /\ n \in {queue'[p]["BUY"][i], queue'[p]["SELL"][j]}
      BY <1>1, <1>2 DEF OnlyArrivalCrosses
    <2>1. CASE n \in {queue'[p]["BUY"][i], queue'[p]["SELL"][j]}
      <3>1. n \notin Placed /\ \A s \in Side : \A x \in DOMAIN queue[p][s] : queue[p][s][x] \in Placed
        BY <1>1, QueueFacts
      <3>2. p = r.pair
        BY <2>1, <3>1, CreatedMembers DEF n, Side
      <3>3. QED
        BY <1>1, <2>1, <3>2
    <2>2. CASE n \notin {queue'[p]["BUY"][i], queue'[p]["SELL"][j]}
      <3>1. PICK x \in DOMAIN queue[p]["BUY"] : queue'[p]["BUY"][i] = queue[p]["BUY"][x]
        BY <2>2, CreatedMembers DEF n, Side
      <3>2. PICK y \in DOMAIN queue[p]["SELL"] : queue'[p]["SELL"][j] = queue[p]["SELL"][y]
        BY <2>2, CreatedMembers DEF n, Side
      <3>3. queue[p]["BUY"][x] \in Placed /\ queue[p]["SELL"][y] \in Placed
        BY QueueFacts DEF Side
      <3>4. orders[queue[p]["BUY"][x]].price >= orders[queue[p]["SELL"][y]].price
        BY <1>1, <3>1, <3>2, <3>3
      <3>5. Uncrossed(p)
        BY IdleUncrossed DEF CreateOrder
      <3>6. orders[queue[p]["BUY"][x]].price < orders[queue[p]["SELL"][y]].price
        BY <3>5 DEF Uncrossed
      <3>7. QED
        BY <3>3, <3>4, <3>6, PlacedFacts
    <2>3. QED
      BY <2>1, <2>2
  <1>9. QED
    BY <1>3, <1>4, <1>5, <1>6, <1>7, <1>8

\* Every array stays, or loses its head.
Pops == \A p \in Pairs, s \in Side :
          \/ queue'[p][s] = queue[p][s]
          \/ queue[p][s] # <<>> /\ queue'[p][s] = Tail(queue[p][s])

\* What is left keeps its order, and only a head can be missing.
LEMMA PopFacts ==
  ASSUME Book, Pops, NEW p \in Pairs, NEW s \in Side
  PROVE  \E d \in {0, 1} :
           /\ queue'[p][s] \in Seq(Placed)
           /\ \A i \in DOMAIN queue'[p][s] : /\ i \in Nat /\ i + d \in DOMAIN queue[p][s]
                                             /\ queue'[p][s][i] = queue[p][s][i + d]
           /\ \A j \in DOMAIN queue[p][s] :
                \/ \E i \in DOMAIN queue'[p][s] : queue'[p][s][i] = queue[p][s][j]
                \/ j = 1 /\ queue'[p][s] = Tail(queue[p][s])
  <1> DEFINE arr == queue[p][s]
             rest == queue'[p][s]
             m == Len(arr)
  <1>1. arr \in Seq(Placed) /\ m \in Nat /\ DOMAIN arr = 1..m
    BY QueueFacts DEF Book
  <1>2. rest = arr \/ (arr # <<>> /\ rest = Tail(arr))
    BY DEF Pops
  <1> HIDE DEF arr, rest
  <1>3. CASE rest = arr
    <2>1. \A i \in DOMAIN arr : i \in Nat /\ i + 0 = i
      BY <1>1
    <2>2. /\ rest \in Seq(Placed)
          /\ \A i \in DOMAIN rest : i \in Nat /\ i + 0 \in DOMAIN arr /\ rest[i] = arr[i + 0]
          /\ \A j \in DOMAIN arr : \E i \in DOMAIN rest : rest[i] = arr[j]
      BY <1>1, <1>3, <2>1
    <2>3. QED
      BY <2>2 DEF arr, rest
  <1>4. CASE arr # <<>> /\ rest = Tail(arr)
    <2>1. /\ rest \in Seq(Placed) /\ Len(rest) = m - 1 /\ m > 0
          /\ \A i \in 1..(m - 1) : rest[i] = arr[i + 1]
      BY <1>1, <1>4, TailFacts
    <2>2. DOMAIN rest = 1..(m - 1)
      BY <2>1
    <2> HIDE DEF m
    <2>3. \A i \in 1..(m - 1) : i \in Nat /\ i + 1 \in 1..m
      BY <1>1
    <2>4. \A j \in 1..m : j = 1 \/ (j - 1 \in 1..(m - 1) /\ (j - 1) + 1 = j)
      BY <1>1
    <2>5. \A j \in 1..m : j = 1 \/ \E i \in 1..(m - 1) : rest[i] = arr[j]
      BY <2>1, <2>4
    <2>6. /\ \A i \in DOMAIN rest : i \in Nat /\ i + 1 \in DOMAIN arr /\ rest[i] = arr[i + 1]
          /\ \A j \in DOMAIN arr : (\E i \in DOMAIN rest : rest[i] = arr[j]) \/ j = 1
      BY <1>1, <2>1, <2>2, <2>3, <2>5
    <2>7. QED
      BY <1>4, <2>1, <2>6 DEF arr, rest
  <1>5. QED
    BY <1>2, <1>3, <1>4

\* Removing heads that cannot trade keeps what the arrays promise, provided what is
\* left is not filled and no order comes back to life.
LEMMA PopInv ==
  ASSUME Book, Pops, UNCHANGED <<orderNonce, orders, matching, now, bookPaused>>,
         queue' \in [Pairs -> [Side -> Seq(Placed)]],
         \A p \in Pairs, s \in Side : \A o \in Placed :
           CanTrade(o)' /\ queue[p][s][1] = o => queue'[p][s] = queue[p][s],
         \A o \in Placed : CanTrade(o)' => CanTrade(o),
         \A p \in Pairs, s \in Side : \A i \in DOMAIN queue'[p][s] :
           status'[queue'[p][s][i]] # "FILLED"
  PROVE  QueueSorted' /\ QueueHolds' /\ OnlyArrivalCrosses'
  <1> USE DEF Book
  <1>1. QueueSorted'
    <2> SUFFICES ASSUME NEW p \in Pairs, NEW s \in Side, NEW i \in DOMAIN queue'[p][s],
                        NEW j \in DOMAIN queue'[p][s], i < j
                 PROVE  Before(orders, queue'[p][s][i], queue'[p][s][j])
      BY DEF QueueSorted, Precedes, BetterPrice, Before
    <2>1. PICK d \in {0, 1} :
            \A x \in DOMAIN queue'[p][s] : /\ x \in Nat /\ x + d \in DOMAIN queue[p][s]
                                           /\ queue'[p][s][x] = queue[p][s][x + d]
      BY PopFacts
    <2>2. i + d < j + d /\ i + d \in DOMAIN queue[p][s] /\ j + d \in DOMAIN queue[p][s]
      BY <2>1
    <2>3. Before(orders, queue[p][s][i + d], queue[p][s][j + d])
      BY <2>2, PrecedesIsBefore DEF QueueSorted
    <2>4. QED
      BY <2>1, <2>3
  <1>2. \A p \in Pairs, s \in Side : \A i \in DOMAIN queue'[p][s] :
          \E j \in DOMAIN queue[p][s] : queue'[p][s][i] = queue[p][s][j]
    BY PopFacts
  <1>3. QueueHolds'
    <2>1. ASSUME NEW o \in Placed, CanTrade(o)'
          PROVE  \E i \in DOMAIN queue'[orders[o].pair][orders[o].side] :
                   queue'[orders[o].pair][orders[o].side][i] = o
      <3> DEFINE p == orders[o].pair
                 s == orders[o].side
      <3>1. p \in Pairs /\ s \in Side
        BY PlacedFacts
      <3>2. PICK j \in DOMAIN queue[p][s] : queue[p][s][j] = o
        BY <2>1 DEF QueueHolds
      <3> HIDE DEF p, s
      <3>3. \/ \E i \in DOMAIN queue'[p][s] : queue'[p][s][i] = o
            \/ j = 1 /\ queue'[p][s] = Tail(queue[p][s])
        BY <3>1, <3>2, PopFacts
      <3>4. ASSUME j = 1, queue'[p][s] = Tail(queue[p][s])
            PROVE  \E i \in DOMAIN queue'[p][s] : queue'[p][s][i] = o
        <4>1. queue[p][s][1] = o
          BY <3>2, <3>4
        <4>2. queue'[p][s] = queue[p][s]
          BY <2>1, <3>1, <4>1
        <4>3. QED
          BY <3>2, <4>2
      <3>5. QED
        BY <3>3, <3>4 DEF p, s
    <2>2. Placed' = Placed
      BY DEF Placed
    <2>3. QED
      BY <1>2, <2>1, <2>2 DEF QueueHolds
  <1>4. OnlyArrivalCrosses'
    <2> SUFFICES ASSUME NEW p \in Pairs, NEW i \in DOMAIN queue'[p]["BUY"],
                        NEW j \in DOMAIN queue'[p]["SELL"],
                        orders[queue'[p]["BUY"][i]].price >= orders[queue'[p]["SELL"][j]].price
                 PROVE  /\ p = matching /\ orderNonce \in {queue'[p]["BUY"][i], queue'[p]["SELL"][j]}
                        /\ orders[orderNonce].timestamp = now /\ ~bookPaused
      BY DEF OnlyArrivalCrosses
    <2>1. PICK x \in DOMAIN queue[p]["BUY"] : queue'[p]["BUY"][i] = queue[p]["BUY"][x]
      BY <1>2 DEF Side
    <2>2. PICK y \in DOMAIN queue[p]["SELL"] : queue'[p]["SELL"][j] = queue[p]["SELL"][y]
      BY <1>2 DEF Side
    <2>3. QED
      BY <2>1, <2>2 DEF OnlyArrivalCrosses
  <1>5. QED
    BY <1>1, <1>3, <1>4

\* The two heads of the pair that is matched.
LEMMA HeadFacts ==
  ASSUME Book, HeadsMeet
  PROVE  /\ matching \in Pairs
         /\ Head(Bids) = queue[matching]["BUY"][1] /\ Head(Asks) = queue[matching]["SELL"][1]
         /\ 1 \in DOMAIN queue[matching]["BUY"] /\ 1 \in DOMAIN queue[matching]["SELL"]
         /\ Head(Bids) \in Placed /\ Head(Asks) \in Placed /\ Head(Bids) # Head(Asks)
         /\ orders[Head(Bids)].side = "BUY" /\ orders[Head(Asks)].side = "SELL"
         /\ orders[Head(Bids)].pair = matching /\ orders[Head(Asks)].pair = matching
  <1>1. matching \in Pairs /\ Bids # <<>> /\ Asks # <<>>
    BY DEF HeadsMeet, Book, BookTypeOK
  <1>2. ASSUME NEW s \in Side, queue[matching][s] # <<>>
        PROVE  /\ Head(queue[matching][s]) = queue[matching][s][1]
               /\ 1 \in DOMAIN queue[matching][s]
               /\ queue[matching][s][1] \in Placed
               /\ orders[queue[matching][s][1]].side = s
               /\ orders[queue[matching][s][1]].pair = matching
    <2>1. /\ queue[matching][s] \in Seq(Placed)
          /\ DOMAIN queue[matching][s] = 1..Len(queue[matching][s])
      BY <1>1, QueueFacts DEF Book
    <2>2. Len(queue[matching][s]) \in Nat /\ Len(queue[matching][s]) > 0
          /\ Head(queue[matching][s]) = queue[matching][s][1]
      BY <1>2, <2>1, TailFacts
    <2>3. 1 \in DOMAIN queue[matching][s]
      BY <2>1, <2>2
    <2>4. QED
      BY <1>1, <2>2, <2>3, QueueFacts DEF Book
  <1>3. QED
    BY <1>1, <1>2 DEF Bids, Asks, Side

\* Removing a stale head keeps the book.
LEMMA PruneInv ==
  ASSUME Book, PruneBid \/ PruneAsk
  PROVE  Book'
  <1> USE DEF Book
  <1>1. PICK s \in Side :
          /\ HeadsMeet /\ Stale(Head(queue[matching][s])) /\ queue[matching][s] # <<>>
          /\ queue' = [queue EXCEPT ![matching][s] = Tail(@)]
    BY DEF PruneBid, PruneAsk, HeadsMeet, Bids, Asks, Side
  <1>2. UNCHANGED <<orderNonce, orders, filled, status, matching, executed, now, bookPaused>>
    BY DEF PruneBid, PruneAsk, configVars
  <1>3. queue \in [Pairs -> [Side -> Seq(Placed)]] /\ matching \in Pairs
    BY HeadFacts, <1>1 DEF BookTypeOK
  <1>4. Head(queue[matching][s]) = queue[matching][s][1]
    BY <1>1, HeadFacts DEF Bids, Asks, Side
  <1>5. /\ queue'[matching][s] = Tail(queue[matching][s])
        /\ \A p \in Pairs, t \in Side : ~(p = matching /\ t = s) => queue'[p][t] = queue[p][t]
    BY <1>1, <1>3
  <1>6. Tail(queue[matching][s]) \in Seq(Placed)
    BY <1>1, <1>3, TailFacts
  <1>7. queue' \in [Pairs -> [Side -> Seq(Placed)]]
    BY <1>1, <1>3, <1>6
  <1>8. Pops
    BY <1>1, <1>5 DEF Pops
  <1>9. \A o \in Placed : CanTrade(o)' <=> CanTrade(o)
    BY <1>2 DEF CanTrade, IsInactive, IsExpired
  <1>10. \A o \in Placed : o = queue[matching][s][1] => ~CanTrade(o)
    BY <1>1, <1>4 DEF Stale, CanTrade
  <1>11. \A p \in Pairs, t \in Side : \A i \in DOMAIN queue'[p][t] :
           status'[queue'[p][t][i]] # "FILLED"
    BY <1>2, <1>8, PopFacts, QueueFacts
  <1>12. QueueSorted' /\ QueueHolds' /\ OnlyArrivalCrosses'
    <2>1. \A p \in Pairs, t \in Side : \A o \in Placed :
            CanTrade(o)' /\ queue[p][t][1] = o => queue'[p][t] = queue[p][t]
      BY <1>5, <1>9, <1>10
    <2>2. QED
      BY <1>2, <1>7, <1>8, <1>9, <1>11, <2>1, PopInv
  <1>13. BookTypeOK' /\ Unwritten' /\ FillsAgree'
    BY <1>2, <1>7 DEF BookTypeOK, Unwritten, FillsAgree, Placed
  <1>14. QED
    BY <1>12, <1>13

\* The loop ends when the heads do not cross, and then nothing does.
LEMMA EndInv ==
  ASSUME Book, EndMatch
  PROVE  Book'
  <1> USE DEF Book
  <1>1. /\ UNCHANGED <<orderNonce, orders, filled, status, queue, executed, now>>
        /\ matching \in Pairs /\ matching' = NoPair
    BY DEF EndMatch, configVars, BookTypeOK
  <1>2. BookTypeOK' /\ Unwritten' /\ QueueSorted' /\ FillsAgree'
    BY <1>1 DEF BookTypeOK, Unwritten, QueueSorted, Precedes, BetterPrice, FillsAgree, Placed
  <1>3. QueueHolds'
    BY <1>1 DEF QueueHolds, CanTrade, IsInactive, IsExpired, Placed
  <1>4. ASSUME NEW i \in DOMAIN queue[matching]["BUY"], NEW j \in DOMAIN queue[matching]["SELL"]
        PROVE  orders[queue[matching]["BUY"][i]].price < orders[queue[matching]["SELL"][j]].price
    <2> DEFINE b == queue[matching]["BUY"][1]
               a == queue[matching]["SELL"][1]
    <2>1. HeadsMeet
      BY <1>1, <1>4, QueueFacts, EmptySeq DEF EndMatch, HeadsMeet, Bids, Asks, Side
    <2>2. /\ 1 \in DOMAIN queue[matching]["BUY"] /\ 1 \in DOMAIN queue[matching]["SELL"]
          /\ ~Crosses(b, a)
      BY <2>1, HeadFacts DEF EndMatch
    <2>3. /\ i \in Nat /\ i >= 1 /\ j \in Nat /\ j >= 1
          /\ queue[matching]["BUY"][i] \in Placed /\ queue[matching]["SELL"][j] \in Placed
          /\ b \in Placed /\ a \in Placed
      BY <1>1, <2>2, QueueFacts DEF Side
    <2>4. orders[queue[matching]["BUY"][i]].price \in Nat /\ orders[b].price \in Nat
          /\ orders[queue[matching]["SELL"][j]].price \in Nat /\ orders[a].price \in Nat
      BY <2>3, PlacedFacts
    <2>5. orders[b].price >= orders[queue[matching]["BUY"][i]].price
      <3>1. CASE i = 1
        BY <2>4, <3>1
      <3>2. CASE i > 1
        <4>1. Precedes(b, queue[matching]["BUY"][i]) /\ orders[b].side = "BUY"
          BY <1>1, <2>1, <2>2, <3>2, HeadFacts DEF QueueSorted, Side
        <4>2. QED
          BY <2>4, <4>1 DEF Precedes, BetterPrice
      <3>3. QED
        BY <2>3, <3>1, <3>2
    <2>6. orders[a].price <= orders[queue[matching]["SELL"][j]].price
      <3>1. CASE j = 1
        BY <2>4, <3>1
      <3>2. CASE j > 1
        <4>1. Precedes(a, queue[matching]["SELL"][j]) /\ orders[a].side = "SELL"
          BY <1>1, <2>1, <2>2, <3>2, HeadFacts DEF QueueSorted, Side
        <4>2. QED
          BY <2>4, <4>1 DEF Precedes, BetterPrice
      <3>3. QED
        BY <2>3, <3>1, <3>2
    <2> HIDE DEF b, a
    <2>7. QED
      BY <2>2, <2>4, <2>5, <2>6 DEF Crosses
  <1>5. OnlyArrivalCrosses'
    <2> SUFFICES ASSUME NEW p \in Pairs, NEW i \in DOMAIN queue[p]["BUY"],
                        NEW j \in DOMAIN queue[p]["SELL"],
                        orders[queue[p]["BUY"][i]].price >= orders[queue[p]["SELL"][j]].price
                 PROVE  FALSE
      BY <1>1 DEF OnlyArrivalCrosses
    <2>1. p = matching
      BY DEF OnlyArrivalCrosses
    <2>2. queue[p]["BUY"][i] \in Placed /\ queue[p]["SELL"][j] \in Placed
      BY QueueFacts DEF Side
    <2>3. QED
      BY <1>4, <2>1, <2>2, PlacedFacts
  <1>6. QED
    BY <1>2, <1>3, <1>5

\* What a trade of the heads writes.
LEMMA ExecuteFacts ==
  ASSUME Book, NEW ok \in BOOLEAN, Execute(ok), NEW b, b = Head(Bids), NEW a, a = Head(Asks)
  PROVE  /\ matching \in Pairs /\ b \in Placed /\ a \in Placed /\ b # a
         /\ b = queue[matching]["BUY"][1] /\ a = queue[matching]["SELL"][1]
         /\ 1 \in DOMAIN queue[matching]["BUY"] /\ 1 \in DOMAIN queue[matching]["SELL"]
         /\ CanTrade(b) /\ CanTrade(a) /\ Crosses(b, a)
         /\ MatchQty(b, a) \in Nat /\ MatchQty(b, a) > 0
         /\ filled' \in [Id -> Nat] /\ status' \in [Id -> OrderStatus]
         /\ \A o \in {a, b} :
              /\ filled'[o] = filled[o] + MatchQty(b, a) /\ filled'[o] <= orders[o].quantity
              /\ status'[o] = IF filled'[o] = orders[o].quantity THEN "FILLED"
                                                               ELSE "PARTIALLY_FILLED"
         /\ \A o \in Id : o \notin {a, b} => filled'[o] = filled[o] /\ status'[o] = status[o]
         /\ executed' = Append(executed, [buy |-> b, sell |-> a, price |-> orders[a].price,
                                          quantity |-> MatchQty(b, a), settled |-> ok])
         /\ UNCHANGED <<orderNonce, orders, matching, now, bookPaused>>
  <1> USE DEF Book
  <1>1. HeadsMeet
    BY DEF Execute
  <1>2. /\ matching \in Pairs /\ b \in Placed /\ a \in Placed /\ b # a
        /\ b = queue[matching]["BUY"][1] /\ a = queue[matching]["SELL"][1]
        /\ 1 \in DOMAIN queue[matching]["BUY"] /\ 1 \in DOMAIN queue[matching]["SELL"]
    BY <1>1, HeadFacts
  <1>3. CanTrade(b) /\ CanTrade(a) /\ Crosses(b, a)
    BY DEF Execute, Stale, CanTrade
  <1>4. \A o \in {a, b} : /\ filled[o] \in Nat /\ orders[o].quantity \in Nat /\ o \in Id
                          /\ filled[o] < orders[o].quantity
    <2>1. \A o \in {a, b} : filled[o] <= orders[o].quantity /\ filled[o] # orders[o].quantity
      BY <1>2, <1>3 DEF FillsAgree, CanTrade, IsInactive
    <2>2. QED
      BY <1>2, <2>1, PlacedFacts
  <1>5. /\ MatchQty(b, a) \in Nat /\ MatchQty(b, a) > 0
        /\ \A o \in {a, b} : filled[o] + MatchQty(b, a) <= orders[o].quantity
    BY <1>4 DEF MatchQty, Remaining
  <1>6. /\ filled' = [filled EXCEPT ![b] = @ + MatchQty(b, a), ![a] = @ + MatchQty(b, a)]
        /\ status' = [status EXCEPT ![b] = StatusAfter(b), ![a] = StatusAfter(a)]
        /\ executed' = Append(executed, [buy |-> b, sell |-> a, price |-> orders[a].price,
                                         quantity |-> MatchQty(b, a), settled |-> ok])
    BY DEF Execute
  <1>7. UNCHANGED <<orderNonce, orders, matching, now, bookPaused>>
    BY DEF Execute, configVars
  <1>8. filled \in [Id -> Nat] /\ status \in [Id -> OrderStatus]
    BY DEF BookTypeOK
  <1>9. /\ filled' \in [Id -> Nat]
        /\ \A o \in {a, b} : filled'[o] = filled[o] + MatchQty(b, a)
        /\ \A o \in Id : o \notin {a, b} => filled'[o] = filled[o]
    <2> DEFINE q == MatchQty(b, a)
    <2>1. /\ b \in Id /\ a \in Id /\ b # a
          /\ filled[b] + q \in Nat /\ filled[a] + q \in Nat
      BY <1>2, <1>4, <1>5
    <2>2. filled' = [filled EXCEPT ![b] = @ + q, ![a] = @ + q]
      BY <1>6
    <2> HIDE DEF q
    <2>3. filled' = [o \in Id |-> IF o \in {a, b} THEN filled[o] + q ELSE filled[o]]
      BY <1>8, <2>1, <2>2
    <2>4. QED
      BY <1>8, <2>1, <2>3 DEF q
  <1>10. \A o : StatusAfter(o) \in OrderStatus
    BY DEF StatusAfter, OrderStatus
  <1>11. /\ status' \in [Id -> OrderStatus]
         /\ \A o \in {a, b} : status'[o] = StatusAfter(o)
         /\ \A o \in Id : o \notin {a, b} => status'[o] = status[o]
    BY <1>2, <1>4, <1>6, <1>8, <1>10
  <1>12. QED
    BY <1>2, <1>3, <1>5, <1>6, <1>7, <1>9, <1>11 DEF StatusAfter

\* The arrays after a trade: a head that is filled is gone.
LEMMA ExecutedQueue ==
  ASSUME Book, NEW ok \in BOOLEAN, Execute(ok)
  PROVE  /\ queue' \in [Pairs -> [Side -> Seq(Placed)]] /\ Pops
         /\ \A p \in Pairs, s \in Side : p # matching => queue'[p][s] = queue[p][s]
         /\ \A s \in Side : queue'[matching][s] =
              IF status'[queue[matching][s][1]] = "FILLED" THEN Tail(queue[matching][s])
                                                           ELSE queue[matching][s]
  <1> USE DEF Book
  <1>1. /\ HeadsMeet /\ queue \in [Pairs -> [Side -> Seq(Placed)]] /\ matching \in Pairs
        /\ queue' = [queue EXCEPT ![matching] = [s \in Side |-> DropFilled(queue[matching][s])]]
    BY HeadFacts DEF Execute, BookTypeOK
  <1>2. \A s \in Side : /\ queue[matching][s] # <<>> /\ queue[matching][s] \in Seq(Placed)
                        /\ Head(queue[matching][s]) = queue[matching][s][1]
    BY <1>1, HeadFacts DEF HeadsMeet, Bids, Asks, Side
  <1>3. \A s \in Side : /\ DropFilled(queue[matching][s]) =
                             IF status'[queue[matching][s][1]] = "FILLED"
                             THEN Tail(queue[matching][s]) ELSE queue[matching][s]
                        /\ DropFilled(queue[matching][s]) \in Seq(Placed)
    BY <1>2, TailFacts DEF DropFilled
  <1>4. \A s \in Side : queue'[matching][s] = DropFilled(queue[matching][s])
    BY <1>1
  <1>5. \A p \in Pairs, s \in Side : p # matching => queue'[p][s] = queue[p][s]
    BY <1>1
  <1>6. queue' \in [Pairs -> [Side -> Seq(Placed)]]
    BY <1>1, <1>3
  <1>7. Pops
    BY <1>2, <1>3, <1>4, <1>5 DEF Pops
  <1>8. QED
    BY <1>3, <1>4, <1>5, <1>6, <1>7

\* A trade keeps the book.
LEMMA ExecuteInv ==
  ASSUME Book, NEW ok \in BOOLEAN, Execute(ok)
  PROVE  Book'
  <1> DEFINE b == Head(Bids)
             a == Head(Asks)
             trade == [buy |-> b, sell |-> a, price |-> orders[a].price,
                       quantity |-> MatchQty(b, a), settled |-> ok]
  <1> USE DEF Book
  <1>1. /\ matching \in Pairs /\ b \in Placed /\ a \in Placed /\ b # a
        /\ b = queue[matching]["BUY"][1] /\ a = queue[matching]["SELL"][1]
        /\ 1 \in DOMAIN queue[matching]["BUY"] /\ 1 \in DOMAIN queue[matching]["SELL"]
        /\ CanTrade(b) /\ CanTrade(a)
    BY ExecuteFacts
  <1>2. /\ MatchQty(b, a) \in Nat /\ MatchQty(b, a) > 0
        /\ filled' \in [Id -> Nat] /\ status' \in [Id -> OrderStatus]
        /\ executed' = Append(executed, trade)
        /\ UNCHANGED <<orderNonce, orders, matching, now, bookPaused>>
    BY ExecuteFacts
  <1>3. \A o \in {a, b} :
          /\ filled'[o] = filled[o] + MatchQty(b, a) /\ filled'[o] <= orders[o].quantity
          /\ status'[o] = IF filled'[o] = orders[o].quantity THEN "FILLED" ELSE "PARTIALLY_FILLED"
    BY ExecuteFacts
  <1>4. \A o \in Id : o \notin {a, b} => filled'[o] = filled[o] /\ status'[o] = status[o]
    BY ExecuteFacts
  <1>5. queue' \in [Pairs -> [Side -> Seq(Placed)]] /\ Pops
    BY ExecutedQueue
  <1>6. \A o \in Placed : o \in Id /\ filled[o] \in Nat /\ orders[o].price \in Nat
    BY PlacedFacts
  <1>7. Placed' = Placed
    BY <1>2 DEF Placed
  <1>8. BookTypeOK'
    <2>1. executed \in Seq(TradeRecord)
      BY DEF BookTypeOK
    <2>2. trade \in TradeRecord
      BY <1>1, <1>2, <1>6 DEF TradeRecord
    <2> HIDE DEF trade
    <2>3. executed' \in Seq(TradeRecord)
      BY <1>2, <2>1, <2>2, AppendProperties
    <2>4. QED
      BY <1>2, <1>5, <1>7, <2>3 DEF BookTypeOK
  <1> HIDE DEF a, b, trade
  <1>9. Unwritten'
    <2>1. \A o \in Id : o > orderNonce => o \notin {a, b}
      BY <1>1, PlacedFacts DEF Id, Placed
    <2>2. QED
      BY <1>2, <1>4, <2>1 DEF Unwritten
  <1>10. FillsAgree'
    <2> SUFFICES ASSUME NEW o \in Placed
                 PROVE  /\ filled'[o] <= orders[o].quantity
                        /\ status'[o] = "FILLED" <=> filled'[o] = orders[o].quantity
                        /\ status'[o] = "OPEN" => filled'[o] = 0
                        /\ status'[o] = "PARTIALLY_FILLED" => filled'[o] > 0
      BY <1>2, <1>7 DEF FillsAgree
    <2>1. CASE o \in {a, b}
      BY <1>2, <1>3, <1>6, <2>1
    <2>2. CASE o \notin {a, b}
      BY <1>4, <1>6, <2>2 DEF FillsAgree
    <2>3. QED
      BY <2>1, <2>2
  <1>11. \A o \in Placed : CanTrade(o)' => CanTrade(o)
    BY <1>1, <1>2, <1>4, <1>6 DEF CanTrade, IsInactive, IsExpired
  <1>12. ASSUME NEW p \in Pairs, NEW s \in Side, NEW o \in Placed, CanTrade(o)', queue[p][s][1] = o
         PROVE  queue'[p][s] = queue[p][s]
    <2>1. status'[o] # "FILLED"
      BY <1>12 DEF CanTrade, IsInactive
    <2>2. QED
      BY <1>12, <2>1, ExecutedQueue
  <1>13. ASSUME NEW p \in Pairs, NEW s \in Side, NEW i \in DOMAIN queue'[p][s]
         PROVE  status'[queue'[p][s][i]] # "FILLED"
    <2>1. PICK d \in {0, 1} : /\ i \in Nat /\ i + d \in DOMAIN queue[p][s]
                              /\ queue'[p][s][i] = queue[p][s][i + d]
      BY <1>5, PopFacts
    <2> DEFINE o == queue[p][s][i + d]
    <2>2. o \in Placed /\ orders[o].side = s /\ orders[o].pair = p /\ status[o] # "FILLED"
      BY <2>1, QueueFacts
    <2>3. CASE o \notin {a, b}
      BY <1>4, <1>6, <2>1, <2>2, <2>3
    <2>4. CASE o \in {a, b}
      <3>1. p = matching /\ o = queue[p][s][1] /\ 1 \in DOMAIN queue[p][s]
        BY <1>1, <2>2, <2>4, QueueFacts DEF Side
      <3>2. i + d = 1
        <4> SUFFICES ASSUME i + d > 1 PROVE FALSE
          BY <2>1, QueueFacts
        <4>1. Precedes(queue[p][s][1], queue[p][s][i + d])
          BY <2>1, <3>1 DEF QueueSorted
        <4>2. Precedes(o, o)
          BY <3>1, <4>1
        <4>3. QED
          BY <2>2, <4>2, PlacedFacts DEF Precedes, BetterPrice
      <3>3. CASE status'[o] = "FILLED"
        <4>1. queue'[p][s] = Tail(queue[p][s])
          BY <3>1, <3>3, ExecutedQueue
        <4>2. queue[p][s] \in Seq(Placed) /\ queue[p][s] # <<>>
          BY <3>1, QueueFacts, EmptySeq
        <4>3. \A x \in 1..(Len(queue[p][s]) - 1) : Tail(queue[p][s])[x] = queue[p][s][x + 1]
          BY <4>2, TailFacts
        <4>4. i \in 1..(Len(queue[p][s]) - 1)
          BY <4>1, <4>2, TailFacts
        <4>5. queue'[p][s][i] = queue[p][s][i + 1] /\ i + 1 \in DOMAIN queue[p][s] /\ i + 1 > 1
          BY <4>1, <4>2, <4>3, <4>4
        <4>6. Precedes(queue[p][s][1], queue[p][s][i + 1])
          BY <3>1, <4>5 DEF QueueSorted
        <4>7. Precedes(o, o)
          BY <2>1, <3>1, <4>5, <4>6
        <4>8. FALSE
          BY <2>2, <4>7, PlacedFacts DEF Precedes, BetterPrice
        <4>9. QED
          BY <4>8
      <3>4. QED
        BY <2>1, <3>3
    <2>5. QED
      BY <2>3, <2>4
  <1>14. QueueSorted' /\ QueueHolds' /\ OnlyArrivalCrosses'
    BY <1>2, <1>5, <1>11, <1>12, <1>13, PopInv
  <1>15. QED
    BY <1>8, <1>9, <1>10, <1>14

\* A step that leaves the accounts alone.
LEMMA AccountsSame ==
  ASSUME AccountsTypeOK, UNCHANGED <<nonces, commitBlock, revealOf, minCommitBlocks, bookPaused,
                                     settlementSet, commitLog>>
  PROVE  AccountsTypeOK'
  BY DEF AccountsTypeOK

\* The contract as it is deployed.
LEMMA InitBook == ContractInit => BookInv
  <1> SUFFICES ASSUME ContractInit PROVE BookInv
    OBVIOUS
  <1>1. Placed = {} /\ orderNonce = 0
    BY DEF ContractInit, Placed
  <1>2. BookTypeOK
    <2>1. orderNonce \in 0..MaxOrders /\ \A o \in Id : o > orderNonce
      BY <1>1, ContractAssumption DEF Id
    <2>2. queue \in [Pairs -> [Side -> Seq(Placed)]] /\ executed \in Seq(TradeRecord)
      BY DEF ContractInit
    <2>3. QED
      BY <2>1, <2>2 DEF ContractInit, BookTypeOK, OrderStatus
  <1>3. AccountsTypeOK
    <2>1. commitLog \in [Traders -> Seq([order: HiddenOrders, at: Nat])]
      BY EmptySeq DEF ContractInit
    <2>2. QED
      BY <2>1 DEF ContractInit, AccountsTypeOK
  <1>4. \A p \in Pairs, s \in Side : DOMAIN queue[p][s] = {}
    BY DEF ContractInit
  <1>5. Unwritten /\ QueueSorted /\ QueueHolds /\ FillsAgree
    BY <1>1, <1>4 DEF ContractInit, Unwritten, QueueSorted, QueueHolds, FillsAgree
  <1>6. OnlyArrivalCrosses
    BY <1>4 DEF OnlyArrivalCrosses, Side
  <1>7. QED
    BY <1>2, <1>3, <1>5, <1>6, BookInvParts DEF Book

\* The book is untouched by a call that is about something else.
LEMMA SameBook ==
  ASSUME Book, Idle, UNCHANGED <<bookVars, now>>
  PROVE  Book'
  <1>1. UNCHANGED <<orderNonce, orders, filled, status, queue, executed, matching, now>>
    BY DEF bookVars
  <1>2. now \in Nat /\ now <= now /\ matching \in Pairs \cup {NoPair} /\ status \in [Id -> OrderStatus]
    BY DEF Book, BookTypeOK
  <1>3. QED
    BY <1>1, <1>2, QuietInv

\* Cancelling an order that is neither filled nor cancelled keeps the book.
LEMMA CancelInv ==
  ASSUME Book, Idle, NEW o \in Placed, Cancellable(o),
         status' = [status EXCEPT ![o] = "CANCELLED"],
         UNCHANGED <<orderNonce, orders, filled, queue, executed, matching, now>>
  PROVE  Book'
  <1>1. status \in [Id -> OrderStatus] /\ o \in Id
    BY PlacedFacts DEF Book, BookTypeOK
  <1>2. /\ status' \in [Id -> OrderStatus] /\ status'[o] = "CANCELLED"
        /\ \A x \in Id : x # o => status'[x] = status[x]
    BY <1>1 DEF OrderStatus
  <1>3. now \in Nat /\ now <= now /\ matching \in Pairs \cup {NoPair}
    BY DEF Book, BookTypeOK
  <1>4. \A x \in Id : \/ status'[x] = status[x]
                      \/ x \in Placed /\ Cancellable(x) /\ status'[x] = "CANCELLED"
    BY <1>2
  <1>5. QED
    BY <1>2, <1>3, <1>4, QuietInv

\* Every step keeps the invariant: one step of the proof per action.
LEMMA StepBook == BookInv /\ [ContractNext]_contractVars => BookInv'
  <1> SUFFICES ASSUME BookInv, [ContractNext]_contractVars PROVE BookInv'
    OBVIOUS
  <1>0. /\ Book /\ AccountsTypeOK
        /\ Book' /\ AccountsTypeOK' => BookInv'
    BY DEF BookInv, Book, ContractTypeOK
  <1> USE <1>0
  <1>1. nonces \in [Traders -> Nat] /\ commitBlock \in [Traders -> Nat] /\ now \in Nat
        /\ revealOf \in [Id -> Nat] /\ orderNonce \in Nat
        /\ commitLog \in [Traders -> Seq([order: HiddenOrders, at: Nat])]
    BY PlacedFacts DEF AccountsTypeOK, Book, BookTypeOK
  <1>2. /\ Submissions \subseteq Submission /\ SignedOrders \subseteq Submission
        /\ HiddenOrders \subseteq Submission /\ CommitAges \subseteq Nat
        /\ \A r \in Submission : r.trader \in Traders
    BY ContractAssumption DEF Submission
  <1>3. CASE UNCHANGED contractVars
    <2>1. UNCHANGED <<bookVars, authVars, commitVars, configVars, now>>
      BY <1>3 DEF contractVars
    <2>2. /\ UNCHANGED <<orderNonce, orders, filled, status, queue, matching, executed, now>>
          /\ UNCHANGED <<nonces, commitBlock, revealOf, minCommitBlocks, bookPaused, settlementSet,
                         commitLog>>
      BY <2>1 DEF bookVars, authVars, commitVars, configVars
    <2>3. BookTypeOK' /\ Unwritten' /\ QueueSorted'
      BY <2>2 DEF Book, BookTypeOK, Unwritten, QueueSorted, Precedes, BetterPrice, Placed
    <2>4. QueueHolds' /\ FillsAgree' /\ OnlyArrivalCrosses'
      BY <2>2 DEF Book, QueueHolds, CanTrade, IsInactive, IsExpired, Placed, FillsAgree,
         OnlyArrivalCrosses
    <2>5. QED
      BY <2>2, <2>3, <2>4, AccountsSame DEF Book
  <1>4. CASE TurnOfLoop
    <2>1. AccountsTypeOK'
      BY <1>4, AccountsSame DEF TurnOfLoop, PruneBid, PruneAsk, EndMatch, authVars, commitVars, configVars
    <2>2. QED
      BY <1>4, <2>1, PruneInv, EndInv DEF TurnOfLoop
  <1>5. ASSUME NEW ok \in BOOLEAN, Execute(ok) PROVE BookInv'
    <2>1. AccountsTypeOK'
      BY <1>5, AccountsSame DEF Execute, authVars, commitVars, configVars
    <2>2. QED
      BY <1>5, <2>1, ExecuteInv
  <1>6. ASSUME NEW r \in Submissions, PlaceOrder(r) PROVE BookInv'
    <2>1. AccountsTypeOK'
      BY <1>6, AccountsSame DEF PlaceOrder, CreateOrder, authVars, commitVars, configVars
    <2>2. CreateOrder(r, nonces[r.trader]) /\ nonces[r.trader] \in Nat /\ r \in Submission
      BY <1>1, <1>2, <1>6 DEF PlaceOrder
    <2>3. QED
      BY <2>1, <2>2, CreateInv
  <1>7. ASSUME NEW r \in HiddenOrders, CommitOrder(r) PROVE BookInv'
    <2>1. r.trader \in Traders
      BY <1>2
    <2>2. commitLog' \in [Traders -> Seq([order: HiddenOrders, at: Nat])]
      <3>1. [order |-> r, at |-> now] \in [order: HiddenOrders, at: Nat]
        BY <1>1
      <3>2. Append(commitLog[r.trader], [order |-> r, at |-> now]) \in Seq([order: HiddenOrders, at: Nat])
        BY <1>1, <2>1, <3>1, AppendProperties
      <3>3. QED
        BY <1>1, <1>7, <2>1, <3>2 DEF CommitOrder
    <2>3. AccountsTypeOK'
      BY <1>1, <1>7, <2>1, <2>2 DEF CommitOrder, AccountsTypeOK, authVars, configVars
    <2>4. QED
      BY <1>7, <2>3, SameBook DEF CommitOrder
  <1>8. ASSUME NEW r \in HiddenOrders, RevealOrder(r) PROVE BookInv'
    <2>1. CreateOrder(r, nonces[r.trader]) /\ nonces[r.trader] \in Nat /\ r \in Submission
          /\ r.trader \in Traders
      BY <1>1, <1>2, <1>8 DEF RevealOrder
    <2>2. Len(commitLog[r.trader]) \in Nat
      BY <1>1, <2>1
    <2>3. AccountsTypeOK'
      BY <1>1, <1>8, <2>1, <2>2 DEF RevealOrder, CreateOrder, AccountsTypeOK, authVars, configVars
    <2>4. QED
      BY <2>1, <2>3, CreateInv
  <1>9. ASSUME NEW r \in SignedOrders, PlaceOrderBySig(r) PROVE BookInv'
    <2>1. CreateOrder(r, nonces[r.trader] + 1) /\ nonces[r.trader] + 1 \in Nat /\ r \in Submission
      BY <1>1, <1>2, <1>9 DEF PlaceOrderBySig
    <2>2. AccountsTypeOK'
      BY <1>1, <1>2, <1>9, <2>1 DEF PlaceOrderBySig, CreateOrder, AccountsTypeOK, commitVars, configVars
    <2>3. QED
      BY <2>1, <2>2, CreateInv
  <1>10. ASSUME NEW m, Sign(m) PROVE BookInv'
    <2>1. AccountsTypeOK'
      BY <1>10, AccountsSame DEF Sign, commitVars, configVars
    <2>2. QED
      BY <1>10, <2>1, SameBook DEF Sign
  <1>11. ASSUME NEW o \in Id, NEW d \in Deadlines, CancelOrderBySig(o, d) PROVE BookInv'
    <2>1. orders[o].trader \in Traders
      BY <1>11, PlacedFacts DEF CancelOrderBySig, OrderRecord, Book
    <2>2. AccountsTypeOK'
      <3>1. /\ nonces' = [nonces EXCEPT ![orders[o].trader] = @ + 1]
            /\ UNCHANGED <<commitBlock, revealOf, minCommitBlocks, bookPaused, settlementSet, commitLog>>
        BY <1>11 DEF CancelOrderBySig, commitVars, configVars
      <3>2. nonces' \in [Traders -> Nat]
        BY <1>1, <2>1, <3>1
      <3>3. QED
        BY <3>1, <3>2 DEF AccountsTypeOK
    <2>3. Book'
      BY <1>11, CancelInv DEF CancelOrderBySig
    <2>4. QED
      BY <2>2, <2>3
  <1>12. ASSUME NEW o \in Id, CancelOrder(o) PROVE BookInv'
    <2>1. AccountsTypeOK'
      BY <1>12, AccountsSame DEF CancelOrder, authVars, commitVars, configVars
    <2>2. QED
      BY <1>12, <2>1, CancelInv DEF CancelOrder
  <1>13. ASSUME NEW p \in Pairs, MatchOrder(p) PROVE BookInv'
    <2>1. AccountsTypeOK'
      BY <1>13, AccountsSame DEF MatchOrder, authVars, commitVars, configVars
    <2>2. /\ Idle /\ UNCHANGED <<orderNonce, orders, filled, queue, executed, status, now>>
          /\ matching' \in Pairs \cup {NoPair} /\ now' \in Nat /\ now <= now'
          /\ status' \in [Id -> OrderStatus]
      BY <1>1, <1>13 DEF MatchOrder, Book, BookTypeOK
    <2>3. Book'
      BY <2>2, QuietInv
    <2>4. QED
      BY <2>1, <2>3
  <1>14. CASE OwnerCall
    <2>1. AccountsTypeOK'
      BY <1>2, <1>14 DEF OwnerCall, SetSettlement, SetMinCommitBlocks, PauseBook, UnpauseBook,
         AccountsTypeOK, authVars, commitVars
    <2>2. Idle /\ UNCHANGED <<bookVars, now>>
      BY <1>14 DEF OwnerCall, SetSettlement, SetMinCommitBlocks, PauseBook, UnpauseBook
    <2>3. QED
      BY <2>1, <2>2, SameBook
  <1>15. CASE NewBlock
    <2>1. AccountsTypeOK'
      BY <1>15, AccountsSame DEF NewBlock, authVars, commitVars, configVars
    <2>2. /\ Idle /\ UNCHANGED <<orderNonce, orders, filled, queue, executed, status, matching>>
          /\ matching' \in Pairs \cup {NoPair} /\ now' \in Nat /\ now <= now'
          /\ status' \in [Id -> OrderStatus]
      BY <1>1, <1>15 DEF NewBlock, bookVars, Book, BookTypeOK
    <2>3. Book'
      BY <2>2, QuietInv
    <2>4. QED
      BY <2>1, <2>3
  <1>16. CASE TraderCall
    BY <1>6, <1>7, <1>8, <1>9, <1>10, <1>11, <1>12, <1>13, <1>16
    DEF TraderCall, SignPlacement, SignCancellation
  <1>17. CASE SettleAttempt
    BY <1>5, <1>17 DEF SettleAttempt
  <1>18. QED
    BY <1>3, <1>4, <1>14, <1>15, <1>16, <1>17 DEF ContractNext

\* A call of a trader creates an order, or starts the loop, or leaves both alone.
LEMMA CallKinds ==
  ASSUME BookInv, TraderCall
  PROVE  \/ \E r \in Submission, nonce \in Nat : CreateOrder(r, nonce)
         \/ \E p \in Pairs : MatchOrder(p)
         \/ Idle /\ UNCHANGED <<orderNonce, orders, filled, queue, matching, executed, now>>
  <1>1. nonces \in [Traders -> Nat]
    BY BookInvParts DEF AccountsTypeOK
  <1>2. /\ Submissions \subseteq Submission /\ SignedOrders \subseteq Submission
        /\ HiddenOrders \subseteq Submission
        /\ \A r \in Submission : r.trader \in Traders
    BY ContractAssumption DEF Submission
  <1>3. \A r \in Submission : nonces[r.trader] \in Nat /\ nonces[r.trader] + 1 \in Nat
    BY <1>1, <1>2
  <1>4. CASE \/ \E r \in Submissions : PlaceOrder(r)
             \/ \E r \in HiddenOrders : RevealOrder(r)
             \/ \E r \in SignedOrders : PlaceOrderBySig(r)
    BY <1>2, <1>3, <1>4 DEF PlaceOrder, RevealOrder, PlaceOrderBySig
  <1>5. CASE \/ \E r \in HiddenOrders : CommitOrder(r)
             \/ \E r \in SignedOrders : SignPlacement(r)
             \/ \E o \in Id, d \in Deadlines : SignCancellation(o, d)
    BY <1>5 DEF CommitOrder, SignPlacement, SignCancellation, Sign, bookVars
  <1>6. CASE \/ \E o \in Id, d \in Deadlines : CancelOrderBySig(o, d)
             \/ \E o \in Id : CancelOrder(o)
    BY <1>6 DEF CancelOrderBySig, CancelOrder
  <1>7. QED
    BY <1>4, <1>5, <1>6 DEF TraderCall

\* Whatever is placed, revealed, signed, cancelled, matched or left to expire, and however
\* the owner switches the contract, the arrays of OrderBook.sol stay sorted and complete, and
\* every order's fills and status agree.
THEOREM BookIsKept == ContractSpec => []BookInv
  <1>1. QED
    BY InitBook, StepBook, PTL DEF ContractSpec

\* Between transactions the book is not crossed, stale orders included.
THEOREM NeverCrossed == ContractSpec => []BookUncrossed
  <1>1. BookInv => BookUncrossed
    <2> SUFFICES ASSUME BookInv, NEW p \in Pairs, p # matching,
                        NEW i \in DOMAIN queue[p]["BUY"], NEW j \in DOMAIN queue[p]["SELL"]
                 PROVE  orders[queue[p]["BUY"][i]].price < orders[queue[p]["SELL"][j]].price
      BY DEF BookUncrossed, Uncrossed
    <2>1. Book
      BY BookInvParts
    <2>2. ~(orders[queue[p]["BUY"][i]].price >= orders[queue[p]["SELL"][j]].price)
      BY <2>1 DEF Book, OnlyArrivalCrosses
    <2>3. queue[p]["BUY"][i] \in Placed /\ queue[p]["SELL"][j] \in Placed
      BY <2>1, QueueFacts DEF Book, Side
    <2>4. QED
      BY <2>1, <2>2, <2>3, PlacedFacts DEF Book
  <1>2. QED
    BY <1>1, BookIsKept, PTL

\* A step while the loop runs is a turn of it.
LEMMA RunningTurns ==
  ASSUME ContractNext, matching # NoPair
  PROVE  TurnOfLoop \/ SettleAttempt
  <1>1. ASSUME TraderCall PROVE Idle
    BY <1>1 DEF TraderCall, PlaceOrder, CreateOrder, CommitOrder, RevealOrder, SignPlacement,
       SignCancellation, Sign, PlaceOrderBySig, CancelOrderBySig, CancelOrder, MatchOrder
  <1>2. ASSUME OwnerCall \/ NewBlock PROVE Idle
    BY <1>2 DEF OwnerCall, SetSettlement, SetMinCommitBlocks, PauseBook, UnpauseBook, NewBlock
  <1>3. QED
    BY <1>1, <1>2 DEF ContractNext, Idle

\* What a turn that goes on leaves of the two arrays: a trade fills one of its orders,
\* since it trades the smaller of two remainders, and a filled head is removed.
LEMMA TurnShortens ==
  ASSUME Book, PruneBid \/ PruneAsk \/ SettleAttempt
  PROVE  /\ UNCHANGED matching /\ matching \in Pairs
         /\ queue'[matching]["BUY"] \in Seq(Placed) /\ queue'[matching]["SELL"] \in Seq(Placed)
         /\ Len(queue'[matching]["BUY"]) + Len(queue'[matching]["SELL"])
              < Len(queue[matching]["BUY"]) + Len(queue[matching]["SELL"])
  <1> DEFINE bids == queue[matching]["BUY"]
             asks == queue[matching]["SELL"]
  <1>1. HeadsMeet /\ UNCHANGED matching
    BY DEF PruneBid, PruneAsk, SettleAttempt, Execute
  <1>2. queue \in [Pairs -> [Side -> Seq(Placed)]] /\ matching \in Pairs /\ "BUY" \in Side /\ "SELL" \in Side
    BY <1>1, HeadFacts DEF Book, BookTypeOK, Side
  <1>3. bids \in Seq(Placed) /\ asks \in Seq(Placed) /\ bids # <<>> /\ asks # <<>>
    BY <1>1, <1>2 DEF HeadsMeet, Bids, Asks
  <1>4. /\ Tail(bids) \in Seq(Placed) /\ Len(Tail(bids)) = Len(bids) - 1 /\ Len(bids) \in Nat
        /\ Tail(asks) \in Seq(Placed) /\ Len(Tail(asks)) = Len(asks) - 1 /\ Len(asks) \in Nat
    BY <1>3, TailFacts
  <1> DEFINE bids1 == queue'[matching]["BUY"]
             asks1 == queue'[matching]["SELL"]
             Shorter == \/ bids1 = bids /\ asks1 = Tail(asks)
                        \/ bids1 = Tail(bids) /\ asks1 = asks
                        \/ bids1 = Tail(bids) /\ asks1 = Tail(asks)
  <1>5. ASSUME PruneBid PROVE Shorter
    <2>1. queue'[matching]["BUY"] = Tail(bids) /\ queue'[matching]["SELL"] = asks
      BY <1>2, <1>5 DEF PruneBid
    <2>2. QED
      BY <2>1
  <1>6. ASSUME PruneAsk PROVE Shorter
    <2>1. queue'[matching]["BUY"] = bids /\ queue'[matching]["SELL"] = Tail(asks)
      BY <1>2, <1>6 DEF PruneAsk
    <2>2. QED
      BY <2>1
  <1>7. ASSUME SettleAttempt PROVE Shorter
    <2> DEFINE b == Head(Bids)
               a == Head(Asks)
    <2>1. PICK ok \in BOOLEAN : Execute(ok)
      BY <1>7 DEF SettleAttempt
    <2>2. /\ b \in Placed /\ a \in Placed /\ b = bids[1] /\ a = asks[1]
          /\ filled'[b] = filled[b] + MatchQty(b, a) /\ filled'[a] = filled[a] + MatchQty(b, a)
          /\ status'[b] = IF filled'[b] = orders[b].quantity THEN "FILLED" ELSE "PARTIALLY_FILLED"
          /\ status'[a] = IF filled'[a] = orders[a].quantity THEN "FILLED" ELSE "PARTIALLY_FILLED"
      BY <2>1, ExecuteFacts
    <2>3. /\ filled[b] \in Nat /\ orders[b].quantity \in Nat /\ filled[a] \in Nat /\ orders[a].quantity \in Nat
      BY <2>2, PlacedFacts DEF Book
    <2>4. MatchQty(b, a) = orders[b].quantity - filled[b] \/ MatchQty(b, a) = orders[a].quantity - filled[a]
      BY DEF MatchQty, Remaining
    <2> HIDE DEF b, a
    <2>5. status'[b] = "FILLED" \/ status'[a] = "FILLED"
      BY <2>2, <2>3, <2>4
    <2>6. /\ bids1 = IF status'[bids[1]] = "FILLED" THEN Tail(bids) ELSE bids
          /\ asks1 = IF status'[asks[1]] = "FILLED" THEN Tail(asks) ELSE asks
      BY <1>2, <2>1, ExecutedQueue
    <2> HIDE DEF bids, asks, bids1, asks1
    <2>7. QED
      BY <2>2, <2>5, <2>6
  <1> HIDE DEF bids1, asks1
  <1>8. Shorter
    BY <1>5, <1>6, <1>7
  <1> HIDE DEF bids, asks
  <1>9. /\ bids1 \in Seq(Placed) /\ asks1 \in Seq(Placed)
        /\ Len(bids1) + Len(asks1) < Len(bids) + Len(asks)
    <2>1. bids1 \in Seq(Placed) /\ asks1 \in Seq(Placed)
      BY <1>3, <1>4, <1>8, Zenon
    <2> DEFINE n == Len(bids)
               m == Len(asks)
    <2>2. \/ Len(bids1) = n /\ Len(asks1) = m - 1
          \/ Len(bids1) = n - 1 /\ Len(asks1) = m
          \/ Len(bids1) = n - 1 /\ Len(asks1) = m - 1
      BY <1>4, <1>8, Zenon
    <2>3. n \in Nat /\ m \in Nat
      BY <1>4
    <2> HIDE DEF n, m
    <2>4. Len(bids1) + Len(asks1) < n + m
      BY <2>2, <2>3
    <2>5. QED
      BY <2>1, <2>4 DEF n, m
  <1>10. QED
    BY <1>1, <1>2, <1>9 DEF bids, asks, bids1, asks1

\* What the loop may still have to look at: nothing when it has ended.
LoopLeft == IF matching = NoPair THEN 0 ELSE 1 + Len(Bids) + Len(Asks)

\* Every turn of _tryMatch leaves less to look at: a transaction takes no more turns
\* than there are orders in the two arrays of its pair, and one to end, whatever
\* expired, was cancelled or filled there, and although the code has no counter.
TurnsEnd == [][matching # NoPair => LoopLeft' \in Nat /\ LoopLeft' < LoopLeft]_contractVars

\* A turn ends the loop or shortens the arrays.
LEMMA TurnDescends ==
  ASSUME BookInv, [ContractNext]_contractVars
  PROVE  [matching # NoPair => LoopLeft' \in Nat /\ LoopLeft' < LoopLeft]_contractVars
  <1> SUFFICES ASSUME ContractNext, matching # NoPair PROVE LoopLeft' \in Nat /\ LoopLeft' < LoopLeft
    OBVIOUS
  <1>1. Book /\ (TurnOfLoop \/ SettleAttempt)
    BY BookInvParts, RunningTurns
  <1>2. matching \in Pairs /\ queue \in [Pairs -> [Side -> Seq(Placed)]]
    BY <1>1 DEF Book, BookTypeOK
  <1>3. Len(Bids) \in Nat /\ Len(Asks) \in Nat
    BY <1>2 DEF Bids, Asks, Side
  <1>4. CASE EndMatch
    BY <1>3, <1>4 DEF EndMatch, LoopLeft
  <1>5. CASE PruneBid \/ PruneAsk \/ SettleAttempt
    <2>1. /\ UNCHANGED matching
          /\ queue'[matching]["BUY"] \in Seq(Placed) /\ queue'[matching]["SELL"] \in Seq(Placed)
          /\ Len(queue'[matching]["BUY"]) + Len(queue'[matching]["SELL"])
               < Len(queue[matching]["BUY"]) + Len(queue[matching]["SELL"])
      BY <1>1, <1>5, TurnShortens
    <2>2. Len(queue'[matching]["BUY"]) \in Nat /\ Len(queue'[matching]["SELL"]) \in Nat
      BY <2>1
    <2>3. LoopLeft' = 1 + Len(queue'[matching]["BUY"]) + Len(queue'[matching]["SELL"])
      BY <2>1 DEF LoopLeft, Bids, Asks
    <2>4. /\ LoopLeft = 1 + Len(queue[matching]["BUY"]) + Len(queue[matching]["SELL"])
          /\ Len(queue[matching]["BUY"]) \in Nat /\ Len(queue[matching]["SELL"]) \in Nat
      BY <1>3 DEF LoopLeft, Bids, Asks
    <2> DEFINE n == Len(queue[matching]["BUY"])
               m == Len(queue[matching]["SELL"])
               n1 == Len(queue'[matching]["BUY"])
               m1 == Len(queue'[matching]["SELL"])
    <2>5. /\ n \in Nat /\ m \in Nat /\ n1 \in Nat /\ m1 \in Nat /\ n1 + m1 < n + m
          /\ LoopLeft' = 1 + n1 + m1 /\ LoopLeft = 1 + n + m
      BY <2>1, <2>2, <2>3, <2>4
    <2> HIDE DEF n, m, n1, m1
    <2>6. QED
      BY <2>5
  <1>6. QED
    BY <1>1, <1>4, <1>5 DEF TurnOfLoop

\* The loop of _tryMatch has no counter: a turn that neither removed an order nor ended
\* the loop would run out of gas, and nobody could trade on the pair any more.
THEOREM LoopEnds == ContractSpec => TurnsEnd
  <1>1. QED
    BY TurnDescends, InitBook, StepBook, PTL DEF ContractSpec, TurnsEnd

\* Only a trade of the heads appends to the events.
LEMMA OnlyExecuteTrades ==
  ASSUME ContractNext, IsTrade
  PROVE  \E ok \in BOOLEAN : Execute(ok)
  <1>1. CASE SettleAttempt
    BY <1>1 DEF SettleAttempt
  <1>2. CASE TurnOfLoop \/ OwnerCall \/ NewBlock
    BY <1>2 DEF TurnOfLoop, PruneBid, PruneAsk, EndMatch, OwnerCall, SetSettlement,
       SetMinCommitBlocks, PauseBook, UnpauseBook, NewBlock, bookVars, IsTrade
  <1>3. CASE TraderCall
    BY <1>3 DEF TraderCall, PlaceOrder, CreateOrder, CommitOrder, RevealOrder, SignPlacement,
       SignCancellation, Sign, PlaceOrderBySig, CancelOrderBySig, CancelOrder, MatchOrder, bookVars,
       IsTrade
  <1>4. QED
    BY <1>1, <1>2, <1>3 DEF ContractNext

\* The last event is the trade of the heads.
LEMMA LastTradeFacts ==
  ASSUME Book, NEW ok \in BOOLEAN, Execute(ok)
  PROVE  LastTrade.buy = Head(Bids) /\ LastTrade.sell = Head(Asks)
  <1> DEFINE trade == [buy |-> Head(Bids), sell |-> Head(Asks), price |-> orders[Head(Asks)].price,
                       quantity |-> MatchQty(Head(Bids), Head(Asks)), settled |-> ok]
  <1>1. executed' = Append(executed, trade)
    BY ExecuteFacts
  <1>2. trade.buy = Head(Bids) /\ trade.sell = Head(Asks)
    OBVIOUS
  <1>3. executed \in Seq(TradeRecord)
    BY DEF Book, BookTypeOK
  <1> HIDE DEF trade
  <1>4. LastTrade = trade
    BY <1>1, <1>3 DEF LastTrade
  <1>5. QED
    BY <1>2, <1>4

\* The head of an array stands before everything else that can trade on its side.
LEMMA HeadsFirst ==
  ASSUME Book, NEW p \in Pairs, NEW s \in Side, 1 \in DOMAIN queue[p][s],
         NEW x \in Placed, orders[x].side = s, orders[x].pair = p, CanTrade(x)
  PROVE  ~Precedes(x, queue[p][s][1])
  <1> DEFINE h == queue[p][s][1]
  <1>1. PICK i \in DOMAIN queue[p][s] : queue[p][s][i] = x
    BY DEF Book, QueueHolds
  <1>2. h \in Placed /\ i \in Nat /\ i >= 1 /\ orders[h].side = s
    BY QueueFacts DEF Book
  <1>3. /\ orders[x].price \in Nat /\ orders[h].price \in Nat /\ x \in Nat /\ h \in Nat
    BY <1>2, PlacedFacts DEF Book
  <1>4. CASE i = 1
    BY <1>1, <1>3, <1>4 DEF Precedes, BetterPrice
  <1>5. CASE i > 1
    <2>1. Precedes(h, x)
      BY <1>1, <1>5 DEF Book, QueueSorted
    <2> HIDE DEF h
    <2>2. ~Precedes(x, h)
      BY <1>2, <1>3, <2>1 DEF Precedes, BetterPrice
    <2>3. QED
      BY <2>2 DEF h
  <1>6. QED
    BY <1>2, <1>4, <1>5

\* Price-time priority of _tryMatch: the orders of a trade can still trade, and none that
\* can stands before them.
THEOREM PriorityKept == ContractSpec => PriceTimePriority
  <1>1. ASSUME BookInv, [ContractNext]_contractVars, IsTrade,
               NEW m \in {LastTrade.buy, LastTrade.sell}
        PROVE  /\ CanTrade(m)
               /\ \A x \in Placed : orders[x].side = orders[m].side /\ orders[x].pair = orders[m].pair
                                      => ~CanTrade(x) \/ ~Precedes(x, m)
    <2>1. Book
      BY <1>1, BookInvParts
    <2>2. PICK ok \in BOOLEAN : Execute(ok)
      BY <1>1, OnlyExecuteTrades DEF IsTrade, contractVars, bookVars
    <2>3. m \in {Head(Bids), Head(Asks)}
      BY <1>1, <2>1, <2>2, LastTradeFacts
    <2>4. CanTrade(m)
      BY <2>1, <2>2, <2>3, ExecuteFacts
    <2>5. PICK s \in Side : /\ m = queue[matching][s][1] /\ 1 \in DOMAIN queue[matching][s]
                            /\ orders[m].side = s /\ orders[m].pair = matching /\ matching \in Pairs
      BY <2>1, <2>2, <2>3, HeadFacts DEF Execute, Side
    <2>6. QED
      BY <2>1, <2>4, <2>5, HeadsFirst
  <1>2. BookInv /\ [ContractNext]_contractVars =>
          [IsTrade => \A m \in {LastTrade.buy, LastTrade.sell} :
             /\ CanTrade(m)
             /\ \A x \in Placed : orders[x].side = orders[m].side /\ orders[x].pair = orders[m].pair
                                    => ~CanTrade(x) \/ ~Precedes(x, m)]_contractVars
    BY <1>1
  <1>3. QED
    BY <1>2, BookIsKept, PTL DEF ContractSpec, PriceTimePriority

\* A trade is always made by the order that has just arrived.
THEOREM TradesComeWithOrders == ContractSpec => TradesOnArrival
  <1>1. ASSUME BookInv, [ContractNext]_contractVars, IsTrade
        PROVE  /\ orderNonce \in {LastTrade.buy, LastTrade.sell}
               /\ orders[orderNonce].timestamp = now /\ ~bookPaused
    <2>1. Book
      BY <1>1, BookInvParts
    <2>2. PICK ok \in BOOLEAN : Execute(ok)
      BY <1>1, OnlyExecuteTrades DEF IsTrade, contractVars, bookVars
    <2> DEFINE b == Head(Bids)
               a == Head(Asks)
    <2>3. /\ matching \in Pairs /\ b = queue[matching]["BUY"][1] /\ a = queue[matching]["SELL"][1]
          /\ 1 \in DOMAIN queue[matching]["BUY"] /\ 1 \in DOMAIN queue[matching]["SELL"]
          /\ Crosses(b, a)
      BY <2>1, <2>2, ExecuteFacts
    <2>4. orders[b].price >= orders[a].price
      BY <2>3 DEF Crosses
    <2> HIDE DEF b, a
    <2>5. orderNonce \in {b, a} /\ orders[orderNonce].timestamp = now /\ ~bookPaused
      BY <2>1, <2>3, <2>4 DEF Book, OnlyArrivalCrosses
    <2>6. QED
      BY <2>1, <2>2, <2>5, LastTradeFacts DEF b, a
  <1>2. BookInv /\ [ContractNext]_contractVars =>
          [IsTrade => /\ orderNonce \in {LastTrade.buy, LastTrade.sell}
                      /\ orders[orderNonce].timestamp = now /\ ~bookPaused]_contractVars
    BY <1>1
  <1>3. QED
    BY <1>2, BookIsKept, PTL DEF ContractSpec, TradesOnArrival


(***************************************************************************)
(* The on-chain book implements Market, for every set of traders, pairs,   *)
(* submissions, signatures and commitments: what OrderBook.sol does is an  *)
(* accepted order, a trade, orders that leave (cancelled, or expired when  *)
(* a block passes), or nothing the market sees.                            *)
(***************************************************************************)
\* The contract as the market sees it (the mapping of TheMarket).
Terms == [o \in Placed |-> [side |-> IF orders[o].side = "BUY" THEN "buy" ELSE "sell",
                            price |-> orders[o].price, quantity |-> orders[o].quantity]]
Fills == [o \in Placed |-> filled[o]]
Alive == {o \in Placed : CanTrade(o)}

\* An empty book is an empty market.
LEMMA MarketInit == ContractInit => TheMarket!Init
  <1> SUFFICES ASSUME ContractInit PROVE TheMarket!Init
    OBVIOUS
  <1>1. Placed = {}
    BY DEF ContractInit, Placed
  <1>2. DOMAIN Terms = {} /\ Fills = [o \in DOMAIN Terms |-> 0] /\ Alive = {}
    BY <1>1 DEF Terms, Fills, Alive
  <1>3. QED
    BY <1>2 DEF TheMarket!Init, Terms, Fills, Alive, Placed

\* A step that changes neither orders nor fills and revives no order: some leave, or
\* nothing happens.
LEMMA MarketRetire ==
  ASSUME UNCHANGED <<orderNonce, orders, filled>>,
         \A o \in Placed : CanTrade(o)' => CanTrade(o)
  PROVE  TheMarket!Next
  <1>1. Placed' = Placed
    BY DEF Placed
  <1>2. Terms' = Terms /\ Fills' = Fills
    BY <1>1 DEF Terms, Fills
  <1>3. Alive' \subseteq Alive
    BY <1>1 DEF Alive
  <1>4. TheMarket!Retire
    BY <1>2, <1>3 DEF TheMarket!Retire, Terms, Fills, Alive, Placed
  <1>5. QED
    BY <1>4 DEF TheMarket!Next

\* An order that is created is accepted by the market.
LEMMA MarketAccept ==
  ASSUME Book, NEW r \in Submission, NEW nonce \in Nat, CreateOrder(r, nonce),
         NEW n, n = orderNonce + 1
  PROVE  TheMarket!Next
  <1>1. /\ Placed' = Placed \cup {n} /\ n \notin Placed /\ orders'[n] = OrderOf(r, nonce)
        /\ \A o \in Placed : orders'[o] = orders[o]
        /\ UNCHANGED <<filled, status, now>> /\ status[n] = "OPEN" /\ filled[n] = 0
    BY CreateFacts
  <1>2. orders'[n].expiry = 0 \/ ~(now > orders'[n].expiry)
    <2>1. r.expiry \in Nat /\ now \in Nat /\ orders'[n].expiry = r.expiry
      BY <1>1 DEF OrderOf, Submission, Book, BookTypeOK
    <2>2. QED
      BY <2>1 DEF CreateOrder
  <1>3. /\ DOMAIN Terms = Placed /\ DOMAIN Terms' = Placed'
        /\ \A o \in Placed : Terms'[o] = Terms[o]
    BY <1>1 DEF Terms
  <1>4. Fills' = [o \in DOMAIN Terms' |-> IF o = n THEN 0 ELSE Fills[o]]
    BY <1>1, <1>3 DEF Fills
  <1>5. Alive' = Alive \cup {n}
    <2>1. \A o \in Placed : CanTrade(o)' <=> CanTrade(o)
      BY <1>1 DEF CanTrade, IsInactive, IsExpired
    <2>2. CanTrade(n)'
      BY <1>1, <1>2 DEF CanTrade, IsInactive, IsExpired
    <2>3. QED
      BY <1>1, <2>1, <2>2 DEF Alive
  <1>6. TheMarket!Accept
    BY <1>1, <1>3, <1>4, <1>5 DEF TheMarket!Accept, Terms, Fills, Alive, Placed
  <1>7. QED
    BY <1>6 DEF TheMarket!Next

\* A trade of the heads is one of the market.
LEMMA MarketTrade ==
  ASSUME Book, NEW ok \in BOOLEAN, Execute(ok), NEW b, b = Head(Bids), NEW a, a = Head(Asks)
  PROVE  TheMarket!Next
  <1> DEFINE q == MatchQty(b, a)
  <1>1. /\ b \in Placed /\ a \in Placed /\ b # a /\ CanTrade(b) /\ CanTrade(a)
        /\ orders[b].price >= orders[a].price /\ q \in Nat /\ q > 0
        /\ UNCHANGED <<orderNonce, orders, now>>
    BY ExecuteFacts DEF Crosses
  <1>2. /\ \A o \in {a, b} : /\ filled'[o] = filled[o] + q /\ filled'[o] <= orders[o].quantity
                             /\ status'[o] = IF filled'[o] = orders[o].quantity THEN "FILLED"
                                                                              ELSE "PARTIALLY_FILLED"
        /\ \A o \in Id : o \notin {a, b} => filled'[o] = filled[o] /\ status'[o] = status[o]
    <2>1. \A o \in {a, b} : /\ filled'[o] = filled[o] + q /\ filled'[o] <= orders[o].quantity
                            /\ status'[o] = IF filled'[o] = orders[o].quantity THEN "FILLED"
                                                                             ELSE "PARTIALLY_FILLED"
      <3> SUFFICES ASSUME NEW o \in {a, b}
                   PROVE  /\ filled'[o] = filled[o] + q /\ filled'[o] <= orders[o].quantity
                          /\ status'[o] = IF filled'[o] = orders[o].quantity THEN "FILLED"
                                                                           ELSE "PARTIALLY_FILLED"
        OBVIOUS
      <3> QED
        BY ExecuteFacts
    <2>2. \A o \in Id : o \notin {a, b} => filled'[o] = filled[o] /\ status'[o] = status[o]
      BY ExecuteFacts
    <2>3. QED
      BY <2>1, <2>2
  <1>3. orders[b].side = "BUY" /\ orders[a].side = "SELL"
    BY HeadFacts DEF Execute
  <1>4. \A o \in Placed : o \in Id /\ filled[o] \in Nat /\ orders[o].price \in Nat
    BY PlacedFacts DEF Book
  <1> HIDE DEF q
  <1>5. Placed' = Placed /\ Terms' = Terms
    BY <1>1 DEF Placed, Terms
  <1>6. /\ Terms[b].side = "buy" /\ Terms[a].side = "sell" /\ Terms[a].price <= Terms[b].price
        /\ b \in Alive /\ a \in Alive
    BY <1>1, <1>3, <1>4 DEF Terms, Alive
  <1>7. /\ Fills' = [o \in Placed |-> IF o \in {b, a} THEN Fills[o] + q ELSE Fills[o]]
        /\ \A o \in Placed : Fills[o] \in Nat
    BY <1>2, <1>4, <1>5 DEF Fills
  <1>8. Fills'[b] - Fills[b] = q
    BY <1>1, <1>7
  <1>9. Fills' = [Fills EXCEPT ![b] = @ + q, ![a] = @ + q]
    BY <1>1, <1>7 DEF Fills
  <1>10. \A o \in {b, a} : Fills'[o] = filled'[o] /\ Fills'[o] <= Terms[o].quantity
                           /\ Terms[o].quantity = orders[o].quantity
    BY <1>1, <1>2, <1>5 DEF Fills, Terms
  <1>11. \A o \in {b, a} : CanTrade(o)' <=> Fills'[o] # Terms[o].quantity
    BY <1>1, <1>2, <1>10 DEF CanTrade, IsInactive, IsExpired
  <1>12. \A o \in Placed : o \notin {b, a} => (CanTrade(o)' <=> CanTrade(o))
    BY <1>1, <1>2, <1>4 DEF CanTrade, IsInactive, IsExpired
  <1>13. Alive' = Alive \ {o \in {b, a} : Fills'[o] = Terms[o].quantity}
    BY <1>1, <1>5, <1>11, <1>12 DEF Alive
  <1>14. TheMarket!Trade(b, a)
    BY <1>1, <1>5, <1>6, <1>8, <1>9, <1>10, <1>13 DEF TheMarket!Trade, Terms, Fills, Alive, Placed
  <1>15. QED
    BY <1>6, <1>14 DEF TheMarket!Next, Alive, Placed

\* Every step of the contract is a step of the market or leaves it alone.
LEMMA StepMarket == BookInv /\ [ContractNext]_contractVars => [TheMarket!Next]_(TheMarket!vars)
  <1> SUFFICES ASSUME BookInv, [ContractNext]_contractVars PROVE TheMarket!Next
    OBVIOUS
  <1>1. Book /\ nonces \in [Traders -> Nat]
    BY BookInvParts DEF AccountsTypeOK
  <1>2. /\ Submissions \subseteq Submission /\ SignedOrders \subseteq Submission
        /\ HiddenOrders \subseteq Submission /\ \A r \in Submission : r.trader \in Traders
    BY ContractAssumption DEF Submission
  <1>3. ASSUME NEW ok \in BOOLEAN, Execute(ok) PROVE TheMarket!Next
    BY <1>1, <1>3, MarketTrade
  <1>4. ASSUME NEW r \in Submission,
               CreateOrder(r, nonces[r.trader]) \/ CreateOrder(r, nonces[r.trader] + 1)
        PROVE  TheMarket!Next
    <2>1. nonces[r.trader] \in Nat /\ nonces[r.trader] + 1 \in Nat
      BY <1>1, <1>2
    <2>2. \E n : n = orderNonce + 1
      OBVIOUS
    <2>3. QED
      BY <1>1, <1>4, <2>1, <2>2, MarketAccept
  <1>5. CASE \/ TurnOfLoop \/ OwnerCall \/ UNCHANGED contractVars
             \/ (\E r \in HiddenOrders : CommitOrder(r)) \/ (\E m : Sign(m))
             \/ (\E p \in Pairs : MatchOrder(p))
    <2>1. UNCHANGED <<orderNonce, orders, filled, status, now>>
      BY <1>5 DEF TurnOfLoop, PruneBid, PruneAsk, EndMatch, OwnerCall, SetSettlement,
         SetMinCommitBlocks, PauseBook, UnpauseBook, CommitOrder, Sign, MatchOrder, bookVars,
         contractVars
    <2>2. QED
      BY <2>1, MarketRetire DEF CanTrade, IsInactive, IsExpired
  <1>6. ASSUME NEW o \in Id, CancelOrder(o) \/ \E d \in Deadlines : CancelOrderBySig(o, d)
        PROVE  TheMarket!Next
    <2>1. /\ UNCHANGED <<orderNonce, orders, filled, now>>
          /\ status' = [status EXCEPT ![o] = "CANCELLED"]
      BY <1>6 DEF CancelOrder, CancelOrderBySig
    <2>2. \A x \in Id : status'[x] = status[x] \/ status'[x] = "CANCELLED"
      BY <1>1, <2>1 DEF Book, BookTypeOK
    <2>3. \A x \in Placed : CanTrade(x)' => CanTrade(x)
      BY <1>1, <2>1, <2>2, PlacedFacts DEF CanTrade, IsInactive, IsExpired, Book
    <2>4. QED
      BY <2>1, <2>3, MarketRetire
  <1>7. CASE NewBlock
    <2>1. /\ UNCHANGED <<orderNonce, orders, filled, status>> /\ now' = now + 1 /\ now \in Nat
      BY <1>1, <1>7 DEF NewBlock, bookVars, Book, BookTypeOK
    <2>2. \A x \in Placed : CanTrade(x)' => CanTrade(x)
      BY <1>1, <2>1, PlacedFacts DEF CanTrade, IsInactive, IsExpired, Book
    <2>3. QED
      BY <2>1, <2>2, MarketRetire
  <1>8. CASE TraderCall
    BY <1>2, <1>4, <1>5, <1>6, <1>8 DEF TraderCall, PlaceOrder, RevealOrder, PlaceOrderBySig,
       SignPlacement, SignCancellation
  <1>9. QED
    BY <1>3, <1>5, <1>7, <1>8 DEF ContractNext, SettleAttempt

\* The contract implements the market, whatever is pushed, pruned, cancelled, paused or left
\* to expire (_createOrder, _tryMatch, cancelOrder, cancelOrderBySig).
THEOREM BookIsAMarket == ContractSpec => BookImplementsMarket
  <1>1. QED
    BY MarketInit, BookIsKept, StepMarket, PTL DEF ContractSpec, BookImplementsMarket, TheMarket!Spec

-----------------------------------------------------------------------------
(***************************************************************************)
(* Signed messages and commitments.                                        *)
(***************************************************************************)
\* What NonceSpentOnce says of one trader, with the finiteness its count needs.
SpentOnce(sp, n, t) ==
  LET mine == {m \in sp : m.signer = t}
  IN /\ IsFiniteSet(mine) /\ Cardinality(mine) = n
     /\ {m.nonce : m \in mine} = 0..(n - 1)

\* A message with the current nonce is new, and moves its signer's nonce by one.
LEMMA SpendFacts ==
  ASSUME NEW sp, NEW n \in Nat, NEW t, SpentOnce(sp, n, t), NEW m, m.signer = t, m.nonce = n
  PROVE  SpentOnce(sp \cup {m}, n + 1, t)
  <1> DEFINE mine == {x \in sp : x.signer = t}
             more == {x \in sp \cup {m} : x.signer = t}
  <1>1. IsFiniteSet(mine) /\ Cardinality(mine) = n /\ {x.nonce : x \in mine} = 0..(n - 1)
    BY DEF SpentOnce
  <1>2. more = mine \cup {m}
    OBVIOUS
  <1>3. m \notin mine
    <2>1. n \notin {x.nonce : x \in mine}
      BY <1>1
    <2>2. QED
      BY <2>1
  <1> HIDE DEF mine, more
  <1>4. IsFiniteSet(more) /\ Cardinality(more) = n + 1
    BY <1>1, <1>2, <1>3, FS_AddElement
  <1>5. {x.nonce : x \in more} = 0..((n + 1) - 1)
    <2>1. {x.nonce : x \in more} = {x.nonce : x \in mine} \cup {n}
      BY <1>2
    <2>2. 0..((n + 1) - 1) = 0..(n - 1) \cup {n}
      OBVIOUS
    <2>3. QED
      BY <1>1, <2>1, <2>2
  <1>6. QED
    BY <1>4, <1>5 DEF SpentOnce, more

\* A message of another signer changes nothing.
LEMMA SpendOther ==
  ASSUME NEW sp, NEW n, NEW t, SpentOnce(sp, n, t), NEW m, m.signer # t
  PROVE  SpentOnce(sp \cup {m}, n, t)
  <1>1. {x \in sp \cup {m} : x.signer = t} = {x \in sp : x.signer = t}
    OBVIOUS
  <1>2. QED
    BY <1>1 DEF SpentOnce

\* A commitment that can still be revealed is the last of its trader, and no order has
\* revealed it; orders that do not exist reveal nothing.
NoncesUsed == \A t \in Traders : SpentOnce(spent, nonces[t], t)
CommitsOpen ==
  /\ commitment \in [Traders -> SUBSET HiddenOrders]
  /\ \A t \in Traders : \A r \in commitment[t] :
       /\ r.trader = t /\ Len(commitLog[t]) > 0
       /\ commitLog[t][Len(commitLog[t])].order = r
       /\ commitLog[t][Len(commitLog[t])].at = commitBlock[t]
       /\ \A o \in Placed : orders[o].trader = t => revealOf[o] # Len(commitLog[t])
  /\ \A o \in Id : o > orderNonce => revealOf[o] = 0
  /\ 0 \notin CommitAges => minCommitBlocks > 0
UsedIInv == NoncesUsed /\ CommitsOpen /\ RevealsBacked

\* UsedOnce follows.
LEMMA UsedParts == UsedIInv => UsedOnce
  BY DEF UsedIInv, NoncesUsed, SpentOnce, UsedOnce, NonceSpentOnce, SpentBy

\* A signed message is executed: its signer's nonce moves, nobody else's.
LEMMA SpendKeeps ==
  ASSUME NoncesUsed, nonces \in [Traders -> Nat], NEW m, NEW t \in Traders,
         m.signer = t, m.nonce = nonces[t],
         spent' = spent \cup {m}, nonces' = [nonces EXCEPT ![t] = @ + 1]
  PROVE  NoncesUsed'
  <1> SUFFICES ASSUME NEW u \in Traders
               PROVE  SpentOnce(spent', nonces'[u], u)
    BY DEF NoncesUsed
  <1>1. SpentOnce(spent, nonces[u], u) /\ nonces[u] \in Nat
    BY DEF NoncesUsed
  <1>2. CASE u = t
    <2>1. nonces'[u] = nonces[u] + 1
      BY <1>2
    <2>2. SpentOnce(spent \cup {m}, nonces[u] + 1, u)
      BY <1>1, <1>2, SpendFacts
    <2>3. QED
      BY <2>1, <2>2
  <1>3. CASE u # t
    <2>1. nonces'[u] = nonces[u]
      BY <1>3
    <2>2. SpentOnce(spent \cup {m}, nonces[u], u)
      BY <1>1, <1>3, SpendOther
    <2>3. QED
      BY <2>1, <2>2
  <1>4. QED
    BY <1>2, <1>3

\* What RevealsBacked says of one order: rec is the order, i the commitment it reveals, log
\* the commitments of its trader.
Backed(rec, i, log) ==
  /\ i \in DOMAIN log
  /\ rec.trader = log[i].order.trader /\ rec.pair = log[i].order.pair
  /\ rec.side = log[i].order.side /\ rec.type = log[i].order.type
  /\ rec.price = log[i].order.price /\ rec.quantity = log[i].order.quantity
  /\ rec.expiry = log[i].order.expiry
  /\ 0 \notin CommitAges => log[i].at < rec.timestamp
Alone(ord, rev, S, o) == \A x \in S : x # o /\ ord[x].trader = ord[o].trader => rev[x] # rev[o]
AllBacked(ord, rev, log, S) ==
  \A o \in S : rev[o] # 0 => Backed(ord[o], rev[o], log[ord[o].trader]) /\ Alone(ord, rev, S, o)

\* RevealsBacked, now and after the step, says it of every order.
LEMMA BackedMeans ==
  /\ RevealsBacked <=> AllBacked(orders, revealOf, commitLog, Placed)
  /\ RevealsBacked' <=> AllBacked(orders', revealOf', commitLog', Placed')
  <1>1. RevealsBacked <=> AllBacked(orders, revealOf, commitLog, Placed)
    BY DEF RevealsBacked, AllBacked, Backed, Alone, Opens
  <1>2. RevealsBacked' <=> AllBacked(orders', revealOf', commitLog', Placed')
    BY DEF RevealsBacked, AllBacked, Backed, Alone, Opens
  <1>3. QED
    BY <1>1, <1>2

\* It survives when the orders that reveal something are the ones that did, and logs only grow.
LEMMA BackedKeeps ==
  ASSUME NEW ord, NEW rev, NEW log, NEW S, AllBacked(ord, rev, log, S),
         NEW ord2, NEW rev2, NEW log2, NEW S2,
         \A o \in S2 : rev2[o] # 0 => o \in S /\ ord2[o] = ord[o] /\ rev2[o] = rev[o],
         \A o \in S : \A i \in DOMAIN log[ord[o].trader] :
           /\ i \in DOMAIN log2[ord[o].trader]
           /\ log2[ord[o].trader][i] = log[ord[o].trader][i]
  PROVE  AllBacked(ord2, rev2, log2, S2)
  <1> SUFFICES ASSUME NEW o \in S2, rev2[o] # 0
               PROVE  Backed(ord2[o], rev2[o], log2[ord2[o].trader]) /\ Alone(ord2, rev2, S2, o)
    BY DEF AllBacked
  <1>1. /\ o \in S /\ ord2[o] = ord[o] /\ rev2[o] = rev[o]
        /\ Backed(ord[o], rev[o], log[ord[o].trader]) /\ Alone(ord, rev, S, o)
    BY DEF AllBacked
  <1>2. Backed(ord2[o], rev2[o], log2[ord2[o].trader])
    BY <1>1 DEF Backed
  <1>3. Alone(ord2, rev2, S2, o)
    BY <1>1 DEF Alone
  <1>4. QED
    BY <1>2, <1>3

\* A step that commits and reveals nothing: an order may be created, and the owner may
\* change the age of commitments.
LEMMA QuietCommits ==
  ASSUME BookInv, CommitsOpen, RevealsBacked,
         UNCHANGED <<commitment, commitBlock, commitLog, revealOf>>,
         minCommitBlocks' \in {minCommitBlocks} \cup CommitAges,
         orderNonce' \in Nat, orderNonce' >= orderNonce,
         \A o \in Placed : orders'[o] = orders[o],
         orderNonce' > orderNonce => orderNonce' = orderNonce + 1 /\ orderNonce' \in Id
  PROVE  CommitsOpen' /\ RevealsBacked'
  <1>1. orderNonce \in Nat /\ AccountsTypeOK /\ minCommitBlocks \in Nat /\ CommitAges \subseteq Nat
    BY BookInvParts, PlacedFacts, ContractAssumption DEF Book, AccountsTypeOK
  <1>2. \A o \in Placed' : o \in Placed \/ (o \in Id /\ o > orderNonce /\ revealOf[o] = 0)
    <2>1. \A o \in Placed' : o \in Nat /\ o >= 1 /\ o <= orderNonce'
      BY DEF Placed
    <2>2. \A o \in Placed' : o \in Placed \/ (o = orderNonce' /\ orderNonce' > orderNonce)
      BY <1>1, <2>1 DEF Placed
    <2>3. QED
      BY <1>1, <2>2 DEF CommitsOpen
  <1>3. 0 \notin CommitAges => minCommitBlocks' > 0
    BY <1>1 DEF CommitsOpen
  <1>4. ASSUME NEW t \in Traders, NEW r \in commitment[t], NEW o \in Placed', orders'[o].trader = t
        PROVE  revealOf[o] # Len(commitLog[t])
    <2>1. CASE o \in Placed
      BY <1>4, <2>1 DEF CommitsOpen
    <2>2. CASE revealOf[o] = 0
      BY <1>4, <2>2 DEF CommitsOpen
    <2>3. QED
      BY <1>2, <2>1, <2>2
  <1>5. \A o \in Id : o > orderNonce' => revealOf[o] = 0
    <2>1. \A o \in Id : o \in Nat
      BY DEF Id
    <2>2. QED
      BY <1>1, <2>1 DEF CommitsOpen
  <1>6. CommitsOpen'
    BY <1>3, <1>4, <1>5 DEF CommitsOpen
  <1>7. RevealsBacked'
    <2>1. AllBacked(orders, revealOf, commitLog, Placed)
      BY BackedMeans
    <2>2. \A o \in Placed' : revealOf'[o] # 0 => o \in Placed /\ orders'[o] = orders[o]
                                                 /\ revealOf'[o] = revealOf[o]
      BY <1>2
    <2>3. \A o \in Placed : \A i \in DOMAIN commitLog[orders[o].trader] :
            /\ i \in DOMAIN commitLog'[orders[o].trader]
            /\ commitLog'[orders[o].trader][i] = commitLog[orders[o].trader][i]
      OBVIOUS
    <2>4. AllBacked(orders', revealOf', commitLog', Placed')
      BY <2>1, <2>2, <2>3, BackedKeeps
    <2>5. QED
      BY <2>4, BackedMeans
  <1>8. QED
    BY <1>6, <1>7

\* commitOrder: the new commitment is the last of its trader, and no order reveals it.
LEMMA CommitKeeps ==
  ASSUME BookInv, CommitsOpen, RevealsBacked, NEW r \in HiddenOrders, CommitOrder(r)
  PROVE  CommitsOpen' /\ RevealsBacked'
  <1> DEFINE t == r.trader
             entry == [order |-> r, at |-> now]
  <1>1. /\ AccountsTypeOK /\ Book /\ orderNonce \in Nat /\ now \in Nat /\ r \in Submission
        /\ t \in Traders
    <2>1. AccountsTypeOK /\ Book /\ BookTypeOK
      BY BookInvParts DEF Book
    <2>2. r \in Submission /\ t \in Traders
      BY ContractAssumption DEF Submission
    <2>3. orderNonce \in Nat /\ now \in Nat
      BY <2>1, PlacedFacts DEF BookTypeOK
    <2>4. QED
      BY <2>1, <2>2, <2>3
  <1>2. /\ UNCHANGED <<orderNonce, orders, revealOf, minCommitBlocks>> /\ Placed' = Placed
        /\ commitment' = [commitment EXCEPT ![t] = {r}]
        /\ commitBlock' = [commitBlock EXCEPT ![t] = now]
        /\ commitLog' = [commitLog EXCEPT ![t] = Append(@, entry)]
    BY DEF CommitOrder, bookVars, configVars, Placed
  <1>3. commitLog \in [Traders -> Seq([order: HiddenOrders, at: Nat])]
        /\ commitBlock \in [Traders -> Nat] /\ entry \in [order: HiddenOrders, at: Nat]
    BY <1>1 DEF AccountsTypeOK
  <1> HIDE DEF entry, t
  <1>4. /\ Len(commitLog'[t]) = Len(commitLog[t]) + 1 /\ Len(commitLog[t]) \in Nat
        /\ commitLog'[t][Len(commitLog'[t])] = entry
        /\ \A i \in DOMAIN commitLog[t] : i \in DOMAIN commitLog'[t]
                                          /\ commitLog'[t][i] = commitLog[t][i]
    BY <1>1, <1>2, <1>3
  <1>5. \A u \in Traders : u # t => /\ commitLog'[u] = commitLog[u] /\ commitment'[u] = commitment[u]
                                    /\ commitBlock'[u] = commitBlock[u]
    BY <1>2, <1>3 DEF CommitsOpen
  <1>6. commitment'[t] = {r} /\ commitBlock'[t] = now
    BY <1>1, <1>2, <1>3 DEF CommitsOpen
  <1>7. \A o \in Placed : orders[o].trader \in Traders /\ o \in Id
    <2>1. \A o \in Placed : o \in Id /\ orders[o] \in OrderRecord
      BY <1>1, PlacedFacts DEF Book
    <2>2. QED
      BY <2>1 DEF OrderRecord
  <1>8. \A o \in Placed : orders[o].trader = t => revealOf[o] <= Len(commitLog[t])
    <2> SUFFICES ASSUME NEW o \in Placed, orders[o].trader = t PROVE revealOf[o] <= Len(commitLog[t])
      OBVIOUS
    <2>1. CASE revealOf[o] = 0
      BY <1>4, <2>1
    <2>2. CASE revealOf[o] # 0
      <3>1. Backed(orders[o], revealOf[o], commitLog[orders[o].trader])
        BY <2>2, BackedMeans DEF AllBacked
      <3>2. revealOf[o] \in DOMAIN commitLog[t]
        BY <3>1 DEF Backed
      <3>3. QED
        BY <1>1, <1>3, <3>2
    <2>3. QED
      BY <2>1, <2>2
  <1>9. \A o \in Placed : orders[o].trader = t => revealOf[o] # Len(commitLog'[t])
    <2>1. \A o \in Placed : revealOf[o] \in Nat
      BY <1>1, <1>7 DEF AccountsTypeOK
    <2>2. QED
      BY <1>4, <1>8, <2>1
  <1>10. ASSUME NEW u \in Traders, NEW x \in commitment'[u]
         PROVE  /\ x.trader = u /\ Len(commitLog'[u]) > 0
                /\ commitLog'[u][Len(commitLog'[u])].order = x
                /\ commitLog'[u][Len(commitLog'[u])].at = commitBlock'[u]
                /\ \A o \in Placed' : orders'[o].trader = u => revealOf'[o] # Len(commitLog'[u])
    <2>1. CASE u = t
      <3>1. x = r /\ x.trader = u /\ commitBlock'[u] = now
        BY <1>6, <1>10, <2>1 DEF t
      <3>2. commitLog'[u][Len(commitLog'[u])].order = x /\ commitLog'[u][Len(commitLog'[u])].at = now
        BY <1>4, <2>1, <3>1 DEF entry
      <3>3. \A o \in Placed' : orders'[o].trader = u => revealOf'[o] # Len(commitLog'[u])
        BY <1>2, <1>9, <2>1
      <3>4. Len(commitLog'[u]) > 0
        BY <1>4, <2>1
      <3>5. QED
        BY <3>1, <3>2, <3>3, <3>4
    <2>2. CASE u # t
      BY <1>2, <1>5, <1>10, <2>2 DEF CommitsOpen
    <2>3. QED
      BY <2>1, <2>2
  <1>11. commitment' \in [Traders -> SUBSET HiddenOrders]
    BY <1>2 DEF CommitsOpen
  <1>12. CommitsOpen'
    BY <1>2, <1>10, <1>11 DEF CommitsOpen
  <1>13. RevealsBacked'
    <2>1. AllBacked(orders, revealOf, commitLog, Placed)
      BY BackedMeans
    <2>2. \A o \in Placed' : revealOf'[o] # 0 => o \in Placed /\ orders'[o] = orders[o]
                                                 /\ revealOf'[o] = revealOf[o]
      BY <1>2
    <2>3. \A o \in Placed : \A i \in DOMAIN commitLog[orders[o].trader] :
            /\ i \in DOMAIN commitLog'[orders[o].trader]
            /\ commitLog'[orders[o].trader][i] = commitLog[orders[o].trader][i]
      BY <1>4, <1>5, <1>7
    <2>4. AllBacked(orders', revealOf', commitLog', Placed')
      BY <2>1, <2>2, <2>3, BackedKeeps
    <2>5. QED
      BY <2>4, BackedMeans
  <1>14. QED
    BY <1>12, <1>13

\* revealOrder: the order created is the one committed, at least a block before when
\* minCommitBlocks is kept positive, and the commitment is gone.
LEMMA RevealOpensOne ==
  ASSUME BookInv, CommitsOpen, RevealsBacked, NEW r \in HiddenOrders, RevealOrder(r),
         NEW n, n = orderNonce + 1
  PROVE  CommitsOpen' /\ RevealsBacked'
  <1> DEFINE t == r.trader
             last == Len(commitLog[t])
  <1>1. AccountsTypeOK /\ Book /\ BookTypeOK /\ r \in Submission /\ t \in Traders
    BY BookInvParts, ContractAssumption DEF Book, Submission
  <1>2. nonces[r.trader] \in Nat /\ CreateOrder(r, nonces[r.trader])
    BY <1>1 DEF AccountsTypeOK, RevealOrder
  <1>3. /\ orderNonce' = n /\ n \in Id /\ n \notin Placed /\ Placed' = Placed \cup {n}
        /\ orders'[n] = OrderOf(r, nonces[r.trader])
        /\ \A o \in Placed : orders'[o] = orders[o]
    BY <1>1, <1>2, CreateFacts
  <1>4. UNCHANGED minCommitBlocks
    BY <1>2 DEF CreateOrder, configVars
  <1>5. /\ r \in commitment[t] /\ now >= commitBlock[t] + minCommitBlocks
        /\ commitment' = [commitment EXCEPT ![t] = {}]
        /\ revealOf' = [revealOf EXCEPT ![n] = last]
        /\ UNCHANGED commitLog
    BY DEF RevealOrder
  <1>6. /\ orders'[n].trader = t /\ orders'[n].pair = r.pair /\ orders'[n].side = r.side
        /\ orders'[n].type = r.type /\ orders'[n].price = r.price
        /\ orders'[n].quantity = r.quantity /\ orders'[n].expiry = r.expiry
        /\ orders'[n].timestamp = now
    BY <1>3 DEF OrderOf
  <1>7. /\ Len(commitLog[t]) \in Nat /\ last \in Nat /\ last > 0 /\ last \in DOMAIN commitLog[t]
        /\ commitLog[t][last].order = r
        /\ commitLog[t][last].at = commitBlock[t] /\ commitBlock[t] \in Nat
        /\ \A o \in Placed : orders[o].trader = t => revealOf[o] # last
    <2>1. commitLog[t] \in Seq([order: HiddenOrders, at: Nat]) /\ commitBlock[t] \in Nat
      BY <1>1 DEF AccountsTypeOK
    <2>2. /\ Len(commitLog[t]) > 0 /\ commitLog[t][last].order = r
          /\ commitLog[t][last].at = commitBlock[t]
          /\ \A o \in Placed : orders[o].trader = t => revealOf[o] # last
      BY <1>1, <1>5 DEF CommitsOpen
    <2>3. QED
      BY <2>1, <2>2
  <1> HIDE DEF last, t
  <1>8. revealOf'[n] = last /\ \A o \in Id : o # n => revealOf'[o] = revealOf[o]
    BY <1>1, <1>3, <1>5 DEF AccountsTypeOK
  <1>9. commitment'[t] = {} /\ \A u \in Traders : u # t => commitment'[u] = commitment[u]
    BY <1>1, <1>5 DEF CommitsOpen
  <1>10. \A o \in Placed : o \in Id /\ o # n
    BY <1>1, <1>3, PlacedFacts
  <1>11. 0 \notin CommitAges => commitBlock[t] < now
    <2>1. 0 \notin CommitAges => minCommitBlocks > 0
      BY DEF CommitsOpen
    <2>2. minCommitBlocks \in Nat /\ now \in Nat
      BY <1>1 DEF AccountsTypeOK, BookTypeOK
    <2>3. QED
      BY <1>5, <1>7, <2>1, <2>2
  <1>12. CommitsOpen'
    <2>1. ASSUME NEW u \in Traders, NEW x \in commitment'[u]
          PROVE  /\ u # t /\ x \in commitment[u]
                 /\ \A o \in Placed' : orders'[o].trader = u => revealOf'[o] # Len(commitLog'[u])
      <3>1. u # t /\ x \in commitment[u]
        BY <1>9, <2>1
      <3>2. ASSUME NEW o \in Placed', orders'[o].trader = u PROVE revealOf'[o] # Len(commitLog'[u])
        <4>1. o \in Placed
          BY <1>3, <1>6, <3>1, <3>2
        <4>2. orders[o].trader = u /\ revealOf'[o] = revealOf[o]
          BY <1>3, <1>8, <1>10, <3>2, <4>1
        <4>3. QED
          BY <1>5, <3>1, <4>1, <4>2 DEF CommitsOpen
      <3>3. QED
        BY <3>1, <3>2
    <2>2. \A u \in Traders : u # t => commitBlock'[u] = commitBlock[u]
      BY <1>1 DEF RevealOrder, t, AccountsTypeOK
    <2>3. \A o \in Id : o > orderNonce' => revealOf'[o] = 0
      <3>1. orderNonce \in Nat /\ \A o \in Id : o \in Nat
        BY <1>1, PlacedFacts DEF Id
      <3>2. QED
        BY <1>3, <1>8, <3>1 DEF CommitsOpen
    <2>4. commitment' \in [Traders -> SUBSET HiddenOrders]
      BY <1>5 DEF CommitsOpen
    <2>5. ASSUME NEW u \in Traders, NEW x \in commitment'[u]
          PROVE  /\ x.trader = u /\ Len(commitLog'[u]) > 0
                 /\ commitLog'[u][Len(commitLog'[u])].order = x
                 /\ commitLog'[u][Len(commitLog'[u])].at = commitBlock'[u]
      BY <1>5, <2>1, <2>2, <2>5 DEF CommitsOpen
    <2>6. 0 \notin CommitAges => minCommitBlocks' > 0
      BY <1>4 DEF CommitsOpen
    <2>7. QED
      BY <2>1, <2>3, <2>4, <2>5, <2>6 DEF CommitsOpen
  <1>13. RevealsBacked'
    <2>1. AllBacked(orders, revealOf, commitLog, Placed)
      BY BackedMeans
    <2>2. ASSUME NEW o \in Placed', revealOf'[o] # 0
          PROVE  Backed(orders'[o], revealOf'[o], commitLog'[orders'[o].trader])
                 /\ Alone(orders', revealOf', Placed', o)
      <3>1. CASE o = n
        <4>1. Backed(orders'[o], revealOf'[o], commitLog'[orders'[o].trader])
          <5>1. r.trader = t /\ commitLog'[t] = commitLog[t]
            BY <1>5 DEF t
          <5>2. Backed(orders'[n], last, commitLog[t])
            BY <1>6, <1>7, <1>11, <5>1 DEF Backed
          <5>3. QED
            BY <1>6, <1>8, <3>1, <5>1, <5>2
        <4>2. Alone(orders', revealOf', Placed', o)
          <5>1. ASSUME NEW x \in Placed', x # n, orders'[x].trader = t
                PROVE  revealOf'[x] # last
            <6>1. x \in Placed /\ orders[x].trader = t
              BY <1>3, <5>1
            <6>2. revealOf'[x] = revealOf[x]
              BY <1>8, <1>10, <6>1
            <6>3. QED
              BY <1>7, <6>1, <6>2
          <5>2. QED
            BY <1>6, <1>8, <3>1, <5>1 DEF Alone
        <4>3. QED
          BY <4>1, <4>2
      <3>2. CASE o # n
        <4>1. o \in Placed /\ orders'[o] = orders[o] /\ revealOf'[o] = revealOf[o]
          BY <1>3, <1>8, <1>10, <2>2, <3>2
        <4>2. Backed(orders[o], revealOf[o], commitLog[orders[o].trader])
              /\ Alone(orders, revealOf, Placed, o)
          BY <2>1, <2>2, <4>1 DEF AllBacked
        <4>3. ASSUME NEW x \in Placed', x # o, orders'[x].trader = orders'[o].trader
              PROVE  revealOf'[x] # revealOf'[o]
          <5>1. CASE x = n
            BY <1>6, <1>7, <1>8, <4>1, <4>3, <5>1
          <5>2. CASE x # n
            BY <1>3, <1>8, <1>10, <4>1, <4>2, <4>3, <5>2 DEF Alone
          <5>3. QED
            BY <5>1, <5>2
        <4>4. QED
          BY <1>5, <4>1, <4>2, <4>3 DEF Alone
      <3>3. QED
        BY <3>1, <3>2
    <2>3. AllBacked(orders', revealOf', commitLog', Placed')
      BY <2>2 DEF AllBacked
    <2>4. QED
      BY <2>3, BackedMeans
  <1>14. QED
    BY <1>12, <1>13

\* Nothing was signed, committed or revealed when the contract was deployed.
LEMMA UsedInit == ContractInit => UsedIInv
  <1> SUFFICES ASSUME ContractInit PROVE UsedIInv
    OBVIOUS
  <1>1. NoncesUsed
    <2> SUFFICES ASSUME NEW t \in Traders PROVE SpentOnce(spent, nonces[t], t)
      BY DEF NoncesUsed
    <2>1. nonces[t] = 0 /\ spent = {}
      BY DEF ContractInit
    <2>2. {m \in spent : m.signer = t} = {} /\ 0..(0 - 1) = {}
      BY <2>1
    <2>3. QED
      BY <2>1, <2>2, FS_EmptySet DEF SpentOnce
  <1>2. CommitsOpen
    BY DEF ContractInit, CommitsOpen
  <1>3. RevealsBacked
    BY DEF ContractInit, RevealsBacked, Placed
  <1>4. QED
    BY <1>1, <1>2, <1>3 DEF UsedIInv

\* Every step keeps what nonces and commitments mean.
LEMMA StepUsed == BookInv /\ UsedIInv /\ [ContractNext]_contractVars => UsedIInv'
  <1> SUFFICES ASSUME BookInv, UsedIInv, [ContractNext]_contractVars PROVE UsedIInv'
    OBVIOUS
  <1>1. NoncesUsed /\ CommitsOpen /\ RevealsBacked
    BY DEF UsedIInv
  <1>2. /\ Book /\ AccountsTypeOK /\ nonces \in [Traders -> Nat]
        /\ orderNonce \in Nat
        /\ \A o \in Placed : orders[o].trader \in Traders
    <2>1. Book /\ BookTypeOK /\ AccountsTypeOK
      BY BookInvParts DEF Book
    <2>2. orderNonce \in Nat /\ \A o \in Placed : orders[o] \in OrderRecord
      BY <2>1, PlacedFacts
    <2>3. QED
      BY <2>1, <2>2 DEF AccountsTypeOK, OrderRecord
  <1>3. /\ \A r \in Submissions : r \in Submission /\ r.trader \in Traders
        /\ \A r \in SignedOrders : r \in Submission /\ r.trader \in Traders
        /\ \A r \in HiddenOrders : r \in Submission /\ r.trader \in Traders
    BY ContractAssumption DEF Submission
  <1>4. ASSUME UNCHANGED <<nonces, spent>> PROVE NoncesUsed'
    BY <1>1, <1>4 DEF NoncesUsed
  <1>5. ASSUME NEW r \in Submission, NEW nonce \in Nat, CreateOrder(r, nonce), UNCHANGED commitVars
        PROVE  CommitsOpen' /\ RevealsBacked'
    <2>1. \E n : n = orderNonce + 1
      OBVIOUS
    <2>2. /\ orderNonce' = orderNonce + 1 /\ orderNonce' \in Id
          /\ \A o \in Placed : orders'[o] = orders[o]
      BY <1>2, <1>5, <2>1, CreateFacts
    <2>3. /\ UNCHANGED <<commitment, commitBlock, commitLog, revealOf>> /\ minCommitBlocks' = minCommitBlocks
      BY <1>5 DEF CreateOrder, configVars, commitVars
    <2>4. orderNonce' \in Nat /\ orderNonce' >= orderNonce
      BY <1>2, <2>2
    <2>5. QED
      BY <1>1, <2>2, <2>3, <2>4, QuietCommits
  <1>6. ASSUME UNCHANGED <<orderNonce, orders, commitment, commitBlock, commitLog, revealOf>>,
               minCommitBlocks' \in {minCommitBlocks} \cup CommitAges
        PROVE  CommitsOpen' /\ RevealsBacked'
    <2>1. orderNonce' \in Nat /\ orderNonce' >= orderNonce /\ ~(orderNonce' > orderNonce)
      BY <1>2, <1>6
    <2>2. QED
      BY <1>1, <1>6, <2>1, QuietCommits
  <1>7. ASSUME NEW r \in Submissions, PlaceOrder(r) PROVE UsedIInv'
    <2>1. UNCHANGED commitVars /\ UNCHANGED <<nonces, spent>> /\ CreateOrder(r, nonces[r.trader])
          /\ nonces[r.trader] \in Nat
      BY <1>2, <1>3, <1>7 DEF PlaceOrder, authVars
    <2>2. QED
      BY <1>3, <1>4, <1>5, <2>1 DEF UsedIInv
  <1>8. ASSUME NEW r \in HiddenOrders, CommitOrder(r) PROVE UsedIInv'
    <2>1. UNCHANGED <<nonces, spent>>
      BY <1>8 DEF CommitOrder, authVars
    <2>2. QED
      BY <1>1, <1>4, <1>8, <2>1, CommitKeeps DEF UsedIInv
  <1>9. ASSUME NEW r \in HiddenOrders, RevealOrder(r) PROVE UsedIInv'
    <2>1. UNCHANGED <<nonces, spent>> /\ \E n : n = orderNonce + 1
      BY <1>9 DEF RevealOrder, authVars
    <2>2. QED
      BY <1>1, <1>4, <1>9, <2>1, RevealOpensOne DEF UsedIInv
  <1>10. ASSUME NEW r \in SignedOrders, PlaceOrderBySig(r) PROVE UsedIInv'
    <2> DEFINE m == PlaceMessage(r, nonces[r.trader])
    <2>1. /\ UNCHANGED commitVars /\ CreateOrder(r, nonces[r.trader] + 1)
          /\ nonces' = [nonces EXCEPT ![r.trader] = @ + 1] /\ spent' = spent \cup {m}
          /\ nonces[r.trader] + 1 \in Nat
      BY <1>2, <1>3, <1>10 DEF PlaceOrderBySig, Spend
    <2>2. m.signer = r.trader /\ m.nonce = nonces[r.trader]
      BY DEF PlaceMessage
    <2> HIDE DEF m
    <2>3. NoncesUsed'
      BY <1>1, <1>2, <1>3, <2>1, <2>2, SpendKeeps
    <2>4. QED
      BY <1>3, <1>5, <2>1, <2>3 DEF UsedIInv
  <1>11. ASSUME NEW o \in Id, NEW d \in Deadlines, CancelOrderBySig(o, d) PROVE UsedIInv'
    <2> DEFINE t == orders[o].trader
               m == CancelMessage(t, o, nonces[t], d)
    <2>1. /\ UNCHANGED <<orderNonce, orders, commitVars, minCommitBlocks>> /\ o \in Placed
          /\ nonces' = [nonces EXCEPT ![t] = @ + 1] /\ spent' = spent \cup {m}
      BY <1>11 DEF CancelOrderBySig, Spend, configVars
    <2>2. m.signer = t /\ m.nonce = nonces[t] /\ t \in Traders
      BY <1>2, <2>1 DEF CancelMessage
    <2> HIDE DEF m, t
    <2>3. NoncesUsed'
      BY <1>1, <1>2, <2>1, <2>2, SpendKeeps
    <2>4. CommitsOpen' /\ RevealsBacked'
      BY <1>6, <2>1 DEF commitVars
    <2>5. QED
      BY <2>3, <2>4 DEF UsedIInv
  <1>12. ASSUME UNCHANGED <<orderNonce, orders, nonces, spent, commitVars>>,
                minCommitBlocks' \in {minCommitBlocks} \cup CommitAges
         PROVE  UsedIInv'
    <2>1. CommitsOpen' /\ RevealsBacked'
      BY <1>6, <1>12 DEF commitVars
    <2>2. NoncesUsed'
      BY <1>4, <1>12
    <2>3. QED
      BY <2>1, <2>2 DEF UsedIInv
  <1>13. CASE \/ TurnOfLoop \/ SettleAttempt \/ NewBlock \/ UNCHANGED contractVars
              \/ (\E m : Sign(m)) \/ (\E o \in Id : CancelOrder(o)) \/ (\E p \in Pairs : MatchOrder(p))
    <2>1. UNCHANGED <<orderNonce, orders, nonces, spent, commitVars, minCommitBlocks>>
      BY <1>13 DEF TurnOfLoop, PruneBid, PruneAsk, EndMatch, SettleAttempt, Execute, NewBlock, Sign,
         CancelOrder, MatchOrder, bookVars, authVars, configVars, contractVars
    <2>2. QED
      BY <1>12, <2>1
  <1>14. CASE OwnerCall
    <2>1. UNCHANGED <<orderNonce, orders, nonces, spent, commitVars>>
      BY <1>14 DEF OwnerCall, SetSettlement, SetMinCommitBlocks, PauseBook, UnpauseBook, bookVars,
         authVars
    <2>2. minCommitBlocks' \in {minCommitBlocks} \cup CommitAges
      BY <1>14 DEF OwnerCall, SetSettlement, SetMinCommitBlocks, PauseBook, UnpauseBook
    <2>3. QED
      BY <1>12, <2>1, <2>2
  <1>15. CASE TraderCall
    BY <1>7, <1>8, <1>9, <1>10, <1>11, <1>13, <1>15 DEF TraderCall, SignPlacement, SignCancellation
  <1>16. QED
    BY <1>13, <1>14, <1>15 DEF ContractNext

\* Each signed message and each commitment is used once, whatever traders sign, relayers send,
\* and the owner sets (placeOrderBySig, cancelOrderBySig, commitOrder, revealOrder): a trader's
\* nonce counts its executed messages, and a revealed order is the one committed.
THEOREM EachUsedOnce == ContractSpec => []UsedOnce
  <1>1. QED
    BY BookIsKept, UsedInit, StepUsed, UsedParts, PTL DEF ContractSpec

-----------------------------------------------------------------------------
(***************************************************************************)
(* The events tell what was filled.                                        *)
(***************************************************************************)
\* What a trade filled of an order.
Share(t, o) == IF o \in {t.buy, t.sell} THEN t.quantity ELSE 0
Shares(s, o) == [i \in DOMAIN s |-> Share(s[i], o)]

\* The fills of a sequence of trades, when one more is appended.
LEMMA TradedMore ==
  ASSUME NEW s \in Seq(TradeRecord), NEW t \in TradeRecord, NEW o
  PROVE  /\ Traded(s, o) \in Nat /\ Share(t, o) \in Nat
         /\ Traded(Append(s, t), o) = Traded(s, o) + Share(t, o)
  <1> DEFINE n == Len(s)
             w == Shares(s, o)
             v == Shares(Append(s, t), o)
  <1>1. n \in Nat /\ DOMAIN s = 1..n /\ Share(t, o) \in Nat /\ \A i \in 1..n : s[i] \in TradeRecord
    <2>1. n \in Nat /\ DOMAIN s = 1..n /\ \A i \in 1..n : s[i] \in TradeRecord
      OBVIOUS
    <2>2. Share(t, o) \in Nat
      BY DEF Share, TradeRecord
    <2>3. QED
      BY <2>1, <2>2
  <1>2. /\ DOMAIN Append(s, t) = 1..(n + 1) /\ Append(s, t)[n + 1] = t
        /\ \A i \in 1..n : Append(s, t)[i] = s[i]
    OBVIOUS
  <1>3. \A i \in 1..n : Share(s[i], o) \in Nat
    BY <1>1 DEF Share, TradeRecord
  <1>4. /\ \A i \in 1..n : w[i] = Share(s[i], o) /\ v[i] = w[i]
        /\ v[n + 1] = Share(t, o)
    <2>1. n + 1 \in 1..(n + 1) /\ \A i \in 1..n : i \in 1..(n + 1)
      BY <1>1
    <2>2. QED
      BY <1>1, <1>2, <2>1 DEF Shares
  <1>5. Traded(s, o) = SumFunctionOnSet(w, 1..n)
    BY <1>1 DEF Traded, Shares, Share
  <1>6. Traded(Append(s, t), o) = SumFunctionOnSet(v, 1..(n + 1))
    BY <1>2 DEF Traded, Shares, Share
  <1> HIDE DEF n, w, v
  <1>7. IntOn(w, 1..n) /\ NatOn(w, 1..n) /\ SameOn(v, w, 1..n) /\ IntOn(v, 1..(n + 1))
    <2>1. IntOn(w, 1..n) /\ NatOn(w, 1..n) /\ SameOn(v, w, 1..n)
      BY <1>3, <1>4 DEF IntOn, NatOn, SameOn
    <2>2. \A i \in 1..(n + 1) : i \in 1..n \/ i = n + 1
      BY <1>1
    <2>3. IntOn(v, 1..(n + 1))
      BY <1>1, <1>3, <1>4, <2>2 DEF IntOn
    <2>4. QED
      BY <2>1, <2>3
  <1>8. SumFunctionOnSet(v, 1..(n + 1)) = SumFunctionOnSet(w, 1..n) + v[n + 1]
    BY <1>1, <1>7, SumNext
  <1>9. SumFunctionOnSet(w, 1..n) \in Nat
    <2>1. IsFiniteSet(1..n)
      BY <1>1, FS_Interval
    <2>2. QED
      BY <1>7, <2>1, SumNat
  <1>10. QED
    BY <1>1, <1>4, <1>5, <1>6, <1>8, <1>9

\* An order that is in none of the trades was not filled by them.
LEMMA TradedNone ==
  ASSUME NEW s \in Seq(TradeRecord), NEW o, \A i \in DOMAIN s : o \notin {s[i].buy, s[i].sell}
  PROVE  Traded(s, o) = 0
  <1> DEFINE w == Shares(s, o)
  <1>1. DOMAIN s = 1..Len(s) /\ Len(s) \in Nat
    OBVIOUS
  <1>2. IsFiniteSet(DOMAIN s)
    BY <1>1, FS_Interval
  <1>3. \A i \in DOMAIN s : w[i] = 0
    BY DEF Shares, Share
  <1>4. Traded(s, o) = SumFunctionOnSet(w, DOMAIN s)
    BY DEF Traded, Shares, Share
  <1> HIDE DEF w
  <1>5. QED
    BY <1>2, <1>3, <1>4, SumZero

\* An event is of a buy and a sell of one pair that exist, and within both limits.
EventOf(t, ord, n) ==
  /\ t.buy \in 1..n /\ t.sell \in 1..n
  /\ ord[t.buy].side = "BUY" /\ ord[t.sell].side = "SELL" /\ ord[t.buy].pair = ord[t.sell].pair
  /\ ord[t.sell].price <= t.price /\ t.price <= ord[t.buy].price
EventsTold == \A i \in DOMAIN executed : EventOf(executed[i], orders, orderNonce)
FillsTold == \A o \in Placed : filled[o] = Traded(executed, o)
ToldIInv == EventsTold /\ FillsTold

\* FilledIsExecuted follows.
LEMMA ToldParts == ToldIInv => FilledIsExecuted
  BY DEF ToldIInv, EventsTold, EventOf, FillsTold, FilledIsExecuted

\* An event stays true while orders are added.
LEMMA EventKeeps ==
  ASSUME NEW t, NEW ord, NEW ord2, NEW n \in Nat, NEW n2 \in Nat, n <= n2, EventOf(t, ord, n),
         \A o \in 1..n : ord2[o] = ord[o]
  PROVE  EventOf(t, ord2, n2)
  <1>1. t.buy \in 1..n2 /\ t.sell \in 1..n2
    BY DEF EventOf
  <1>2. QED
    BY <1>1 DEF EventOf

\* A new order has not been filled.
LEMMA ToldCreate ==
  ASSUME Book, ToldIInv, NEW r \in Submission, NEW nonce \in Nat, CreateOrder(r, nonce),
         NEW n, n = orderNonce + 1
  PROVE  ToldIInv'
  <1>1. /\ orderNonce' = n /\ n \in Id /\ n \notin Placed /\ Placed' = Placed \cup {n}
        /\ \A o \in Placed : orders'[o] = orders[o]
        /\ UNCHANGED <<filled, executed>> /\ filled[n] = 0
    BY CreateFacts
  <1>2. executed \in Seq(TradeRecord) /\ orderNonce \in Nat /\ n \in Nat /\ orderNonce <= n
    <2>1. BookTypeOK
      BY DEF Book
    <2>2. orderNonce \in Nat
      BY <2>1, PlacedFacts
    <2>3. QED
      BY <2>1, <2>2 DEF BookTypeOK
  <1>3. EventsTold'
    <2>1. \A t : EventOf(t, orders, orderNonce) => EventOf(t, orders', orderNonce')
      BY <1>1, <1>2, EventKeeps DEF Placed
    <2>2. QED
      BY <1>1, <2>1 DEF ToldIInv, EventsTold
  <1>4. Traded(executed, n) = 0
    <2>1. \A i \in DOMAIN executed : n \notin {executed[i].buy, executed[i].sell}
      BY <1>1 DEF ToldIInv, EventsTold, EventOf, Placed
    <2>2. QED
      BY <1>2, <2>1, TradedNone
  <1>5. FillsTold'
    BY <1>1, <1>4 DEF ToldIInv, FillsTold
  <1>6. QED
    BY <1>3, <1>5 DEF ToldIInv

\* A trade of the heads fills both, by what its event says.
LEMMA ToldExecute ==
  ASSUME Book, ToldIInv, NEW ok \in BOOLEAN, Execute(ok), NEW b, b = Head(Bids),
         NEW a, a = Head(Asks)
  PROVE  ToldIInv'
  <1> DEFINE q == MatchQty(b, a)
             t == [buy |-> b, sell |-> a, price |-> orders[a].price, quantity |-> q, settled |-> ok]
  <1>1. /\ b \in Placed /\ a \in Placed /\ b # a /\ Crosses(b, a)
        /\ q \in Nat /\ q > 0
        /\ executed' = Append(executed, t)
        /\ UNCHANGED <<orderNonce, orders>>
    BY ExecuteFacts
  <1>2. \A o \in {a, b} : filled'[o] = filled[o] + q
    BY ExecuteFacts
  <1>3. \A o \in Id : o \notin {a, b} => filled'[o] = filled[o]
    BY ExecuteFacts
  <1>4. /\ orders[b].side = "BUY" /\ orders[a].side = "SELL"
        /\ orders[b].pair = matching /\ orders[a].pair = matching
    BY HeadFacts DEF Execute
  <1>5. BookTypeOK /\ executed \in Seq(TradeRecord)
    BY DEF Book, BookTypeOK
  <1>6. \A o \in Placed : o \in Id /\ filled[o] \in Nat /\ orders[o].price \in Nat
    BY <1>5, PlacedFacts
  <1>7. t \in TradeRecord
    BY <1>1, <1>6 DEF TradeRecord
  <1>8. EventOf(t, orders, orderNonce)
    BY <1>1, <1>4, <1>6 DEF EventOf, Crosses, Placed
  <1>9. /\ Share(t, b) = q /\ Share(t, a) = q /\ \A o : o \notin {a, b} => Share(t, o) = 0
    BY DEF Share
  <1> HIDE DEF q, t
  <1>10. EventsTold'
    <2>1. \A i \in DOMAIN executed' : executed'[i] = t \/ \E j \in DOMAIN executed : executed'[i] = executed[j]
      BY <1>1, <1>5, <1>7
    <2>2. QED
      BY <1>1, <1>8, <2>1 DEF ToldIInv, EventsTold
  <1>11. FillsTold'
    <2> SUFFICES ASSUME NEW o \in Placed PROVE filled'[o] = Traded(executed', o)
      BY <1>1 DEF FillsTold, Placed
    <2>1. Traded(executed', o) = Traded(executed, o) + Share(t, o)
      BY <1>1, <1>5, <1>7, TradedMore
    <2>2. filled[o] = Traded(executed, o)
      BY DEF ToldIInv, FillsTold
    <2>3. filled'[o] = filled[o] + Share(t, o)
      BY <1>1, <1>2, <1>3, <1>6, <1>9
    <2>4. QED
      BY <2>1, <2>2, <2>3
  <1>12. QED
    BY <1>10, <1>11 DEF ToldIInv

\* Every step keeps the events and the fills together.
LEMMA StepTold == BookInv /\ ToldIInv /\ [ContractNext]_contractVars => ToldIInv'
  <1> SUFFICES ASSUME BookInv, ToldIInv, [ContractNext]_contractVars PROVE ToldIInv'
    OBVIOUS
  <1>1. Book
    BY BookInvParts
  <1>2. ASSUME UNCHANGED <<orderNonce, orders, filled, executed>> PROVE ToldIInv'
    BY <1>2 DEF ToldIInv, EventsTold, FillsTold, Placed
  <1>3. CASE TurnOfLoop \/ OwnerCall \/ NewBlock \/ UNCHANGED contractVars
    <2>1. UNCHANGED <<orderNonce, orders, filled, executed>>
      BY <1>3 DEF TurnOfLoop, PruneBid, PruneAsk, EndMatch, OwnerCall, SetSettlement,
         SetMinCommitBlocks, PauseBook, UnpauseBook, NewBlock, bookVars, contractVars
    <2>2. QED
      BY <1>2, <2>1
  <1>4. CASE SettleAttempt
    BY <1>1, <1>4, ToldExecute DEF SettleAttempt
  <1>5. CASE TraderCall
    <2>1. ASSUME NEW r \in Submission, NEW nonce \in Nat, CreateOrder(r, nonce) PROVE ToldIInv'
      <3>1. \E n : n = orderNonce + 1
        OBVIOUS
      <3>2. QED
        BY <1>1, <2>1, <3>1, ToldCreate
    <2>2. ASSUME NEW p \in Pairs, MatchOrder(p) PROVE ToldIInv'
      BY <1>2, <2>2 DEF MatchOrder
    <2>3. QED
      BY <1>2, <1>5, <2>1, <2>2, CallKinds
  <1>6. QED
    BY <1>3, <1>4, <1>5 DEF ContractNext

\* The TradeExecuted events of an order add up to what it was filled, and each is between a
\* buy and a sell of one pair, within the limits of both (_tryMatch).
THEOREM EventsAreFills == ContractSpec => []FilledIsExecuted
  <1>1. ContractInit => ToldIInv
    BY DEF ContractInit, ToldIInv, EventsTold, FillsTold, Placed
  <1>2. QED
    BY <1>1, BookIsKept, StepTold, ToldParts, PTL DEF ContractSpec

-----------------------------------------------------------------------------
(***************************************************************************)
(* The subgraph that follows the events.                                   *)
(***************************************************************************)
\* What an entity of a day says of the trades at the indices T, of those in ex.
SummaryOf(ex, T) ==
  [volume |-> SumFunctionOnSet([i \in T |-> ex[i].price * ex[i].quantity], T),
   tradeCount |-> Cardinality(T),
   high |-> Max({ex[i].price : i \in T}), low |-> Min({ex[i].price : i \in T}),
   open |-> ex[Min(T)].price, close |-> ex[Max(T)].price]

\* It is said of these trades alone.
LEMMA SummarySame ==
  ASSUME NEW ex, NEW ex2, NEW T, IsFiniteSet(T), T \subseteq Int, T # {},
         \A i \in T : ex2[i] = ex[i]
  PROVE  SummaryOf(ex2, T) = SummaryOf(ex, T)
  <1>1. Min(T) \in T /\ Max(T) \in T
    BY MaxMin
  <1>2. ex2[Min(T)] = ex[Min(T)] /\ ex2[Max(T)] = ex[Max(T)]
    BY <1>1
  <1>3. {ex2[i].price : i \in T} = {ex[i].price : i \in T}
    OBVIOUS
  <1>4. [i \in T |-> ex2[i].price * ex2[i].quantity] = [i \in T |-> ex[i].price * ex[i].quantity]
    OBVIOUS
  <1>5. QED
    BY <1>2, <1>3, <1>4 DEF SummaryOf

\* The value of a trade more.
LEMMA ValueMore ==
  ASSUME NEW ex, NEW T, IsFiniteSet(T), NEW x, x \notin T,
         \A i \in T \cup {x} : ex[i].price \in Int /\ ex[i].quantity \in Int
  PROVE  /\ SummaryOf(ex, T).volume \in Int
         /\ SummaryOf(ex, T \cup {x}).volume
              = SummaryOf(ex, T).volume + ex[x].price * ex[x].quantity
         /\ T = {} => SummaryOf(ex, T).volume = 0
  <1> DEFINE U == T \cup {x}
             v == [i \in T |-> ex[i].price * ex[i].quantity]
             w == [i \in U |-> ex[i].price * ex[i].quantity]
  <1>1. \A i \in U : ex[i].price * ex[i].quantity \in Int
    OBVIOUS
  <1>2. IntOn(v, T) /\ IntOn(w, U) /\ IntOn(w, T) /\ SameOn(w, v, T)
    BY <1>1 DEF IntOn, SameOn
  <1>3. w[x] = ex[x].price * ex[x].quantity /\ w[x] \in Int
    BY <1>1
  <1>4. SummaryOf(ex, T).volume = SumFunctionOnSet(v, T)
        /\ SummaryOf(ex, U).volume = SumFunctionOnSet(w, U)
    BY DEF SummaryOf
  <1> HIDE DEF v, w
  <1>5. SumFunctionOnSet(w, T \cup {x}) = w[x] + SumFunctionOnSet(w, T)
    BY <1>2, SumAdd
  <1>6. SumFunctionOnSet(w, T) = SumFunctionOnSet(v, T)
    BY <1>2, SumSame
  <1>7. SumFunctionOnSet(v, T) \in Int
    BY <1>2, SumInt
  <1>8. T = {} => SumFunctionOnSet(v, T) = 0
    BY SumEmpty
  <1>9. QED
    BY <1>3, <1>4, <1>5, <1>6, <1>7, <1>8

\* A trade more, after the others, widens the day (handleTradeExecuted).
LEMMA SummaryMore ==
  ASSUME NEW ex, NEW T, IsFiniteSet(T), T \subseteq Int, NEW x \in Int, \A i \in T : i < x,
         \A i \in T \cup {x} : ex[i].price \in Int /\ ex[i].quantity \in Int
  PROVE  SummaryOf(ex, T \cup {x}) =
           Widen(IF T = {} THEN FirstOfDay(ex[x].price) ELSE SummaryOf(ex, T),
                 ex[x].price, ex[x].quantity)
  <1> DEFINE U == T \cup {x}
             p == ex[x].price
             q == ex[x].quantity
             P == {ex[i].price : i \in T}
             R == {ex[i].price : i \in U}
             s == SummaryOf(ex, T)
             r == SummaryOf(ex, U)
             d == IF T = {} THEN FirstOfDay(p) ELSE s
  <1>1. x \notin T /\ p \in Int /\ q \in Int
    OBVIOUS
  <1>2. s.volume \in Int /\ r.volume = s.volume + p * q /\ (T = {} => s.volume = 0)
    BY <1>1, ValueMore
  <1>3. IsFiniteSet(U) /\ Cardinality(U) = Cardinality(T) + 1 /\ Cardinality(T) \in Nat
        /\ (T = {} => Cardinality(T) = 0)
    BY <1>1, FS_AddElement, FS_CardinalityType, FS_EmptySet
  <1>4. IsFiniteSet(P) /\ P \subseteq Int /\ R = P \cup {p} /\ (T = {} <=> P = {})
    <2>1. [i \in T |-> ex[i].price] \in Surjection(T, P)
      BY DEF Surjection
    <2>2. IsFiniteSet(P)
      <3> HIDE DEF P
      <3>1. QED
        BY <2>1, FS_Surjection
    <2>3. P \subseteq Int /\ R = P \cup {p} /\ (T = {} <=> P = {})
      OBVIOUS
    <2>4. QED
      BY <2>2, <2>3
  <1>5. /\ T = {} => Max(P \cup {p}) = p /\ Min(P \cup {p}) = p
        /\ T # {} => Max(P \cup {p}) = Max({Max(P), p}) /\ Min(P \cup {p}) = Min({Min(P), p})
    <2> HIDE DEF P, p
    <2>1. QED
      BY <1>1, <1>4, ExtremesGrow
  <1>6. /\ Max(U) = x /\ (T = {} => Min(U) = x) /\ (T # {} => Min(U) = Min(T))
    BY ExtremesGrow
  <1>7. Max({p, p}) = p /\ Min({p, p}) = p
    <2>1. IsFiniteSet({}) /\ {} \subseteq Int /\ {} \cup {p} = {p, p}
      BY FS_EmptySet
    <2>2. Max({} \cup {p}) = p /\ Min({} \cup {p}) = p
      <3> HIDE DEF p
      <3>1. QED
        BY <1>1, <2>1, ExtremesGrow
    <2>3. QED
      BY <2>1, <2>2
  <1>8. r = [volume |-> r.volume, tradeCount |-> Cardinality(U), high |-> Max(R), low |-> Min(R),
             open |-> ex[Min(U)].price, close |-> ex[Max(U)].price]
    BY DEF SummaryOf
  <1>9. CASE T = {}
    <2>1. d.volume = 0 /\ d.tradeCount = 0 /\ d.high = p /\ d.low = p /\ d.open = p
      BY <1>9 DEF FirstOfDay
    <2>2. /\ r.volume = d.volume + p * q /\ Cardinality(U) = d.tradeCount + 1
          /\ Max(R) = Max({d.high, p}) /\ Min(R) = Min({d.low, p})
          /\ ex[Min(U)].price = d.open /\ ex[Max(U)].price = p
      <3>1. ex[Min(U)].price = p /\ ex[Max(U)].price = p
        BY <1>6, <1>9
      <3> HIDE DEF d, r, s, R, P, p, q, U
      <3>2. QED
        BY <1>2, <1>3, <1>4, <1>5, <1>7, <1>9, <2>1, <3>1
    <2> HIDE DEF d, r, R, U, p, q
    <2>3. QED
      BY <1>8, <2>2 DEF Widen, d, r, U, p, q
  <1>10. CASE T # {}
    <2>1. /\ d.volume = s.volume /\ d.tradeCount = Cardinality(T) /\ d.high = Max(P)
          /\ d.low = Min(P) /\ d.open = ex[Min(T)].price
      BY <1>10 DEF SummaryOf
    <2>2. /\ r.volume = d.volume + p * q /\ Cardinality(U) = d.tradeCount + 1
          /\ Max(R) = Max({d.high, p}) /\ Min(R) = Min({d.low, p})
          /\ ex[Min(U)].price = d.open /\ ex[Max(U)].price = p
      <3>1. ex[Min(U)].price = ex[Min(T)].price /\ ex[Max(U)].price = p
        BY <1>6, <1>10
      <3> HIDE DEF d, r, s, R, P, p, q, U
      <3>2. QED
        BY <1>2, <1>3, <1>4, <1>5, <1>10, <2>1, <3>1
    <2> HIDE DEF d, r, R, U, p, q
    <2>3. QED
      BY <1>8, <2>2 DEF Widen, d, r, U, p, q
  <1>11. QED
    BY <1>9, <1>10

\* What a step is, as far as the subgraph can tell: an order is created, the heads trade,
\* one order is cancelled, or nothing.
LEMMA StepKinds ==
  ASSUME BookInv, [ContractNext]_contractVars
  PROVE  \/ \E r \in Submission, nonce \in Nat : CreateOrder(r, nonce)
         \/ \E ok \in BOOLEAN : Execute(ok)
         \/ /\ UNCHANGED <<orderNonce, orders, filled, executed>>
            /\ \/ status' = status
               \/ \E o \in Placed : Cancellable(o) /\ status' = [status EXCEPT ![o] = "CANCELLED"]
  <1>1. CASE TurnOfLoop \/ OwnerCall \/ NewBlock \/ UNCHANGED contractVars
    BY <1>1 DEF TurnOfLoop, PruneBid, PruneAsk, EndMatch, OwnerCall, SetSettlement,
         SetMinCommitBlocks, PauseBook, UnpauseBook, NewBlock, bookVars, contractVars
  <1>2. CASE SettleAttempt
    BY <1>2 DEF SettleAttempt
  <1>3. CASE TraderCall
    <2>1. nonces \in [Traders -> Nat]
      BY BookInvParts DEF AccountsTypeOK
    <2>2. /\ Submissions \subseteq Submission /\ SignedOrders \subseteq Submission
          /\ HiddenOrders \subseteq Submission
          /\ \A r \in Submission : r.trader \in Traders
      BY ContractAssumption DEF Submission
    <2>3. \A r \in Submission : nonces[r.trader] \in Nat /\ nonces[r.trader] + 1 \in Nat
      BY <2>1, <2>2
    <2>4. CASE \/ \E r \in Submissions : PlaceOrder(r)
               \/ \E r \in HiddenOrders : RevealOrder(r)
               \/ \E r \in SignedOrders : PlaceOrderBySig(r)
      BY <2>2, <2>3, <2>4 DEF PlaceOrder, RevealOrder, PlaceOrderBySig
    <2>5. CASE \/ \E r \in HiddenOrders : CommitOrder(r)
               \/ \E r \in SignedOrders : SignPlacement(r)
               \/ \E o \in Id, d \in Deadlines : SignCancellation(o, d)
               \/ \E p \in Pairs : MatchOrder(p)
      BY <2>5 DEF CommitOrder, SignPlacement, SignCancellation, Sign, MatchOrder, bookVars
    <2>6. CASE \/ \E o \in Id, d \in Deadlines : CancelOrderBySig(o, d)
               \/ \E o \in Id : CancelOrder(o)
      BY <2>6 DEF CancelOrderBySig, CancelOrder
    <2>7. QED
      BY <1>3, <2>4, <2>5, <2>6 DEF TraderCall
  <1>4. QED
    BY <1>1, <1>2, <1>3 DEF ContractNext

\* A trade of the past keeps its day and its time while orders are added.
LEMMA ToldOfTrade ==
  ASSUME Book, ToldIInv, orderNonce' \in Nat, orderNonce <= orderNonce',
         \A o \in Placed : orders'[o] = orders[o], NEW i \in DOMAIN executed
  PROVE  LET t == executed[i]
         IN /\ Max({t.buy, t.sell}) \in Placed
            /\ orders'[t.buy] = orders[t.buy]
            /\ orders'[Max({t.buy, t.sell})] = orders[Max({t.buy, t.sell})]
  <1> DEFINE b == executed[i].buy
             a == executed[i].sell
             P == {b, a}
  <1>1. b \in Placed /\ a \in Placed
    BY DEF ToldIInv, EventsTold, EventOf, Placed
  <1>2. IsFiniteSet(P)
    <2>1. IsFiniteSet({b})
      BY FS_Singleton
    <2>2. IsFiniteSet({b} \cup {a}) /\ {b} \cup {a} = P
      BY <2>1, FS_AddElement
    <2>3. QED
      BY <2>2
  <1>3. P \subseteq Int /\ P # {}
    BY <1>1 DEF Placed
  <1>4. Max(P) \in P
    <2> HIDE DEF P
    <2>1. QED
      BY <1>2, <1>3, MaxMin
  <1>5. QED
    BY <1>1, <1>4

\* The trade and daily entities are right when neither the trades nor their entities change,
\* and the orders of the trades do not either.
LEMMA TradesStillTold ==
  ASSUME Book, ToldIInv, IndexAgrees, orderNonce' \in Nat, orderNonce <= orderNonce',
         \A o \in Placed : orders'[o] = orders[o],
         UNCHANGED <<executed, tradeEntities, dailyVolume>>
  PROVE  /\ tradeEntities' = [i \in DOMAIN executed' |-> TradeTold(executed[i])']
         /\ dailyVolume' = [d \in {DayOf(executed[i])' : i \in DOMAIN executed'} |-> DayTold(TradesOf(d))']
  <1>1. ASSUME NEW i \in DOMAIN executed
        PROVE  /\ TradeTold(executed[i])' = TradeTold(executed[i])
               /\ DayOf(executed[i])' = DayOf(executed[i])
    <2>1. /\ orders'[executed[i].buy] = orders[executed[i].buy]
          /\ orders'[Max({executed[i].buy, executed[i].sell})]
               = orders[Max({executed[i].buy, executed[i].sell})]
      BY ToldOfTrade
    <2>2. QED
      BY <2>1 DEF TradeTold, DayOf, TradedAt
  <1>2. tradeEntities' = [i \in DOMAIN executed' |-> TradeTold(executed[i])']
    BY <1>1 DEF IndexAgrees
  <1>3. \A d : TradesOf(d)' = TradesOf(d)
    BY <1>1 DEF TradesOf
  <1>4. \A d : DayTold(TradesOf(d))' = DayTold(TradesOf(d))
    BY <1>3 DEF DayTold
  <1>5. {DayOf(executed[i])' : i \in DOMAIN executed'} = {DayOf(executed[i]) : i \in DOMAIN executed}
    BY <1>1
  <1>6. dailyVolume' = [d \in {DayOf(executed[i])' : i \in DOMAIN executed'} |-> DayTold(TradesOf(d))']
    BY <1>4, <1>5 DEF IndexAgrees
  <1>7. QED
    BY <1>2, <1>6

\* An order that is placed is an entity of its own (handleOrderPlaced).
LEMMA IndexPlaced ==
  ASSUME Book, ToldIInv, IndexAgrees, HandleEvent,
         NEW r \in Submission, NEW nonce \in Nat, CreateOrder(r, nonce),
         NEW n, n = orderNonce + 1
  PROVE  IndexAgrees'
  <1>1. /\ orderNonce' = n /\ n \in Id /\ n \notin Placed /\ Placed' = Placed \cup {n}
        /\ orders'[n] = OrderOf(r, nonce) /\ \A o \in Placed : orders'[o] = orders[o]
        /\ status[n] = "OPEN" /\ filled[n] = 0
        /\ UNCHANGED <<filled, status, executed>>
    BY CreateFacts
  <1>2. orderNonce \in Nat /\ n \in Nat /\ orderNonce' > orderNonce /\ orderNonce <= orderNonce'
    <2>1. BookTypeOK
      BY DEF Book
    <2>2. orderNonce \in Nat
      BY <2>1, PlacedFacts
    <2>3. QED
      BY <1>1, <2>2
  <1> DEFINE new == orders'[n]
             e == [trader |-> new.trader, pair |-> new.pair, side |-> new.side,
                   price |-> new.price, quantity |-> new.quantity, filled |-> 0,
                   status |-> "open"]
  <1>3. HandleOrderPlaced(n, new.trader, new.pair, new.side, new.price, new.quantity)
    BY <1>1, <1>2 DEF HandleEvent
  <1>4. /\ orderEntity' = [k \in DOMAIN orderEntity \cup {n} |-> IF k = n THEN e ELSE orderEntity[k]]
        /\ UNCHANGED <<tradeEntities, dailyVolume>>
    BY <1>3 DEF HandleOrderPlaced, Saved
  <1>5. DOMAIN orderEntity = Placed /\ \A o \in Placed : orderEntity[o] = OrderTold(o)
    BY DEF IndexAgrees
  <1>6. OrderTold(n)' = e
    <2>1. filled'[n] = 0 /\ StatusName[status'[n]] = "open"
      BY <1>1 DEF StatusName
    <2>2. QED
      BY <2>1 DEF OrderTold
  <1>7. \A o \in Placed : OrderTold(o)' = OrderTold(o)
    BY <1>1 DEF OrderTold
  <1> HIDE DEF e
  <1>8. orderEntity' = [o \in Placed' |-> OrderTold(o)']
    BY <1>1, <1>4, <1>5, <1>6, <1>7
  <1>9. /\ tradeEntities' = [i \in DOMAIN executed' |-> TradeTold(executed[i])']
        /\ dailyVolume' = [d \in {DayOf(executed[i])' : i \in DOMAIN executed'} |-> DayTold(TradesOf(d))']
    BY <1>1, <1>2, <1>4, TradesStillTold
  <1>10. QED
    BY <1>8, <1>9 DEF IndexAgrees

\* A cancelled order keeps its fills (handleOrderCancelled); nothing happens without an event.
LEMMA IndexCancelled ==
  ASSUME Book, ToldIInv, IndexAgrees, HandleEvent, UNCHANGED <<orderNonce, orders, filled, executed>>,
         \/ status' = status
         \/ \E o \in Placed : Cancellable(o) /\ status' = [status EXCEPT ![o] = "CANCELLED"]
  PROVE  IndexAgrees'
  <1>1. BookTypeOK /\ orderNonce \in Nat /\ status \in [Id -> OrderStatus]
    <2>1. BookTypeOK
      BY DEF Book
    <2>2. QED
      BY <2>1, PlacedFacts DEF BookTypeOK
  <1>2. ~(orderNonce' > orderNonce) /\ ~IsTrade /\ Placed' = Placed
    BY <1>1 DEF IsTrade, Placed
  <1>3. DOMAIN orderEntity = Placed /\ \A o \in Placed : orderEntity[o] = OrderTold(o)
    BY DEF IndexAgrees
  <1>4. UNCHANGED <<tradeEntities, dailyVolume>> /\ orderEntity' = [o \in Placed |-> OrderTold(o)']
    <2>1. CASE status' = status
      <3>1. UNCHANGED indexVars
        BY <1>2, <2>1 DEF HandleEvent, Cancelled
      <3>2. \A o \in Placed : OrderTold(o)' = OrderTold(o)
        BY <2>1 DEF OrderTold
      <3>3. QED
        BY <3>1, <3>2 DEF IndexAgrees, indexVars
    <2>2. ASSUME NEW o \in Placed, Cancellable(o), status' = [status EXCEPT ![o] = "CANCELLED"]
          PROVE  UNCHANGED <<tradeEntities, dailyVolume>> /\ orderEntity' = [x \in Placed |-> OrderTold(x)']
      <3>1. o \in Id /\ \A x \in Placed : x \in Id
        BY <1>1, PlacedFacts
      <3>2. status'[o] = "CANCELLED" /\ \A x \in Id : x # o => status'[x] = status[x]
        BY <1>1, <2>2, <3>1
      <3>3. Cancelled(o) /\ \A x \in Placed : Cancelled(x) => x = o
        BY <2>2, <3>1, <3>2 DEF Cancelled, Cancellable
      <3>4. (CHOOSE x \in Placed : Cancelled(x)) = o
        BY <3>3
      <3>5. HandleOrderCancelled(o)
        BY <1>2, <3>3, <3>4 DEF HandleEvent
      <3>6. /\ orderEntity' = [x \in Placed |-> IF x = o
                 THEN Updated(orderEntity[x], orderEntity[x].filled, "cancelled") ELSE orderEntity[x]]
            /\ UNCHANGED <<tradeEntities, dailyVolume>>
        BY <1>3, <3>5 DEF HandleOrderCancelled
      <3>7. \A x \in Placed : x # o => OrderTold(x)' = OrderTold(x)
        BY <3>1, <3>2 DEF OrderTold
      <3>8. OrderTold(o)' = Updated(OrderTold(o), OrderTold(o).filled, "cancelled")
        <4>1. StatusName[status'[o]] = "cancelled"
          BY <3>2 DEF StatusName
        <4>2. QED
          BY <4>1 DEF OrderTold, Updated
      <3>9. QED
        BY <1>3, <3>6, <3>7, <3>8
    <2>3. QED
      BY <2>1, <2>2
  <1>5. /\ tradeEntities' = [i \in DOMAIN executed' |-> TradeTold(executed[i])']
        /\ dailyVolume' = [d \in {DayOf(executed[i])' : i \in DOMAIN executed'} |-> DayTold(TradesOf(d))']
    BY <1>1, <1>4, TradesStillTold
  <1>6. QED
    BY <1>2, <1>4, <1>5 DEF IndexAgrees

\* When trade t is appended, what is said of other trades stays, and that of its day is widened.
DayTaken(ex, ex2, T, t, n) ==
  /\ T # {} => SummaryOf(ex2, T) = SummaryOf(ex, T)
  /\ SummaryOf(ex2, T \cup {n}) =
       Widen(IF T = {} THEN FirstOfDay(t.price) ELSE SummaryOf(ex, T), t.price, t.quantity)

\* What the entities of the days should say when a trade is appended.
LEMMA SummaryNext ==
  ASSUME NEW ex \in Seq(TradeRecord), NEW t \in TradeRecord, NEW T \in SUBSET DOMAIN ex,
         NEW ex2, ex2 = Append(ex, t), NEW n, n = Len(ex) + 1
  PROVE  DayTaken(ex, ex2, T, t, n)
  <1>1. /\ Len(ex) \in Nat /\ DOMAIN ex = 1..Len(ex) /\ n \in Nat
        /\ ex2[n] = t /\ \A i \in DOMAIN ex : ex2[i] = ex[i] /\ ex[i] \in TradeRecord
    OBVIOUS
  <1>2. T \subseteq Int /\ \A i \in T : i < n
    BY <1>1
  <1>3. IsFiniteSet(T)
    <2>1. DOMAIN ex = 1..Len(ex) /\ Len(ex) \in Nat
      BY <1>1
    <2>2. IsFiniteSet(DOMAIN ex)
      BY <2>1, FS_Interval
    <2>3. QED
      BY <2>2, FS_Subset
  <1>4. \A i \in T \cup {n} : ex2[i].price \in Int /\ ex2[i].quantity \in Int
    <2>1. \A i \in T \cup {n} : ex2[i] \in TradeRecord
      BY <1>1
    <2>2. QED
      BY <2>1 DEF TradeRecord
  <1>5. \A i \in T : ex2[i] = ex[i]
    BY <1>1
  <1>6. T # {} => SummaryOf(ex2, T) = SummaryOf(ex, T)
    BY <1>2, <1>3, <1>5, SummarySame
  <1>7. SummaryOf(ex2, T \cup {n}) =
          Widen(IF T = {} THEN FirstOfDay(ex2[n].price) ELSE SummaryOf(ex2, T), ex2[n].price,
                ex2[n].quantity)
    <2>1. n \in Int
      BY <1>1
    <2>2. QED
      BY <1>2, <1>3, <1>4, <2>1, SummaryMore
  <1>8. QED
    BY <1>1, <1>6, <1>7 DEF DayTaken

\* A trade is dated by the order that has just arrived, the younger of the two.
LEMMA TradeIsDated ==
  ASSUME Book, NEW ok \in BOOLEAN, Execute(ok), NEW b, b = Head(Bids), NEW a, a = Head(Asks)
  PROVE  /\ Max({b, a}) \in Placed /\ orders[Max({b, a})].timestamp = now
         /\ orders[b].pair = matching
  <1>1. /\ b \in Placed /\ a \in Placed /\ matching \in Pairs
        /\ b = queue[matching]["BUY"][1] /\ a = queue[matching]["SELL"][1]
        /\ 1 \in DOMAIN queue[matching]["BUY"] /\ 1 \in DOMAIN queue[matching]["SELL"]
        /\ Crosses(b, a)
    BY ExecuteFacts
  <1>2. orderNonce \in {b, a} /\ orders[orderNonce].timestamp = now
    <2>1. orders[b].price >= orders[a].price
      BY <1>1 DEF Crosses
    <2>2. QED
      BY <1>1, <2>1 DEF Book, OnlyArrivalCrosses
  <1>3. orderNonce \in Nat /\ b \in Nat /\ a \in Nat /\ b <= orderNonce /\ a <= orderNonce
    <2>1. BookTypeOK
      BY DEF Book
    <2>2. QED
      BY <1>1, <2>1, PlacedFacts
  <1> DEFINE P == {b, a}
             m == Max(P)
  <1>4. m \in P /\ m \in Int /\ \A y \in P : y <= m
    <2>1. IsFiniteSet({b})
      BY FS_Singleton
    <2>2. IsFiniteSet({b} \cup {a}) /\ {b} \cup {a} = P
      BY <2>1, FS_AddElement
    <2>3. IsFiniteSet(P) /\ P \subseteq Int /\ P # {}
      BY <1>3, <2>2
    <2> HIDE DEF P
    <2>4. QED
      BY <2>3, MaxMin
  <1>5. m = orderNonce
    <2>1. m <= orderNonce /\ orderNonce <= m
      <3> HIDE DEF m
      <3>1. QED
        BY <1>2, <1>3, <1>4
    <2>2. QED
      BY <1>3, <1>4, <2>1
  <1>6. orders[b].pair = matching
    BY HeadFacts DEF Execute
  <1>7. QED
    BY <1>1, <1>2, <1>5, <1>6

\* The orders of a trade take its quantity (handleTradeExecuted).
LEMMA OrdersTraded ==
  ASSUME Book, IndexAgrees, NEW ok \in BOOLEAN, Execute(ok), NEW b, b = Head(Bids),
         NEW a, a = Head(Asks), NEW q, q = MatchQty(b, a),
         orderEntity' = [o \in DOMAIN orderEntity |->
            IF o \in {b, a} THEN Matched(orderEntity[o], q) ELSE orderEntity[o]]
  PROVE  orderEntity' = [o \in Placed' |-> OrderTold(o)']
  <1>1. /\ b \in Placed /\ a \in Placed /\ UNCHANGED <<orderNonce, orders>>
    BY ExecuteFacts
  <1>2. /\ \A o \in {a, b} :
             /\ filled'[o] = filled[o] + q /\ filled'[o] <= orders[o].quantity
             /\ status'[o] = IF filled'[o] = orders[o].quantity THEN "FILLED"
                                                               ELSE "PARTIALLY_FILLED"
        /\ \A o \in Id : o \notin {a, b} => filled'[o] = filled[o] /\ status'[o] = status[o]
        /\ filled' \in [Id -> Nat]
    <2>1. /\ \A o \in {a, b} : filled'[o] = filled[o] + q
          /\ \A o \in {a, b} : filled'[o] <= orders[o].quantity
          /\ \A o \in {a, b} : status'[o] = IF filled'[o] = orders[o].quantity
                                            THEN "FILLED" ELSE "PARTIALLY_FILLED"
      <3>1. \A o \in {a, b} : filled'[o] = filled[o] + q
        BY ExecuteFacts
      <3>2. \A o \in {a, b} : filled'[o] <= orders[o].quantity
        BY ExecuteFacts
      <3>3. \A o \in {a, b} : status'[o] = IF filled'[o] = orders[o].quantity
                                           THEN "FILLED" ELSE "PARTIALLY_FILLED"
        BY ExecuteFacts
      <3>4. QED
        BY <3>1, <3>2, <3>3
    <2>2. /\ \A o \in Id : o \notin {a, b} => filled'[o] = filled[o] /\ status'[o] = status[o]
          /\ filled' \in [Id -> Nat]
      BY ExecuteFacts
    <2>3. QED
      BY <2>1, <2>2
  <1>3. \A o \in Placed : o \in Id /\ orders[o].quantity \in Nat
    <2>1. BookTypeOK
      BY DEF Book
    <2>2. QED
      BY <2>1, PlacedFacts
  <1>4. DOMAIN orderEntity = Placed /\ \A o \in Placed : orderEntity[o] = OrderTold(o)
    BY DEF IndexAgrees
  <1>5. ASSUME NEW o \in Placed, o \in {a, b}
        PROVE  OrderTold(o)' = Matched(OrderTold(o), q)
    <2>1. /\ OrderTold(o).filled = filled[o] /\ OrderTold(o).quantity = orders[o].quantity
      BY DEF OrderTold
    <2>2. filled'[o] \in Nat /\ orders[o].quantity \in Nat
      BY <1>2, <1>3
    <2>3. StatusName[status'[o]]
            = IF OrderTold(o).filled + q >= OrderTold(o).quantity THEN "filled" ELSE "partial"
      BY <1>2, <1>5, <2>1, <2>2 DEF StatusName
    <2>4. OrderTold(o)' = Updated(OrderTold(o), filled'[o], StatusName[status'[o]])
      BY <1>1 DEF OrderTold, Updated
    <2>5. QED
      BY <1>2, <1>5, <2>1, <2>3, <2>4 DEF Matched
  <1>6. ASSUME NEW o \in Placed, o \notin {a, b} PROVE OrderTold(o)' = OrderTold(o)
    BY <1>1, <1>2, <1>3, <1>6 DEF OrderTold
  <1>7. Placed' = Placed
    BY <1>1 DEF Placed
  <1>8. QED
    BY <1>4, <1>5, <1>6, <1>7

\* The trade is added to the trades, and to its pair and day (handleTradeExecuted).
LEMMA IndexTraded ==
  ASSUME Book, ToldIInv, IndexAgrees, HandleEvent, NEW ok \in BOOLEAN, Execute(ok),
         NEW b, b = Head(Bids), NEW a, a = Head(Asks), NEW n, n = Len(executed) + 1
  PROVE  IndexAgrees'
  <1> DEFINE q == MatchQty(b, a)
             t == [buy |-> b, sell |-> a, price |-> orders[a].price, quantity |-> q, settled |-> ok]
             m == Max({b, a})
             key == <<matching, now \div DayLength>>
  <1>1. /\ b \in Placed /\ a \in Placed /\ q \in Nat /\ q > 0
        /\ executed' = Append(executed, t)
        /\ UNCHANGED <<orderNonce, orders, now>>
    BY ExecuteFacts
  <1>2. m \in Placed /\ orders[m].timestamp = now /\ orders[b].pair = matching
    BY TradeIsDated
  <1>3. BookTypeOK /\ executed \in Seq(TradeRecord) /\ orderNonce \in Nat
    <2>1. BookTypeOK
      BY DEF Book
    <2>2. QED
      BY <2>1, PlacedFacts DEF BookTypeOK
  <1>4. t \in TradeRecord
    BY <1>1, <1>3, PlacedFacts DEF TradeRecord
  <1>5. t.buy = b /\ t.sell = a /\ t.price = orders[a].price /\ t.quantity = q
    OBVIOUS
  <1> HIDE DEF t, q, m, key
  <1>6. /\ DOMAIN executed = 1..Len(executed) /\ n \in Nat /\ n \notin DOMAIN executed
        /\ DOMAIN executed' = DOMAIN executed \cup {n} /\ Len(executed') = n
        /\ executed'[n] = t /\ \A i \in DOMAIN executed : executed'[i] = executed[i]
        /\ IsTrade /\ LastTrade = t
    <2>1. Len(executed) \in Nat /\ DOMAIN executed = 1..Len(executed)
      BY <1>3
    <2>2. Len(executed') = Len(executed) + 1 /\ DOMAIN executed' = 1..(Len(executed) + 1)
          /\ executed'[Len(executed) + 1] = t
          /\ \A i \in 1..Len(executed) : executed'[i] = executed[i]
      BY <1>1, <1>3, <1>4
    <2>3. IsTrade /\ LastTrade = t
      BY <2>1, <2>2 DEF IsTrade, LastTrade
    <2>4. QED
      BY <2>1, <2>2, <2>3
  <1>7. HandleTradeExecuted(b, a, t.price, q, now)
    <2>1. ~(orderNonce' > orderNonce)
      BY <1>1, <1>3
    <2>2. QED
      BY <1>5, <1>6, <2>1 DEF HandleEvent
  <1>8. DOMAIN orderEntity = Placed /\ orderEntity[b].pair = matching
    BY <1>1, <1>2 DEF IndexAgrees, OrderTold
  <1>9. /\ tradeEntities' = Append(tradeEntities,
             [buy |-> b, sell |-> a, price |-> t.price, quantity |-> q, timestamp |-> now])
        /\ orderEntity' = [o \in DOMAIN orderEntity |->
             IF o \in {b, a} THEN Matched(orderEntity[o], q) ELSE orderEntity[o]]
        /\ dailyVolume' = Saved(dailyVolume, key,
             Widen(IF key \in DOMAIN dailyVolume THEN dailyVolume[key] ELSE FirstOfDay(t.price),
                   t.price, q))
    BY <1>1, <1>7, <1>8 DEF HandleTradeExecuted, dayKey, key
  <1>10. orderEntity' = [o \in Placed' |-> OrderTold(o)']
    BY <1>9, OrdersTraded DEF q
  <1>11. ASSUME NEW i \in DOMAIN executed
         PROVE  /\ TradeTold(executed[i])' = TradeTold(executed[i])
                /\ DayOf(executed[i])' = DayOf(executed[i])
    BY <1>1, <1>6 DEF TradeTold, DayOf, TradedAt
  <1>12. ASSUME NEW i \in DOMAIN executed', i = n
         PROVE  /\ TradeTold(executed[i])'
                     = [buy |-> b, sell |-> a, price |-> t.price, quantity |-> q, timestamp |-> now]
                /\ DayOf(executed[i])' = key
    <2>1. executed'[i] = t /\ orders' = orders
      BY <1>1, <1>6, <1>12
    <2>2. orders'[Max({t.buy, t.sell})].timestamp = now /\ orders'[t.buy].pair = matching
      BY <1>2, <1>5, <2>1 DEF m
    <2>3. QED
      BY <1>5, <2>1, <2>2 DEF TradeTold, DayOf, TradedAt, key
  <1>13. tradeEntities' = [i \in DOMAIN executed' |-> TradeTold(executed[i])']
    <2> DEFINE e == [buy |-> b, sell |-> a, price |-> t.price, quantity |-> q, timestamp |-> now]
               S == {TradeTold(executed[i]) : i \in DOMAIN executed} \cup {e}
               k == Len(executed)
               f == tradeEntities
    <2>1. DOMAIN f = DOMAIN executed /\ \A i \in DOMAIN executed : f[i] = TradeTold(executed[i])
      BY DEF IndexAgrees
    <2>2. f \in [DOMAIN executed -> S]
      BY DEF IndexAgrees
    <2>3. k \in Nat /\ DOMAIN executed = 1..k /\ n = k + 1 /\ e \in S
          /\ DOMAIN executed' = 1 .. k + 1
      BY <1>1, <1>3, <1>4
    <2>4. tradeEntities' = Append(f, e)
      BY <1>9
    <2> DEFINE g == tradeEntities'
    <2> HIDE DEF e, S, k, f, g
    <2>5. g \in Longer(S, k, f, e)
      <3>1. f \in [1..k -> S] /\ k \in Nat /\ e \in S
        BY <2>2, <2>3
      <3>2. Append(f, e) \in Longer(S, k, f, e)
        BY <3>1, AppendFn
      <3>3. QED
        BY <2>4, <3>2 DEF g
    <2>6. g \in [DOMAIN executed' -> S] /\ g[n] = e /\ \A i \in DOMAIN executed : g[i] = f[i]
      BY <2>3, <2>5 DEF Longer
    <2>7. \A i \in DOMAIN executed' : g[i] = TradeTold(executed[i])'
      BY <1>6, <1>11, <1>12, <2>1, <2>6 DEF e
    <2>8. g = [i \in DOMAIN executed' |-> TradeTold(executed[i])']
      BY <2>6, <2>7
    <2>9. QED
      BY <2>8 DEF g
  <1>14. dailyVolume' = [d \in {DayOf(executed[i])' : i \in DOMAIN executed'} |-> DayTold(TradesOf(d))']
    <2> DEFINE D == {DayOf(executed[i]) : i \in DOMAIN executed}
               daily == IF key \in D THEN dailyVolume[key] ELSE FirstOfDay(t.price)
    <2>1. DOMAIN dailyVolume = D /\ \A d \in D : dailyVolume[d] = SummaryOf(executed, TradesOf(d))
      BY DEF IndexAgrees, DayTold, SummaryOf
    <2>2. {DayOf(executed[i])' : i \in DOMAIN executed'} = D \cup {key}
      BY <1>6, <1>11, <1>12
    <2>3. \A d : TradesOf(d)' = IF d = key THEN TradesOf(d) \cup {n} ELSE TradesOf(d)
      <3>1. \A d : TradesOf(d)' = {i \in DOMAIN executed' : DayOf(executed[i])' = d}
        BY DEF TradesOf
      <3>2. ASSUME NEW d PROVE TradesOf(d)' = IF d = key THEN TradesOf(d) \cup {n} ELSE TradesOf(d)
        BY <1>6, <1>11, <1>12, <3>1 DEF TradesOf
      <3>3. QED
        BY <3>2
    <2>4. \A d : TradesOf(d) \in SUBSET DOMAIN executed /\ (d \in D <=> TradesOf(d) # {})
      BY DEF TradesOf
    <2>5. ASSUME NEW d
          PROVE  /\ TradesOf(d) # {} => SummaryOf(executed', TradesOf(d)) = SummaryOf(executed, TradesOf(d))
                 /\ SummaryOf(executed', TradesOf(d) \cup {n}) =
                      Widen(IF TradesOf(d) = {} THEN FirstOfDay(t.price)
                            ELSE SummaryOf(executed, TradesOf(d)), t.price, t.quantity)
      <3>1. /\ executed \in Seq(TradeRecord) /\ t \in TradeRecord /\ n = Len(executed) + 1
            /\ TradesOf(d) \in SUBSET DOMAIN executed /\ executed' = Append(executed, t)
        BY <1>1, <1>3, <1>4, <2>4
      <3> DEFINE ex2 == executed'
                 T == TradesOf(d)
                 ex == executed
      <3>2. ex \in Seq(TradeRecord) /\ T \in SUBSET DOMAIN ex /\ ex2 = Append(ex, t)
            /\ n = Len(ex) + 1
        BY <3>1
      <3> HIDE DEF ex2, T, ex
      <3>3. DayTaken(ex, ex2, T, t, n)
        BY <3>1, <3>2, SummaryNext
      <3>4. QED
        BY <3>3 DEF DayTaken, ex2, T, ex
    <2>6. dailyVolume' = [d \in D \cup {key} |-> IF d = key THEN Widen(daily, t.price, q)
                                               ELSE dailyVolume[d]]
      BY <1>9, <2>1 DEF Saved
    <2>7. \A d : DayTold(TradesOf(d))' = SummaryOf(executed', TradesOf(d)')
      BY DEF DayTold, SummaryOf
    <2> HIDE DEF D
    <2>8. ASSUME NEW d \in D \cup {key} PROVE dailyVolume'[d] = DayTold(TradesOf(d))'
      <3>1. CASE d = key
        <4>1. DayTold(TradesOf(d))' = SummaryOf(executed', TradesOf(d) \cup {n})
          BY <2>3, <2>7, <3>1
        <4>2. daily = IF TradesOf(d) = {} THEN FirstOfDay(t.price) ELSE SummaryOf(executed, TradesOf(d))
          BY <2>1, <2>4, <3>1
        <4>3. dailyVolume'[d] = Widen(daily, t.price, t.quantity)
          BY <1>5, <2>6, <3>1
        <4> HIDE DEF daily
        <4>4. QED
          BY <2>5, <4>1, <4>2, <4>3
      <3>2. CASE d # key
        <4>1. d \in D /\ TradesOf(d) # {} /\ TradesOf(d)' = TradesOf(d)
          BY <2>3, <2>4, <3>2
        <4>2. dailyVolume'[d] = SummaryOf(executed, TradesOf(d))
          BY <2>1, <2>6, <3>2, <4>1
        <4>3. QED
          BY <2>5, <2>7, <4>1, <4>2
      <3>3. QED
        BY <3>1, <3>2
    <2>9. QED
      BY <2>2, <2>6, <2>8
  <1>15. QED
    BY <1>10, <1>13, <1>14 DEF IndexAgrees

\* Every step keeps the index in agreement with the book.
LEMMA StepIndex ==
  BookInv /\ ToldIInv /\ IndexAgrees /\ [IndexedNext]_indexedVars => IndexAgrees'
  <1> SUFFICES ASSUME BookInv, ToldIInv, IndexAgrees, [IndexedNext]_indexedVars
               PROVE  IndexAgrees'
    OBVIOUS
  <1>1. CASE UNCHANGED indexedVars
    <2>1. UNCHANGED <<orderNonce, orders, filled, status, executed>>
          /\ UNCHANGED <<orderEntity, tradeEntities, dailyVolume>>
      BY <1>1 DEF indexedVars, contractVars, bookVars, indexVars
    <2>2. QED
      BY <2>1 DEF IndexAgrees, OrderTold, TradeTold, TradedAt, DayOf, TradesOf, DayTold, Placed
  <1>2. CASE IndexedNext
    <2>1. Book /\ HandleEvent /\ ContractNext
      BY <1>2, BookInvParts DEF IndexedNext
    <2>2. ASSUME NEW r \in Submission, NEW nonce \in Nat, CreateOrder(r, nonce) PROVE IndexAgrees'
      <3>1. \E n : n = orderNonce + 1
        OBVIOUS
      <3>2. QED
        BY <2>1, <2>2, <3>1, IndexPlaced
    <2>3. ASSUME NEW ok \in BOOLEAN, Execute(ok) PROVE IndexAgrees'
      <3>1. \E b, a, n : b = Head(Bids) /\ a = Head(Asks) /\ n = Len(executed) + 1
        OBVIOUS
      <3>2. QED
        BY <2>1, <2>3, <3>1, IndexTraded
    <2>4. QED
      BY <2>1, <2>2, <2>3, StepKinds, IndexCancelled
  <1>3. QED
    BY <1>1, <1>2

\* The index, which sees the events alone, agrees with OrderBook.sol whatever orders are placed,
\* matched, cancelled or left to expire: every order with its fills and its status, every trade
\* with its time, and the volume and the prices of every pair and day (src/orderbook.ts).
THEOREM EventsTell == IndexedSpec => []EventsTellAll
  <1>1. IndexedInit => BookInv /\ ToldIInv /\ IndexAgrees
    <2> SUFFICES ASSUME IndexedInit PROVE BookInv /\ ToldIInv /\ IndexAgrees
      OBVIOUS
    <2>1. BookInv
      BY InitBook DEF IndexedInit
    <2>2. ToldIInv /\ Placed = {} /\ executed = <<>>
      BY DEF IndexedInit, ContractInit, ToldIInv, EventsTold, FillsTold, Placed
    <2>3. orderEntity = <<>> /\ tradeEntities = <<>> /\ dailyVolume = <<>>
      BY DEF IndexedInit, IndexInit, EmptyStore
    <2>4. IndexAgrees
      <3>1. DOMAIN executed = {}
        BY <2>2
      <3>2. {DayOf(executed[i]) : i \in DOMAIN executed} = {}
        BY <3>1
      <3>3. \A f : DOMAIN f = {} /\ f = [x \in DOMAIN f |-> f[x]] => f = <<>>
        OBVIOUS
      <3>4. QED
        BY <2>2, <2>3, <3>1, <3>2, <3>3 DEF IndexAgrees
    <2>5. QED
      BY <2>1, <2>2, <2>4
  <1>2. [IndexedNext]_indexedVars => [ContractNext]_contractVars
    BY DEF IndexedNext, indexedVars
  <1>3. BookInv /\ ToldIInv /\ IndexAgrees /\ [IndexedNext]_indexedVars
          => BookInv' /\ ToldIInv' /\ IndexAgrees'
    BY <1>2, StepBook, StepTold, StepIndex
  <1>4. BookInv /\ ToldIInv /\ IndexAgrees => EventsTellAll
    BY ToldParts DEF EventsTellAll
  <1>5. QED
    BY <1>1, <1>3, <1>4, PTL DEF IndexedSpec
=============================================================================
