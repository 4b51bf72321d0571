----------------------------- MODULE OrderDesk ------------------------------
(***************************************************************************)
(* The right column of the trade page: OrderForm.tsx with useSettlement.ts *)
(* and contracts.ts, and OpenOrdersTable.tsx, behind the tabs of           *)
(* trade/page.tsx.  Switching the tab unmounts what it hid: its state is   *)
(* lost, its requests go on.                                               *)
(*                                                                         *)
(* The API is its order book and three handlers, each of which runs to     *)
(* completion; requests and answers travel in any order.  Prices, messages *)
(* and chain ids are left out.                                             *)
(***************************************************************************)
EXTENDS WalletLink, FiniteSetsExt

CONSTANTS
  MaxOrders,   \* bound: orders placed
  MaxClicks,   \* bound: clicks on tabs, buttons of an offer, and cancels
  Slots,       \* bound: requests of the table under way
  MaxMishaps   \* bound: requests that fail, orders other traders fill

Tabs == {"trade", "amm", "orders"}

ASSUME DeskAssumption ==
  MaxOrders \in Nat /\ MaxClicks \in Nat /\ Slots \in Nat \ {0} /\ MaxMishaps \in Nat

VARIABLES
  tab,        \* rightTab
  book,       \* the API: the orders, trader, side, status and whether any part filled
  form,       \* OrderForm's state, with that of its useSettlement
  formNo,     \* which mounting of OrderForm
  posts,      \* POST /orders under way
  settles,    \* calls of settle() that wait for MetaMask
  chain,      \* settleTrade transactions sent
  crossed,    \* history: orders whose settlement overlapped that of another order
  rows,       \* OpenOrdersTable: orders
  tableNo,    \* which mounting of OpenOrdersTable, or of its effect
  requests,   \* by slot: GET and DELETE /orders under way
  clicks, mishaps

formVars == <<form, formNo, posts, settles, chain, crossed>>
tableVars == <<rows, tableNo, requests>>
deskVars == <<tab, book, formVars, tableVars, clicks, mishaps>>

NoOffer == [order |-> 0, buyer |-> None, seller |-> None, side |-> "buy"]
\* submit is the number of the last POST of this form.
FreshForm == [loading |-> FALSE, offer |-> NoOffer, pending |-> FALSE, hash |-> 0, submit |-> 0]
NoRequest == [kind |-> "none"]

DeskInit ==
  /\ tab = "trade" /\ book = <<>>
  /\ form = FreshForm /\ formNo = 0 /\ posts = {} /\ settles = {} /\ chain = <<>> /\ crossed = {}
  /\ rows = {} /\ tableNo = 0 /\ requests = [s \in 1..Slots |-> NoRequest]
  /\ clicks = 0 /\ mishaps = 0

Click == clicks < MaxClicks /\ clicks' = clicks + 1
Mishap == mishaps < MaxMishaps /\ mishaps' = mishaps + 1
trader == IF wallet = None THEN "anon" ELSE wallet

-----------------------------------------------------------------------------
\* OrderForm.tsx

\* Mutant of Submitted: the offer of the order before stays.
SubmittedBeside == [form EXCEPT !.loading = TRUE, !.pending = FALSE, !.hash = 0, !.submit = @ + 1]
\* The form after a click on its button: no offer, and the hook is reset.
Submitted == [FreshForm EXCEPT !.loading = TRUE, !.submit = form.submit + 1]

\* The button of the form.
SubmitEnabled == tab = "trade" /\ ~form.loading

\* submit up to its await.
submit(side) ==
  /\ SubmitEnabled
  /\ Len(book) + Cardinality(posts) < MaxOrders
  /\ form' = Submitted
  /\ posts' = posts \cup {[form |-> formNo, submit |-> form.submit + 1, side |-> side,
                           wallet |-> wallet, order |-> 0]}
  /\ UNCHANGED <<tab, book, formNo, settles, chain, crossed, tableVars, clicks, mishaps>>

\* What is offered for settlement; the other side of the trade is "anon".
OfferOf(p) ==
  [order |-> p.order, side |-> p.side,
   buyer |-> IF p.side = "buy" THEN p.wallet ELSE "anon",
   seller |-> IF p.side = "sell" THEN p.wallet ELSE "anon"]

\* submit after its awaits: an order that was filled at all is offered.
PostAnswered(p) ==
  /\ p.order # 0
  /\ posts' = posts \ {p}
  /\ form' = IF p.form # formNo THEN form
             ELSE [form EXCEPT !.loading = FALSE,
                               !.offer = IF book[p.order].filled /\ p.wallet # None
                                         THEN OfferOf(p) ELSE @]
  /\ UNCHANGED <<tab, book, formNo, settles, chain, crossed, tableVars, clicks, mishaps>>

\* An error of the network, before or after the order was placed, or of the API.
PostFails(p) ==
  /\ Mishap
  /\ posts' = posts \ {p}
  /\ form' = IF p.form = formNo THEN [form EXCEPT !.loading = FALSE] ELSE form
  /\ UNCHANGED <<tab, book, formNo, settles, chain, crossed, tableVars, clicks>>

\* The box with the two buttons.
OfferShown == tab = "trade" /\ form.offer # NoOffer /\ form.hash = 0

\* settle: who buys and who sells, of the two the form names.
Buyer(o) == IF o.side = "buy" THEN o.buyer ELSE o.seller
Seller(o) == IF o.side = "sell" THEN o.buyer ELSE o.seller

\* The call of settleTrade; the signer is that of window.ethereum.
SettleCall(o) == [no |-> clicks, form |-> formNo, order |-> o.order,
                  buyer |-> Buyer(o), seller |-> Seller(o)]

\* Mutant of Settling: the button stays enabled.
SettlingEnabled == [form EXCEPT !.hash = 0]
\* settle sets the hook pending, which disables the button.
Settling == [form EXCEPT !.pending = TRUE, !.hash = 0]

\* handleSettle up to the await of MetaMask.
handleSettle ==
  /\ OfferShown /\ ~form.pending /\ Click
  /\ form' = Settling
  /\ settles' = settles \cup {SettleCall(form.offer)}
  /\ crossed' = LET all == {s.order : s \in settles'}
                IN crossed \cup IF Cardinality(all) > 1 THEN all ELSE {}
  /\ UNCHANGED <<tab, book, formNo, posts, chain, tableVars, mishaps>>

\* "Skip".
Skip ==
  /\ OfferShown /\ Click
  /\ form' = [form EXCEPT !.offer = NoOffer, !.pending = FALSE, !.hash = 0]
  /\ UNCHANGED <<tab, book, formNo, posts, settles, chain, crossed, tableVars, mishaps>>

\* MetaMask sends the transaction: settle and handleSettle go on, whatever the
\* form shows by now.  One party is always "anon", for which ethers first asks a
\* name service: where that knows no such name, SettleFails is all that happens.
Settled(s) ==
  /\ settles' = settles \ {s}
  /\ chain' = Append(chain, s)
  /\ form' = IF s.form # formNo THEN form
             ELSE [form EXCEPT !.pending = FALSE, !.hash = Len(chain) + 1, !.offer = NoOffer]
  /\ UNCHANGED <<tab, book, formNo, posts, crossed, tableVars, clicks, mishaps>>

\* The user or the name service refuses: settle returns null.
SettleFails(s) ==
  /\ settles' = settles \ {s}
  /\ form' = IF s.form # formNo THEN form ELSE [form EXCEPT !.pending = FALSE, !.hash = 0]
  /\ UNCHANGED <<tab, book, formNo, posts, chain, crossed, tableVars, clicks, mishaps>>

-----------------------------------------------------------------------------
\* OpenOrdersTable.tsx

OpenOrders(t) == {o \in DOMAIN book : book[o].trader = t /\ book[o].status = "open"}
Free == {s \in DOMAIN requests : requests[s] = NoRequest}
Sent(kind, o, t) == [kind |-> kind, order |-> o, trader |-> t, table |-> tableNo',
                     answered |-> FALSE, rows |-> {}]

\* fetchOrders up to its await: by the interval, by the button, or because the
\* trader changed.  An answer for the trader before still counts.
fetchOrders ==
  /\ tab = "orders" /\ Free # {}
  /\ tableNo' = tableNo
  /\ requests' = [requests EXCEPT ![Min(Free)] = Sent("get", 0, trader)]
  /\ UNCHANGED <<tab, book, formVars, rows, clicks, mishaps>>

\* The button of a row.
CancelShown(o) == tab = "orders" /\ o \in rows

\* cancel up to its await, for whoever the trader is by now.
cancel(o) ==
  /\ CancelShown(o) /\ Free # {} /\ Click
  /\ tableNo' = tableNo
  /\ requests' = [requests EXCEPT ![Min(Free)] = Sent("delete", o, trader)]
  /\ UNCHANGED <<tab, book, formVars, rows, mishaps>>

\* Mutant of RowsAfter: the rows of an answer are added to those shown.
RowsAdded(r) == IF r.kind = "get" THEN rows \cup r.rows ELSE rows \ r.rows
\* The rows after an answer: those of the list, or all but the cancelled one.
RowsAfter(r) == IF r.kind = "get" THEN r.rows ELSE rows \ r.rows

RequestAnswered(s) ==
  LET r == requests[s] IN
  /\ r # NoRequest /\ r.answered
  /\ rows' = IF r.table = tableNo THEN RowsAfter(r) ELSE rows
  /\ requests' = [requests EXCEPT ![s] = NoRequest]
  /\ UNCHANGED <<tab, book, formVars, tableNo, clicks, mishaps>>

RequestFails(s) ==
  /\ requests[s] # NoRequest /\ Mishap
  /\ requests' = [requests EXCEPT ![s] = NoRequest]
  /\ UNCHANGED <<tab, book, formVars, rows, tableNo, clicks>>

-----------------------------------------------------------------------------
\* trade/page.tsx: the tabs.
SwitchTab(t) ==
  /\ t # tab /\ Click
  /\ tab' = t
  /\ IF tab = "trade" THEN form' = FreshForm /\ formNo' = formNo + 1
     ELSE UNCHANGED <<form, formNo>>
  /\ IF tab = "orders" THEN rows' = {} /\ tableNo' = tableNo + 1
     ELSE UNCHANGED <<rows, tableNo>>
  /\ UNCHANGED <<book, posts, settles, chain, crossed, requests, mishaps>>

-----------------------------------------------------------------------------
\* The API.

\* POST /orders: any part of the order may be filled at once.
ApiPlaces(p, filled, status) ==
  /\ p.order = 0
  /\ book' = Append(book, [trader |-> IF p.wallet = None THEN "anon" ELSE p.wallet,
                           side |-> p.side, filled |-> filled, status |-> status])
  /\ posts' = (posts \ {p}) \cup {[p EXCEPT !.order = Len(book) + 1]}
  /\ UNCHANGED <<tab, form, formNo, settles, chain, crossed, tableVars, clicks, mishaps>>
Outcomes == {<<FALSE, "open">>, <<FALSE, "cancelled">>, <<TRUE, "partial">>, <<TRUE, "filled">>}

\* Another trader's order fills one that rests.
OthersFill(o) ==
  /\ Mishap /\ book[o].status \in {"open", "partial"}
  /\ book' = [book EXCEPT ![o] = [@ EXCEPT !.filled = TRUE, !.status = "filled"]]
  /\ UNCHANGED <<tab, formVars, tableVars, clicks>>

\* GET /orders lists, DELETE /orders/:id cancels for the owner only.
ApiAnswers(s) ==
  LET r == requests[s]
      ok == r.kind = "delete" /\ book[r.order].trader = r.trader
            /\ book[r.order].status \in {"open", "partial"}
  IN /\ r # NoRequest /\ ~r.answered
     /\ book' = IF ok THEN [book EXCEPT ![r.order].status = "cancelled"] ELSE book
     /\ requests' = [requests EXCEPT ![s] =
          [r EXCEPT !.answered = TRUE,
                    !.rows = IF r.kind = "get" THEN OpenOrders(r.trader)
                             ELSE IF ok THEN {r.order} ELSE {}]]
     /\ UNCHANGED <<tab, formVars, rows, tableNo, clicks, mishaps>>

-----------------------------------------------------------------------------
DeskUser ==
  \/ \E s \in {"buy", "sell"} : submit(s)
  \/ handleSettle \/ Skip \/ \E t \in Tabs : SwitchTab(t) \/ \E o \in DOMAIN book : cancel(o)
DeskOutside ==
  \/ \E p \in posts : PostFails(p) \/ \E x \in Outcomes : ApiPlaces(p, x[1], x[2])
  \/ \E s \in settles : Settled(s) \/ SettleFails(s)
  \/ \E s \in 1..Slots : RequestFails(s) \/ \E o \in DOMAIN book : OthersFill(o)
DeskAnswer == \E p \in posts : PostAnswered(p)
TableAnswer(s) == ApiAnswers(s) \/ RequestAnswered(s)

-----------------------------------------------------------------------------
\* The offer on the screen is for the last order this form placed, which was
\* filled and is the wallet's that placed it, whatever answers come late and
\* however often the form was left (submit, handleSettle, Skip).
OfferIsCurrent ==
  form.offer # NoOffer =>
    /\ ~form.loading
    /\ \A p \in posts : p.form = formNo => p.submit # form.submit
    /\ book[form.offer.order].filled
    /\ book[form.offer.order].side = form.offer.side
    /\ book[form.offer.order].trader \in {form.offer.buyer, form.offer.seller}

\* A fill is settled on chain twice only if the settlement of another order was
\* once under way beside its own: the answer of one call then enables the
\* button of the other (useSettlement, handleSettle).
SettledTwiceOnlyIfCrossed ==
  \A i, j \in DOMAIN chain :
    i # j /\ chain[i].order = chain[j].order => chain[i].order \in crossed

\* "buyer pays USDC, seller delivers ETH": the trader of a buy is the buyer of its
\* settlement, the trader of a sell the seller.
BuyerPaysSellerDelivers ==
  \A i \in DOMAIN chain :
    LET o == book[chain[i].order] IN
    o.trader = IF o.side = "buy" THEN chain[i].buyer ELSE chain[i].seller

\* Whatever the order of the answers, a table that stays on the screen comes to
\* list the open orders of the trader, once these and the wallet rest
\* (fetchOrders and its interval, cancel).
TableCatchesUp ==
  <>[](tab = "orders") => <>[](rows = OpenOrders(trader))
=============================================================================
