-------------------------- MODULE TradePage_proofs --------------------------
(***************************************************************************)
(* Proofs about the trade page (TradePage, OrderDesk, WalletLink): what it *)
(* offers to settle and what it settles, for any accounts, numbers of      *)
(* orders and clicks, and whatever arrives late or fails.                  *)
(***************************************************************************)
EXTENDS TradePage, SequenceTheorems, FiniteSetTheorems, TLAPS

-----------------------------------------------------------------------------
(***************************************************************************)
(* The inductive invariant.                                                *)
(***************************************************************************)
Sides == {"buy", "sell"}
Holder == Accounts \cup {None}
User == Holder \cup {"anon"}

\* The wallet: what the providers were asked and sent.
Letter == [kind: {"changed", "accounts", "connect"}, account: Holder, modal: Nat]
WalletShape ==
  /\ wallet \in Holder /\ modalNo \in Nat
  /\ account \in [Providers -> Holder]
  /\ asked \subseteq [provider: Providers, kind: {"accounts", "connect"}, modal: Nat]
  /\ mail \in [Providers -> Seq(Letter)]

\* The desk.
Offer == [order: Nat, buyer: User, seller: User, side: Sides]
FormState == [loading: BOOLEAN, offer: Offer, pending: BOOLEAN, hash: Nat, submit: Nat]
Post == [form: Nat, submit: Nat, side: Sides, wallet: Holder, order: Nat]
Call == [no: Nat, form: Nat, order: Nat, buyer: User, seller: User]
BookOrder == [trader: User, side: Sides, filled: BOOLEAN,
              status: {"open", "partial", "filled", "cancelled"}]
DeskShape ==
  /\ book \in Seq(BookOrder) /\ form \in FormState /\ formNo \in Nat /\ clicks \in Nat
  /\ posts \subseteq Post /\ settles \subseteq Call /\ IsFiniteSet(settles)
  /\ chain \in Seq(Call)

Offered == form.offer # NoOffer

\* A form that loads has its one POST under way, and shows no offer; the order of a POST that
\* was answered is nowhere else.
PostsAgree ==
  /\ form.loading => ~Offered
  /\ \A p \in posts :
       /\ p.form <= formNo /\ (p.form = formNo => form.loading)
       /\ p.order # 0 =>
            /\ p.order \in DOMAIN book /\ book[p.order].side = p.side
            /\ book[p.order].trader = IF p.wallet = None THEN "anon" ELSE p.wallet
            /\ form.offer.order # p.order
            /\ \A s \in settles : s.order # p.order
            /\ \A i \in DOMAIN chain : chain[i].order # p.order
  /\ \A p, q \in posts : /\ p.form = formNo /\ q.form = formNo => p = q
                         /\ p.order # 0 /\ p.order = q.order => p = q

\* The offer is for an order of the book that was filled, and has not been settled.
OfferAgrees ==
  Offered =>
    /\ form.offer.order \in DOMAIN book
    /\ book[form.offer.order].filled /\ book[form.offer.order].side = form.offer.side
    /\ book[form.offer.order].trader \in {form.offer.buyer, form.offer.seller}
    /\ \A s \in settles : s.order = form.offer.order => s.form = formNo
    /\ \A i \in DOMAIN chain : chain[i].order # form.offer.order

\* What was settled or is being settled is of the book; calls for two orders cross, and of an
\* order that did not cross there is one call or one transaction.
CallsAgree ==
  /\ \A s \in settles : s.order \in DOMAIN book /\ s.form <= formNo
  /\ \A i \in DOMAIN chain : chain[i].order \in DOMAIN book
  /\ \A s, t \in settles : s.order # t.order => s.order \in crossed
  /\ \A s \in settles : s.order \notin crossed =>
       /\ \A t \in settles : t = s
       /\ \A i \in DOMAIN chain : chain[i].order # s.order
       /\ Offered /\ form.offer.order = s.order => form.pending
  /\ \A i, j \in DOMAIN chain :
       i # j /\ chain[i].order = chain[j].order => chain[i].order \in crossed


-----------------------------------------------------------------------------
(***************************************************************************)
(* The wallet.                                                             *)
(***************************************************************************)
\* Letters that are put into the mail of a provider.
LEMMA MailKeeps ==
  ASSUME WalletShape, NEW p \in Providers, NEW s \in Seq(Letter), mail' = [mail EXCEPT ![p] = s]
  PROVE  mail' \in [Providers -> Seq(Letter)]
  BY DEF WalletShape

\* The change of an account that window.ethereum tells of.
LEMMA ChangeIs ==
  ASSUME NEW p, NEW a \in Holder
  PROVE  ChangeOf(p, a) \in Seq(Letter)
  <1>1. Mail("changed", a, 0) \in Letter
    BY DEF Mail, Letter
  <1>2. QED
    BY <1>1 DEF ChangeOf

\* The wallet keeps its shape: the page only ever knows of accounts the providers sent.
LEMMA WalletKeeps ==
  ASSUME WalletShape, WalletAnswer \/ WalletUser
  PROVE  WalletShape'
  <1> USE DEF WalletShape
  <1>0. \A p \in Providers : mail[p] \in Seq(Letter) /\ account[p] \in Holder
    OBVIOUS
  <1>1. ASSUME NEW p \in Providers, NEW a \in Holder, AccountChanges(p, a) PROVE WalletShape'
    <2>1. mail[p] \o ChangeOf(p, a) \in Seq(Letter)
      BY <1>0, ChangeIs
    <2>2. mail' \in [Providers -> Seq(Letter)]
      BY <1>1, <2>1, MailKeeps DEF AccountChanges
    <2>3. QED
      BY <1>1, <2>2 DEF AccountChanges
  <1>2. ASSUME NEW r \in asked, ProviderAnswers(r) PROVE WalletShape'
    <2>1. Mail(r.kind, account[r.provider], r.modal) \in Letter /\ r.provider \in Providers
      BY <1>0 DEF Mail, Letter
    <2>2. Append(mail[r.provider], Mail(r.kind, account[r.provider], r.modal)) \in Seq(Letter)
      BY <1>0, <2>1
    <2>3. mail' \in [Providers -> Seq(Letter)]
      BY <1>2, <2>1, <2>2, MailKeeps DEF ProviderAnswers
    <2>4. QED
      BY <1>2, <2>3 DEF ProviderAnswers
  <1>3. ASSUME NEW r \in asked, NEW a \in Accounts, UserGrants(r, a) PROVE WalletShape'
    <2>1. Mail("connect", a, r.modal) \in Letter /\ r.provider \in Providers /\ a \in Holder
      BY DEF Mail, Letter, Holder
    <2>2. ChangeOf(r.provider, a) \in Seq(Letter)
      BY <2>1, ChangeIs
    <2>3. (mail[r.provider] \o ChangeOf(r.provider, a)) \o <<Mail("connect", a, r.modal)>> \in Seq(Letter)
      BY <1>0, <2>1, <2>2
    <2>4. mail' \in [Providers -> Seq(Letter)]
      BY <1>3, <2>1, <2>3, MailKeeps DEF UserGrants
    <2>5. QED
      BY <1>3, <2>1, <2>4 DEF UserGrants
  <1>4. ASSUME NEW r \in asked, UserRefuses(r) PROVE WalletShape'
    <2>1. Mail("connect", None, r.modal) \in Letter /\ r.provider \in Providers
      BY DEF Mail, Letter, Holder
    <2>2. Append(mail[r.provider], Mail("connect", None, r.modal)) \in Seq(Letter)
      BY <1>0, <2>1
    <2>3. mail' \in [Providers -> Seq(Letter)]
      BY <1>4, <2>1, <2>2, MailKeeps DEF UserRefuses
    <2>4. QED
      BY <1>4, <2>3 DEF UserRefuses
  <1>5. ASSUME NEW p \in Providers, MailArrives(p) PROVE WalletShape'
    <2> DEFINE m == Head(mail[p])
    <2>1. mail[p] # <<>> /\ mail[p] \in Seq(Letter)
      BY <1>0, <1>5 DEF MailArrives
    <2>2. m \in Letter /\ Tail(mail[p]) \in Seq(Letter)
      BY <2>1, HeadTailProperties
    <2>3. mail' \in [Providers -> Seq(Letter)]
      BY <1>5, <2>2, MailKeeps DEF MailArrives
    <2>4. m.account \in Holder
      BY <2>2 DEF Letter
    <2> HIDE DEF m
    <2>5. wallet' \in Holder /\ modalNo' \in Nat
      BY <1>5, <2>4 DEF MailArrives, accountsChanged, accountsRead, Connected, Badge, m
    <2>6. QED
      BY <1>5, <2>3, <2>5 DEF MailArrives
  <1>6. ASSUME NEW id \in WalletId, handleConnect(id) PROVE WalletShape'
    <2>1. getProvider(id) \in Providers
      BY <1>6 DEF handleConnect, getProvider, Providers
    <2>2. QED
      BY <1>6, <2>1 DEF handleConnect
  <1>7. ASSUME OpenModal \/ CloseModal \/ disconnect PROVE WalletShape'
    BY <1>7 DEF OpenModal, CloseModal, disconnect, Badge, Holder
  <1>8. QED
    BY <1>1, <1>2, <1>3, <1>4, <1>5, <1>6, <1>7 DEF WalletAnswer, WalletUser, Holder

\* Nothing is known of the wallet when the page is loaded.
LEMMA WalletStarts == WalletInit => WalletShape
  <1> SUFFICES ASSUME WalletInit PROVE WalletShape
    OBVIOUS
  <1>1. {None, CHOOSE a \in Accounts : TRUE} \subseteq Holder
    BY WalletAssumption DEF Holder
  <1>2. account \in [Providers -> Holder]
    BY <1>1 DEF WalletInit
  <1>3. QED
    BY <1>2 DEF WalletInit, WalletShape, Holder, Providers

-----------------------------------------------------------------------------
(***************************************************************************)
(* The desk.                                                               *)
(***************************************************************************)
DeskInv == DeskShape /\ PostsAgree /\ OfferAgrees /\ CallsAgree

\* What leaves the form, its calls and the book alone keeps the desk (fetchOrders, cancel, the
\* answers of the table, and the wallet).
LEMMA DeskRests ==
  ASSUME DeskInv, UNCHANGED <<book, formVars>>, clicks' \in Nat
  PROVE  DeskInv'
  <1> USE DEF formVars
  <1>1. DeskShape'
    BY DEF DeskInv, DeskShape
  <1>2. PostsAgree'
    BY DEF DeskInv, PostsAgree, Offered
  <1>3. OfferAgrees'
    BY DEF DeskInv, OfferAgrees, Offered
  <1>4. CallsAgree'
    BY DEF DeskInv, CallsAgree, Offered
  <1>5. QED
    BY <1>1, <1>2, <1>3, <1>4 DEF DeskInv

\* An order of the book keeps its trader and its side, and stays filled.
BookKept ==
  /\ DOMAIN book' = DOMAIN book
  /\ \A o \in DOMAIN book : /\ book'[o].trader = book[o].trader /\ book'[o].side = book[o].side
                            /\ book[o].filled => book'[o].filled

\* A change of an order in the book (OthersFill, the answer to a DELETE).
LEMMA BookChange ==
  ASSUME book \in Seq(BookOrder), NEW o, NEW x \in BookOrder,
         o \in DOMAIN book =>
           x.trader = book[o].trader /\ x.side = book[o].side /\ (book[o].filled => x.filled),
         book' = [book EXCEPT ![o] = x]
  PROVE  book' \in Seq(BookOrder) /\ BookKept
  <1>1. DOMAIN book' = DOMAIN book /\ \A i \in DOMAIN book : book'[i] = IF i = o THEN x ELSE book[i]
    OBVIOUS
  <1>2. book' \in Seq(BookOrder)
    <2>1. book \in [1..Len(book) -> BookOrder] /\ Len(book) \in Nat
      OBVIOUS
    <2>2. book' \in [1..Len(book) -> BookOrder]
      BY <2>1
    <2>3. QED
      BY <2>1, <2>2
  <1>3. QED
    BY <1>1, <1>2 DEF BookKept

\* The orders other traders fill and the requests for cancels leave the form and its calls alone.
LEMMA DeskOfBook ==
  ASSUME DeskInv, book' \in Seq(BookOrder), BookKept, UNCHANGED <<formVars, clicks>>
  PROVE  DeskInv'
  <1> USE DEF formVars
  <1>1. DeskShape'
    BY DEF DeskInv, DeskShape
  <1>2. PostsAgree'
    BY DEF DeskInv, PostsAgree, Offered, BookKept
  <1>3. OfferAgrees'
    BY DEF DeskInv, OfferAgrees, Offered, BookKept
  <1>4. CallsAgree'
    BY DEF DeskInv, CallsAgree, Offered, BookKept
  <1>5. QED
    BY <1>1, <1>2, <1>3, <1>4 DEF DeskInv

\* Another trader fills an order.
LEMMA StepOthersFill ==
  ASSUME DeskInv, NEW o \in DOMAIN book, OthersFill(o)
  PROVE  DeskInv'
  <1> DEFINE x == [book[o] EXCEPT !.filled = TRUE, !.status = "filled"]
  <1>0. book \in Seq(BookOrder) /\ book[o] \in BookOrder
    BY DEF DeskInv, DeskShape
  <1>1. x \in BookOrder /\ x.trader = book[o].trader /\ x.side = book[o].side /\ x.filled
    BY <1>0 DEF BookOrder
  <1>2. book' = [book EXCEPT ![o] = x]
    BY DEF OthersFill
  <1> HIDE DEF x
  <1>3. book' \in Seq(BookOrder) /\ BookKept
    BY <1>0, <1>1, <1>2, BookChange
  <1>4. UNCHANGED <<formVars, clicks>>
    BY DEF OthersFill
  <1>5. QED
    BY <1>3, <1>4, DeskOfBook

\* The API lists the open orders or cancels one.
LEMMA StepApiAnswers ==
  ASSUME DeskInv, NEW s, ApiAnswers(s)
  PROVE  DeskInv'
  <1> DEFINE o == requests[s].order
             x == [book[o] EXCEPT !.status = "cancelled"]
  <1>1. UNCHANGED <<formVars, clicks>>
    BY DEF ApiAnswers
  <1>2. CASE UNCHANGED book
    <2>1. clicks' \in Nat
      BY <1>1 DEF DeskInv, DeskShape
    <2>2. QED
      BY <1>1, <1>2, <2>1, DeskRests
  <1>3. CASE ~UNCHANGED book
    <2>1. book' = [book EXCEPT ![o] = x]
      BY <1>3 DEF ApiAnswers
    <2>2. book \in Seq(BookOrder)
      BY DEF DeskInv, DeskShape
    <2>3. o \in DOMAIN book
      BY <2>1, <2>2, <1>3
    <2>4. book[o] \in BookOrder
      BY <2>2, <2>3
    <2>5. /\ x \in BookOrder
          /\ x.trader = book[o].trader /\ x.side = book[o].side /\ x.filled = book[o].filled
      BY <2>4 DEF BookOrder
    <2> HIDE DEF x, o
    <2>6. book' \in Seq(BookOrder) /\ BookKept
      BY <2>1, <2>2, <2>5, BookChange
    <2>7. QED
      BY <1>1, <2>6, DeskOfBook
  <1>4. QED
    BY <1>2, <1>3

\* The button of the form: a form that loads has no POST under way but the new one.
LEMMA StepSubmit ==
  ASSUME WalletShape, DeskInv, NEW side \in Sides, submit(side)
  PROVE  DeskInv'
  <1> DEFINE p == [form |-> formNo, submit |-> form.submit + 1, side |-> side,
                   wallet |-> wallet, order |-> 0]
  <1>1. /\ DeskShape /\ PostsAgree /\ CallsAgree /\ form \in FormState /\ ~form.loading
        /\ UNCHANGED <<book, formNo, settles, chain, crossed, clicks>>
    BY DEF DeskInv, DeskShape, submit, SubmitEnabled
  <1>2. p \in Post /\ p.form = formNo /\ p.order = 0
    BY <1>1 DEF Post, WalletShape, DeskShape, FormState
  <1>3. posts' = posts \cup {p}
    BY DEF submit
  <1>4. form' \in FormState /\ form'.loading /\ form'.offer = NoOffer
    <2>1. form' = [FreshForm EXCEPT !.loading = TRUE, !.submit = form.submit + 1]
      BY DEF submit, Submitted
    <2>2. NoOffer \in Offer
      BY DEF NoOffer, Offer, User, Holder, Sides
    <2>3. form.submit + 1 \in Nat
      BY <1>1 DEF FormState
    <2>4. form' = [loading |-> TRUE, offer |-> NoOffer, pending |-> FALSE, hash |-> 0,
                   submit |-> form.submit + 1]
      BY <2>1 DEF FreshForm
    <2>5. QED
      BY <2>2, <2>3, <2>4 DEF FormState
  <1>5. \A q \in posts : q.form # formNo
    BY <1>1 DEF PostsAgree
  <1> HIDE DEF p
  <1>6. DeskShape'
    BY <1>1, <1>2, <1>3, <1>4 DEF DeskShape
  <1>7. form'.offer.order = 0
    BY <1>4 DEF NoOffer
  <1>8. PostsAgree'
    <2>1. (form.loading => ~Offered)'
      BY <1>4 DEF Offered
    <2>2. \A q \in posts' : q.form <= formNo' /\ (q.form = formNo' => form'.loading)
      BY <1>1, <1>2, <1>3, <1>4 DEF PostsAgree, DeskShape
    <2>3. \A q \in posts' : q.order # 0 => q \in posts /\ form'.offer.order # q.order
      BY <1>2, <1>3, <1>7
    <2>4. \A q, r \in posts' : q.form = formNo' /\ r.form = formNo' => q = r
      BY <1>1, <1>3, <1>5
    <2>5. \A q, r \in posts' : q.order # 0 /\ q.order = r.order => q = r
      BY <1>1, <1>2, <1>3 DEF PostsAgree
    <2>6. QED
      BY <1>1, <2>1, <2>2, <2>3, <2>4, <2>5 DEF PostsAgree
  <1>9. OfferAgrees'
    BY <1>4 DEF OfferAgrees, Offered
  <1>10. CallsAgree'
    BY <1>1, <1>4 DEF CallsAgree, Offered
  <1>11. QED
    BY <1>6, <1>8, <1>9, <1>10 DEF DeskInv

\* The API takes an order: it is the last of the book, and no call is for it yet.
LEMMA StepApiPlaces ==
  ASSUME DeskInv, NEW p \in posts, NEW x \in Outcomes, ApiPlaces(p, x[1], x[2])
  PROVE  DeskInv'
  <1> DEFINE n == Len(book) + 1
             q == [p EXCEPT !.order = n]
             b == [trader |-> IF p.wallet = None THEN "anon" ELSE p.wallet,
                   side |-> p.side, filled |-> x[1], status |-> x[2]]
  <1>1. /\ DeskShape /\ PostsAgree /\ OfferAgrees /\ CallsAgree /\ book \in Seq(BookOrder)
        /\ p \in Post /\ p.order = 0
        /\ UNCHANGED <<form, formNo, settles, chain, crossed, clicks>>
    BY DEF DeskInv, DeskShape, ApiPlaces
  <1>2. q \in Post /\ q.form = p.form /\ q.order = n /\ q.side = p.side /\ q.wallet = p.wallet
    BY <1>1 DEF Post
  <1>3. b \in BookOrder /\ b.trader = (IF q.wallet = None THEN "anon" ELSE q.wallet) /\ b.side = q.side
    <2>1. x[1] \in BOOLEAN /\ x[2] \in {"open", "partial", "filled", "cancelled"}
      <3>1. \/ x = <<FALSE, "open">> \/ x = <<FALSE, "cancelled">>
            \/ x = <<TRUE, "partial">> \/ x = <<TRUE, "filled">>
        BY DEF Outcomes
      <3>2. CASE x = <<FALSE, "open">>
        BY <3>2
      <3>3. CASE x = <<FALSE, "cancelled">>
        BY <3>3
      <3>4. CASE x = <<TRUE, "partial">>
        BY <3>4
      <3>5. CASE x = <<TRUE, "filled">>
        BY <3>5
      <3>6. QED
        BY <3>1, <3>2, <3>3, <3>4, <3>5
    <2>2. p.side \in Sides /\ (IF p.wallet = None THEN "anon" ELSE p.wallet) \in User
      BY <1>1 DEF Post, User, Holder
    <2>3. b \in BookOrder
      BY <2>1, <2>2 DEF BookOrder
    <2>4. QED
      BY <1>2, <2>3
  <1>4. book' = Append(book, b) /\ posts' = (posts \ {p}) \cup {q}
    BY DEF ApiPlaces
  <1> HIDE DEF q, b
  <1>5. /\ book' \in Seq(BookOrder) /\ n \in DOMAIN book' /\ n \notin DOMAIN book /\ n # 0
        /\ book'[n] = b /\ DOMAIN book \subseteq DOMAIN book'
        /\ \A o \in DOMAIN book : book'[o] = book[o]
    BY <1>1, <1>3, <1>4
  <1> HIDE DEF n
  <1>6. DeskShape'
    BY <1>1, <1>2, <1>4, <1>5 DEF DeskShape
  <1>7. PostsAgree'
    <2>1. (form.loading => ~Offered)'
      BY <1>1 DEF PostsAgree, Offered
    <2>2. \A r \in posts' : r.form <= formNo' /\ (r.form = formNo' => form'.loading)
      BY <1>1, <1>2, <1>4 DEF PostsAgree
    <2>3. /\ Offered => form.offer.order # n
          /\ \A s \in settles : s.order # n
          /\ \A i \in DOMAIN chain : chain[i].order # n
          /\ \A r \in posts : r.order # n
      BY <1>1, <1>5 DEF PostsAgree, OfferAgrees, CallsAgree
    <2>4. form.offer.order # n
      BY <2>3, <1>5 DEF Offered, NoOffer
    <2>5. \A r \in posts' : r.order # 0 =>
            /\ r.order \in DOMAIN book' /\ book'[r.order].side = r.side
            /\ book'[r.order].trader = IF r.wallet = None THEN "anon" ELSE r.wallet
            /\ form'.offer.order # r.order
            /\ \A s \in settles' : s.order # r.order
            /\ \A i \in DOMAIN chain' : chain'[i].order # r.order
      <3> SUFFICES ASSUME NEW r \in posts', r.order # 0
                   PROVE  /\ r.order \in DOMAIN book' /\ book'[r.order].side = r.side
                          /\ book'[r.order].trader = IF r.wallet = None THEN "anon" ELSE r.wallet
                          /\ form'.offer.order # r.order
                          /\ \A s \in settles' : s.order # r.order
                          /\ \A i \in DOMAIN chain' : chain'[i].order # r.order
        OBVIOUS
      <3>1. CASE r = q
        BY <3>1, <1>1, <1>2, <1>3, <1>5, <2>3, <2>4
      <3>2. CASE r \in posts
        BY <3>2, <1>1, <1>5 DEF PostsAgree
      <3>3. QED
        BY <1>4, <3>1, <3>2
    <2>6. \A r, s \in posts' : r.form = formNo' /\ s.form = formNo' => r = s
      BY <1>1, <1>2, <1>4 DEF PostsAgree
    <2>7. \A r, s \in posts' : r.order # 0 /\ r.order = s.order => r = s
      BY <1>1, <1>2, <1>4, <2>3 DEF PostsAgree
    <2>8. QED
      BY <2>1, <2>2, <2>5, <2>6, <2>7 DEF PostsAgree
  <1>8. OfferAgrees'
    BY <1>1, <1>5 DEF OfferAgrees, Offered
  <1>9. CallsAgree'
    BY <1>1, <1>5 DEF CallsAgree, Offered
  <1>10. QED
    BY <1>6, <1>7, <1>8, <1>9 DEF DeskInv

\* The answer to a POST reaches the form that sent it, if that is still there.
LEMMA StepPostAnswered ==
  ASSUME DeskInv, NEW p \in posts, PostAnswered(p)
  PROVE  DeskInv'
  <1>1. /\ DeskShape /\ PostsAgree /\ OfferAgrees /\ CallsAgree /\ p \in Post /\ p.order # 0
        /\ form \in FormState /\ posts' = posts \ {p}
        /\ UNCHANGED <<book, formNo, settles, chain, crossed, clicks>>
    BY DEF DeskInv, DeskShape, PostAnswered
  <1>2. CASE UNCHANGED form /\ p.form # formNo
    <2>1. DeskShape'
      BY <1>1, <1>2 DEF DeskShape
    <2>2. PostsAgree'
      BY <1>1, <1>2 DEF PostsAgree, Offered
    <2>3. OfferAgrees'
      BY <1>1, <1>2 DEF OfferAgrees, Offered
    <2>4. CallsAgree'
      BY <1>1, <1>2 DEF CallsAgree, Offered
    <2>5. QED
      BY <2>1, <2>2, <2>3, <2>4 DEF DeskInv
  <1>3. CASE p.form = formNo
    <2>1. form.loading /\ ~Offered
      BY <1>1, <1>3 DEF PostsAgree
    <2>2. /\ form' \in FormState /\ form'.loading = FALSE
          /\ form'.offer = NoOffer \/ (form'.offer = OfferOf(p) /\ book[p.order].filled)
      <3>1. OfferOf(p) \in Offer
        BY <1>1 DEF OfferOf, Offer, Post, User, Holder
      <3>2. form.offer = NoOffer
        BY <2>1 DEF Offered
      <3>3. form.offer \in Offer
        BY <1>1 DEF FormState
      <3>4. CASE book[p.order].filled /\ p.wallet # None
        <4>1. form' = [form EXCEPT !.loading = FALSE, !.offer = OfferOf(p)]
          BY <1>3, <3>4 DEF PostAnswered
        <4>2. QED
          BY <1>1, <3>1, <3>4, <4>1 DEF FormState
      <3>5. CASE ~(book[p.order].filled /\ p.wallet # None)
        <4>1. form' = [form EXCEPT !.loading = FALSE, !.offer = form.offer]
          BY <1>3, <3>5 DEF PostAnswered
        <4>2. QED
          BY <1>1, <3>2, <3>3, <4>1 DEF FormState
      <3>6. QED
        BY <3>4, <3>5
    <2>3. \A q \in posts' : /\ q \in posts /\ q.form # formNo
                            /\ q.order # 0 => q.order # p.order
      BY <1>1, <1>3 DEF PostsAgree
    <2>4. /\ p.order \in DOMAIN book /\ book[p.order].side = p.side
          /\ book[p.order].trader = IF p.wallet = None THEN "anon" ELSE p.wallet
          /\ \A s \in settles : s.order # p.order
          /\ \A i \in DOMAIN chain : chain[i].order # p.order
      BY <1>1 DEF PostsAgree
    <2>5. /\ OfferOf(p).order = p.order /\ OfferOf(p).side = p.side
          /\ OfferOf(p) = form'.offer => book[p.order].trader \in {OfferOf(p).buyer, OfferOf(p).seller}
      <3>1. OfferOf(p).order = p.order /\ OfferOf(p).side = p.side
        BY DEF OfferOf
      <3>2. CASE p.wallet = None
        <4>1. p.side \in {"buy", "sell"}
          BY <1>1 DEF Post, Sides
        <4>2. "anon" \in {OfferOf(p).buyer, OfferOf(p).seller}
          BY <4>1 DEF OfferOf
        <4>3. QED
          BY <2>4, <3>1, <3>2, <4>2
      <3>3. CASE p.wallet # None
        <4>1. p.side \in {"buy", "sell"}
          BY <1>1 DEF Post, Sides
        <4>2. p.wallet \in {OfferOf(p).buyer, OfferOf(p).seller}
          BY <4>1 DEF OfferOf
        <4>3. QED
          BY <2>4, <3>1, <3>3, <4>2
      <3>4. QED
        BY <3>2, <3>3
    <2>6. DeskShape'
      BY <1>1, <2>2 DEF DeskShape
    <2>7. PostsAgree'
      BY <1>1, <2>2, <2>3, <2>5 DEF PostsAgree, NoOffer
    <2>8. OfferAgrees'
      <3>1. CASE form'.offer = NoOffer
        BY <3>1 DEF OfferAgrees, Offered
      <3>2. CASE form'.offer = OfferOf(p) /\ book[p.order].filled
        BY <1>1, <2>4, <2>5, <3>2 DEF OfferAgrees, Offered
      <3>3. QED
        BY <2>2, <3>1, <3>2
    <2>9. CallsAgree'
      BY <1>1, <2>2, <2>4, <2>5 DEF CallsAgree, Offered
    <2>10. QED
      BY <2>6, <2>7, <2>8, <2>9 DEF DeskInv
  <1>4. QED
    BY <1>2, <1>3 DEF PostAnswered

\* A POST that fails leaves no offer.
LEMMA StepPostFails ==
  ASSUME DeskInv, NEW p \in posts, PostFails(p)
  PROVE  DeskInv'
  <1>1. /\ DeskShape /\ PostsAgree /\ OfferAgrees /\ CallsAgree
        /\ form \in FormState /\ posts' = posts \ {p}
        /\ UNCHANGED <<book, formNo, settles, chain, crossed, clicks>>
    BY DEF DeskInv, DeskShape, PostFails
  <1>2. /\ form' \in FormState /\ form'.offer = form.offer /\ form'.pending = form.pending
        /\ form'.loading => form.loading
        /\ p.form # formNo => form' = form
    BY <1>1 DEF PostFails, FormState
  <1>3. DeskShape'
    BY <1>1, <1>2 DEF DeskShape
  <1>4. PostsAgree'
    BY <1>1, <1>2 DEF PostsAgree, Offered
  <1>5. OfferAgrees'
    BY <1>1, <1>2 DEF OfferAgrees, Offered
  <1>6. CallsAgree'
    BY <1>1, <1>2 DEF CallsAgree, Offered
  <1>7. QED
    BY <1>3, <1>4, <1>5, <1>6 DEF DeskInv

\* An offer that is taken away: the form, its number and its hook are all that changes (Skip,
\* a switch of the tab).
LEMMA OfferLeaves ==
  ASSUME DeskInv, form' \in FormState, form'.offer = NoOffer, formNo' \in Nat, clicks' \in Nat,
         \/ formNo' = formNo /\ form'.loading = form.loading
         \/ formNo' = formNo + 1,
         UNCHANGED <<book, posts, settles, chain, crossed>>
  PROVE  DeskInv'
  <1>1. DeskShape /\ PostsAgree /\ CallsAgree /\ formNo \in Nat /\ form'.offer.order = 0
    BY DEF DeskInv, DeskShape, NoOffer
  <1>2. DeskShape'
    BY <1>1 DEF DeskShape
  <1>3. formNo' >= formNo /\ posts \subseteq Post /\ settles \subseteq Call
    BY <1>1 DEF DeskShape
  <1>4. PostsAgree'
    <2>1. \A p \in posts : p.form \in Nat
      BY <1>3 DEF Post
    <2>2. CASE formNo' = formNo /\ form'.loading = form.loading
      BY <1>1, <2>2 DEF PostsAgree, Offered
    <2>3. CASE formNo' = formNo + 1
      <3>1. \A p \in posts : p.form <= formNo' /\ p.form # formNo'
        BY <1>1, <2>1, <2>3 DEF PostsAgree
      <3>2. QED
        BY <1>1, <3>1 DEF PostsAgree, Offered
    <2>4. QED
      BY <2>2, <2>3
  <1>5. OfferAgrees'
    BY DEF OfferAgrees, Offered
  <1>6. CallsAgree'
    <2>1. \A s \in settles : s.form \in Nat
      BY <1>3 DEF Call
    <2>2. \A s \in settles : s.form <= formNo'
      BY <1>1, <1>3, <2>1 DEF CallsAgree
    <2>3. QED
      BY <1>1, <2>2 DEF CallsAgree, Offered
  <1>7. QED
    BY <1>2, <1>4, <1>5, <1>6 DEF DeskInv

\* "Skip".
LEMMA StepSkip ==
  ASSUME DeskInv, Skip
  PROVE  DeskInv'
  <1>1. form \in FormState /\ formNo \in Nat /\ clicks \in Nat
    BY DEF DeskInv, DeskShape
  <1>2. NoOffer \in Offer
    BY DEF NoOffer, Offer, User, Holder, Sides
  <1>3. form' = [form EXCEPT !.offer = NoOffer, !.pending = FALSE, !.hash = 0]
    BY DEF Skip
  <1>4. form' \in FormState /\ form'.offer = NoOffer /\ form'.loading = form.loading
    BY <1>1, <1>2, <1>3 DEF FormState
  <1>5. clicks' \in Nat /\ UNCHANGED <<book, formNo, posts, settles, chain, crossed>>
    BY <1>1 DEF Skip, Click
  <1>6. QED
    BY <1>1, <1>4, <1>5, OfferLeaves

\* A switch of the tab: the form of a tab that is left is gone, and its requests go on.
LEMMA StepSwitchTab ==
  ASSUME DeskInv, NEW t \in Tabs, SwitchTab(t)
  PROVE  DeskInv'
  <1>1. clicks' \in Nat /\ UNCHANGED <<book, posts, settles, chain, crossed>>
    BY DEF SwitchTab, Click, DeskInv, DeskShape
  <1>2. CASE tab = "trade"
    <2>1. NoOffer \in Offer
      BY DEF NoOffer, Offer, User, Holder, Sides
    <2>2. form' \in FormState /\ form'.offer = NoOffer
      <3>1. form' = [loading |-> FALSE, offer |-> NoOffer, pending |-> FALSE, hash |-> 0, submit |-> 0]
        BY <1>2 DEF SwitchTab, FreshForm
      <3>2. QED
        BY <2>1, <3>1 DEF FormState
    <2>3. formNo' \in Nat /\ formNo' = formNo + 1
      BY <1>2 DEF SwitchTab, DeskInv, DeskShape
    <2>4. QED
      BY <1>1, <2>2, <2>3, OfferLeaves
  <1>3. CASE tab # "trade"
    BY <1>1, <1>3, DeskRests DEF SwitchTab, formVars
  <1>4. QED
    BY <1>2, <1>3

\* Calls for two orders are for more than one (handleSettle).
LEMMA TwoOrders ==
  ASSUME NEW S, IsFiniteSet(S), NEW s \in S, NEW t \in S, s.order # t.order
  PROVE  Cardinality({r.order : r \in S}) > 1
  <1> DEFINE T == {r.order : r \in S}
             f == [r \in S |-> r.order]
  <1>1. f \in Surjection(S, T)
    BY DEF Surjection
  <1>2. IsFiniteSet(T)
    BY <1>1, FS_Surjection
  <1>3. s.order \in T /\ t.order \in T
    OBVIOUS
  <1> HIDE DEF T
  <1>4. Cardinality(T) \in Nat
    BY <1>2, FS_CardinalityType
  <1>5. T # {}
    BY <1>3
  <1>6. Cardinality(T) # 0
    BY <1>2, <1>5, FS_EmptySet
  <1>7. Cardinality(T) # 1
    <2>1. SUFFICES ASSUME Cardinality(T) = 1 PROVE FALSE
      OBVIOUS
    <2>2. PICK x : T = {x}
      BY <1>2, <2>1, FS_Singleton
    <2>3. QED
      BY <1>3, <2>2
  <1>8. Cardinality(T) > 1
    BY <1>4, <1>6, <1>7
  <1>9. QED
    BY <1>8 DEF T

\* The button of the offer: the hook is pending from now on, and a call for another order makes
\* both of them crossed.
LEMMA StepHandleSettle ==
  ASSUME DeskInv, handleSettle
  PROVE  DeskInv'
  <1> DEFINE c == SettleCall(form.offer)
  <1>1. /\ DeskShape /\ PostsAgree /\ OfferAgrees /\ CallsAgree
        /\ form \in FormState /\ formNo \in Nat /\ clicks \in Nat /\ clicks' = clicks + 1
        /\ Offered /\ ~form.pending
        /\ settles' = settles \cup {c}
        /\ UNCHANGED <<book, formNo, posts, chain>>
    BY DEF DeskInv, DeskShape, handleSettle, OfferShown, Offered, Click
  <1>2. c.form = formNo /\ c.order = form.offer.order
    BY DEF SettleCall
  <1>3. c \in Call
    <2>1. form.offer \in Offer
      BY <1>1 DEF FormState
    <2>2. Buyer(form.offer) \in User /\ Seller(form.offer) \in User /\ form.offer.order \in Nat
      BY <2>1 DEF Offer, Buyer, Seller
    <2>3. QED
      BY <1>1, <2>2 DEF SettleCall, Call
  <1>4. /\ form' \in FormState /\ form'.offer = form.offer /\ form'.pending
        /\ form'.loading = form.loading
    BY <1>1 DEF handleSettle, Settling, FormState
  <1>5. /\ crossed \subseteq crossed'
        /\ Cardinality({s.order : s \in settles'}) > 1 => \A s \in settles' : s.order \in crossed'
    BY DEF handleSettle
  <1> HIDE DEF c
  <1>6. IsFiniteSet(settles')
    <2>1. IsFiniteSet(settles)
      BY <1>1 DEF DeskShape
    <2>2. IsFiniteSet(settles \cup {c})
      BY <2>1, FS_AddElement
    <2>3. QED
      BY <1>1, <2>2
  <1>7. \A s, t \in settles' : s.order # t.order => s.order \in crossed'
    BY <1>5, <1>6, TwoOrders
  <1>8. \A s \in settles' : s.order \notin crossed' => s = c
    <2> SUFFICES ASSUME NEW s \in settles', s.order \notin crossed', s # c PROVE FALSE
      OBVIOUS
    <2>1. s \in settles /\ s.order \notin crossed /\ s.order = c.order
      BY <1>1, <1>5, <1>7
    <2>2. QED
      BY <1>1, <1>2, <2>1 DEF CallsAgree
  <1>9. DeskShape'
    BY <1>1, <1>3, <1>4, <1>6 DEF DeskShape
  <1>10. PostsAgree'
    <2>1. \A p \in posts : p.order # 0 => c.order # p.order
      BY <1>1, <1>2 DEF PostsAgree
    <2>2. QED
      BY <1>1, <1>4, <2>1 DEF PostsAgree, Offered
  <1>11. OfferAgrees'
    BY <1>1, <1>2, <1>4 DEF OfferAgrees, Offered
  <1>12. CallsAgree'
    <2>1. c.order \in DOMAIN book /\ \A i \in DOMAIN chain : chain[i].order # c.order
      BY <1>1, <1>2 DEF OfferAgrees
    <2>2. \A s \in settles' : s.order \in DOMAIN book /\ s.form <= formNo
      BY <1>1, <1>2, <2>1 DEF CallsAgree
    <2>3. \A s \in settles' : s.order \notin crossed' =>
            /\ \A t \in settles' : t = s
            /\ \A i \in DOMAIN chain : chain[i].order # s.order
      <3> SUFFICES ASSUME NEW s \in settles', s.order \notin crossed'
                   PROVE  /\ \A t \in settles' : t = s
                          /\ \A i \in DOMAIN chain : chain[i].order # s.order
        OBVIOUS
      <3>1. s = c
        BY <1>8
      <3>2. \A t \in settles' : t.order \notin crossed'
        BY <1>7
      <3>3. QED
        BY <1>8, <2>1, <3>1, <3>2
    <2>4. \A i, j \in DOMAIN chain :
            i # j /\ chain[i].order = chain[j].order => chain[i].order \in crossed'
      BY <1>1, <1>5 DEF CallsAgree
    <2>5. \A i \in DOMAIN chain : chain[i].order \in DOMAIN book
      BY <1>1 DEF CallsAgree
    <2>6. QED
      BY <1>1, <1>4, <1>7, <2>2, <2>3, <2>4, <2>5 DEF CallsAgree
  <1>13. QED
    BY <1>9, <1>10, <1>11, <1>12 DEF DeskInv

\* The answers of MetaMask: the form of the call, if it is still there, is not pending any more,
\* and has no offer if the transaction was sent.
LEMMA CallEnds ==
  ASSUME DeskInv, NEW s \in settles, settles' = settles \ {s}, form' \in FormState,
         form'.loading = form.loading,
         form'.offer = form.offer \/ form'.offer = NoOffer,
         s.form # formNo => form' = form,
         \/ UNCHANGED chain
         \/ chain' = Append(chain, s) /\ (s.form = formNo => form'.offer = NoOffer),
         UNCHANGED <<book, formNo, posts, crossed, clicks>>
  PROVE  DeskInv'
  <1>1. /\ DeskShape /\ PostsAgree /\ OfferAgrees /\ CallsAgree
        /\ chain \in Seq(Call) /\ settles \subseteq Call /\ IsFiniteSet(settles)
    BY DEF DeskInv, DeskShape
  <1>2. /\ chain' \in Seq(Call) /\ DOMAIN chain \subseteq DOMAIN chain'
        /\ \A i \in DOMAIN chain : chain'[i] = chain[i]
        /\ \A i \in DOMAIN chain' \ DOMAIN chain : chain'[i] = s
        /\ \A i, j \in DOMAIN chain' \ DOMAIN chain : i = j
        /\ \A i \in DOMAIN chain' \ DOMAIN chain : s.form = formNo => form'.offer = NoOffer
    BY <1>1
  <1>3. IsFiniteSet(settles')
    BY <1>1, FS_Subset
  <1>4. DeskShape'
    BY <1>1, <1>2, <1>3 DEF DeskShape
  <1>5. PostsAgree'
    <2>1. \A p \in posts : p.order # 0 => \A i \in DOMAIN chain' : chain'[i].order # p.order
      BY <1>1, <1>2 DEF PostsAgree
    <2>2. \A p \in posts : p.order # 0 => form'.offer.order # p.order
      BY <1>1 DEF PostsAgree, NoOffer
    <2>3. QED
      BY <1>1, <2>1, <2>2 DEF PostsAgree, Offered
  <1>6. OfferAgrees'
    <2> SUFFICES ASSUME Offered' PROVE OfferAgrees'
      BY DEF OfferAgrees
    <2>1. Offered /\ form'.offer = form.offer
      BY DEF Offered
    <2>2. \A i \in DOMAIN chain' : chain'[i].order # form.offer.order
      <3> SUFFICES ASSUME NEW i \in DOMAIN chain' PROVE chain'[i].order # form.offer.order
        OBVIOUS
      <3>1. CASE i \in DOMAIN chain
        BY <1>1, <1>2, <2>1, <3>1 DEF OfferAgrees
      <3>2. CASE i \notin DOMAIN chain
        <4>1. s.form # formNo
          BY <1>2, <2>1, <3>2 DEF Offered
        <4>2. s.order # form.offer.order
          BY <1>1, <2>1, <4>1 DEF OfferAgrees
        <4>3. QED
          BY <1>2, <3>2, <4>2
      <3>3. QED
        BY <3>1, <3>2
    <2>3. QED
      BY <1>1, <2>1, <2>2 DEF OfferAgrees
  <1>7. CallsAgree'
    <2>1. \A t \in settles' : t.order \in crossed
      BY <1>1 DEF CallsAgree
    <2>2. \A i, j \in DOMAIN chain' :
            i # j /\ chain'[i].order = chain'[j].order => chain'[i].order \in crossed
      <3> SUFFICES ASSUME NEW i \in DOMAIN chain', NEW j \in DOMAIN chain',
                          i # j, chain'[i].order = chain'[j].order
                   PROVE  chain'[i].order \in crossed
        OBVIOUS
      <3>1. CASE i \in DOMAIN chain /\ j \in DOMAIN chain
        BY <1>1, <1>2, <3>1 DEF CallsAgree
      <3>2. CASE i \in DOMAIN chain /\ j \notin DOMAIN chain
        BY <1>1, <1>2, <3>2 DEF CallsAgree
      <3>3. CASE i \notin DOMAIN chain
        <4>1. j \in DOMAIN chain
          BY <1>2, <3>3
        <4>2. QED
          BY <1>1, <1>2, <3>3, <4>1 DEF CallsAgree
      <3>4. QED
        BY <3>1, <3>2, <3>3
    <2>3. \A i \in DOMAIN chain' : chain'[i].order \in DOMAIN book
      BY <1>1, <1>2 DEF CallsAgree
    <2>4. QED
      BY <1>1, <2>1, <2>2, <2>3 DEF CallsAgree
  <1>8. QED
    BY <1>4, <1>5, <1>6, <1>7 DEF DeskInv

\* MetaMask sends the transaction.
LEMMA StepSettled ==
  ASSUME DeskInv, NEW s \in settles, Settled(s)
  PROVE  DeskInv'
  <1>1. form \in FormState /\ chain \in Seq(Call) /\ NoOffer \in Offer
    BY DEF DeskInv, DeskShape, NoOffer, Offer, User, Holder, Sides
  <1>2. /\ form' \in FormState /\ form'.loading = form.loading
        /\ form'.offer = form.offer \/ form'.offer = NoOffer
        /\ s.form # formNo => form' = form
        /\ s.form = formNo => form'.offer = NoOffer
    <2>1. Len(chain) + 1 \in Nat
      BY <1>1
    <2>2. QED
      BY <1>1, <2>1 DEF Settled, FormState
  <1>3. /\ settles' = settles \ {s} /\ chain' = Append(chain, s)
        /\ UNCHANGED <<book, formNo, posts, crossed, clicks>>
    BY DEF Settled
  <1>4. QED
    BY <1>2, <1>3, CallEnds

\* The user or the name service refuses.
LEMMA StepSettleFails ==
  ASSUME DeskInv, NEW s \in settles, SettleFails(s)
  PROVE  DeskInv'
  <1>1. form \in FormState
    BY DEF DeskInv, DeskShape
  <1>2. /\ form' \in FormState /\ form'.loading = form.loading /\ form'.offer = form.offer
        /\ s.form # formNo => form' = form
    BY <1>1 DEF SettleFails, FormState
  <1>3. settles' = settles \ {s} /\ UNCHANGED <<chain, book, formNo, posts, crossed, clicks>>
    BY DEF SettleFails
  <1>4. QED
    BY <1>2, <1>3, CallEnds

-----------------------------------------------------------------------------
(***************************************************************************)
(* The page.                                                               *)
(***************************************************************************)

\* The page is loaded: no order, no offer.
LEMMA InitPage == PageInit => WalletShape /\ DeskInv
  <1> SUFFICES ASSUME PageInit PROVE DeskInv
    BY WalletStarts DEF PageInit
  <1> USE DEF PageInit, DeskInit
  <1>1. FreshForm \in FormState /\ FreshForm.offer = NoOffer
    <2>1. NoOffer \in Offer
      BY DEF NoOffer, Offer, User, Holder, Sides
    <2>2. QED
      BY <2>1 DEF FreshForm, FormState
  <1>2. DeskShape
    BY <1>1, FS_EmptySet DEF DeskShape
  <1>3. PostsAgree /\ OfferAgrees /\ CallsAgree
    BY <1>1 DEF PostsAgree, OfferAgrees, CallsAgree, Offered
  <1>4. QED
    BY <1>2, <1>3 DEF DeskInv

\* A step of the page keeps the wallet and the desk.
LEMMA StepPage == WalletShape /\ DeskInv /\ [PageNext]_pageVars => WalletShape' /\ DeskInv'
  <1> SUFFICES ASSUME WalletShape, DeskInv, [PageNext]_pageVars PROVE WalletShape' /\ DeskInv'
    OBVIOUS
  <1>1. ASSUME UNCHANGED deskVars PROVE DeskInv'
    <2>1. UNCHANGED <<book, formVars>> /\ clicks' \in Nat
      BY <1>1 DEF deskVars, DeskInv, DeskShape
    <2>2. QED
      BY <2>1, DeskRests
  <1>2. ASSUME UNCHANGED walletVars PROVE WalletShape'
    BY <1>2 DEF walletVars, WalletShape
  <1>3. CASE (WalletAnswer \/ WalletUser) /\ UNCHANGED deskVars
    BY <1>1, <1>3, WalletKeeps
  <1>4. ASSUME DeskUser PROVE DeskInv'
    <2>1. CASE \E s \in {"buy", "sell"} : submit(s)
      BY <2>1, StepSubmit DEF Sides
    <2>2. CASE handleSettle
      BY <2>2, StepHandleSettle
    <2>3. CASE Skip
      BY <2>3, StepSkip
    <2>4. CASE \E t \in Tabs : SwitchTab(t)
      BY <2>4, StepSwitchTab
    <2>5. CASE \E o \in DOMAIN book : cancel(o)
      <3>1. UNCHANGED <<book, formVars>> /\ clicks' \in Nat
        BY <2>5 DEF cancel, Click, DeskInv, DeskShape
      <3>2. QED
        BY <3>1, DeskRests
    <2>6. QED
      BY <1>4, <2>1, <2>2, <2>3, <2>4, <2>5 DEF DeskUser
  <1>5. ASSUME DeskOutside PROVE DeskInv'
    <2>1. CASE \E p \in posts : PostFails(p) \/ \E x \in Outcomes : ApiPlaces(p, x[1], x[2])
      BY <2>1, StepPostFails, StepApiPlaces
    <2>2. CASE \E s \in settles : Settled(s) \/ SettleFails(s)
      BY <2>2, StepSettled, StepSettleFails
    <2>3. CASE \E s \in 1..Slots : RequestFails(s)
      <3>1. UNCHANGED <<book, formVars>> /\ clicks' \in Nat
        BY <2>3 DEF RequestFails, DeskInv, DeskShape
      <3>2. QED
        BY <3>1, DeskRests
    <2>4. CASE \E o \in DOMAIN book : OthersFill(o)
      BY <2>4, StepOthersFill
    <2>5. QED
      BY <1>5, <2>1, <2>2, <2>3, <2>4 DEF DeskOutside
  <1>6. ASSUME DeskAnswer PROVE DeskInv'
    BY <1>6, StepPostAnswered DEF DeskAnswer
  <1>7. ASSUME fetchOrders PROVE DeskInv'
    <2>1. UNCHANGED <<book, formVars>> /\ clicks' \in Nat
      BY <1>7 DEF fetchOrders, DeskInv, DeskShape
    <2>2. QED
      BY <2>1, DeskRests
  <1>8. ASSUME NEW s \in 1..Slots, TableAnswer(s) PROVE DeskInv'
    <2>1. CASE ApiAnswers(s)
      BY <2>1, StepApiAnswers
    <2>2. CASE RequestAnswered(s)
      <3>1. UNCHANGED <<book, formVars>> /\ clicks' \in Nat
        BY <2>2 DEF RequestAnswered, DeskInv, DeskShape
      <3>2. QED
        BY <3>1, DeskRests
    <2>3. QED
      BY <1>8, <2>1, <2>2 DEF TableAnswer
  <1>9. CASE UNCHANGED pageVars
    BY <1>1, <1>2, <1>9 DEF pageVars
  <1>10. QED
    BY <1>2, <1>3, <1>4, <1>5, <1>6, <1>7, <1>8, <1>9 DEF PageNext

\* Whatever the order of the answers, the wallet and the desk keep their shape, and the calls of
\* the page agree with its book.
THEOREM PageInvariance == PageSpec => [](WalletShape /\ DeskInv)
  <1>1. PageInit => WalletShape /\ DeskInv
    BY InitPage
  <1>2. WalletShape /\ DeskInv /\ [PageNext]_pageVars => (WalletShape /\ DeskInv)'
    BY StepPage
  <1>3. QED
    BY <1>1, <1>2, PTL DEF PageSpec

\* OfferIsCurrent: the offer of the page is for the last order this form placed, which was
\* filled and is the trader's who placed it, however late the answers come and however often
\* the form was left (submit, handleSettle, Skip, the tabs of trade/page.tsx).
THEOREM OffersAreCurrent == PageSpec => []OfferIsCurrent
  <1>1. DeskInv => OfferIsCurrent
    <2> SUFFICES ASSUME DeskInv, Offered PROVE OfferIsCurrent
      BY DEF OfferIsCurrent, Offered
    <2>1. ~form.loading /\ \A p \in posts : p.form # formNo
      BY DEF DeskInv, PostsAgree
    <2>2. /\ book[form.offer.order].filled
          /\ book[form.offer.order].side = form.offer.side
          /\ book[form.offer.order].trader \in {form.offer.buyer, form.offer.seller}
      BY DEF DeskInv, OfferAgrees
    <2>3. QED
      BY <2>1, <2>2 DEF OfferIsCurrent
  <1>2. QED
    BY <1>1, PageInvariance, PTL

\* SettledTwiceOnlyIfCrossed: two transactions for one fill need a settlement of another order
\* that was under way beside the first; however often the form is left and come back to, one
\* order alone is sent once (useSettlement, handleSettle).
THEOREM OneSettlementEach == PageSpec => []SettledTwiceOnlyIfCrossed
  <1>1. DeskInv => SettledTwiceOnlyIfCrossed
    BY DEF DeskInv, CallsAgree, SettledTwiceOnlyIfCrossed
  <1>2. QED
    BY <1>1, PageInvariance, PTL
=============================================================================
