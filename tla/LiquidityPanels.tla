-------------------------- MODULE LiquidityPanels ---------------------------
(***************************************************************************)
(* The panels of the frontend that use the pool of the API: AMMPanel,      *)
(* AddLiquidity, RemoveLiquidity, ILCalculator and LPBalance, with the     *)
(* part of the store and of the stream (useDexStream, routes/stream.ts,    *)
(* the simulation's listeners) they show.                                  *)
(*                                                                         *)
(* A panel has at most one request under way: its button is disabled, but  *)
(* for "Get Quote", of which a user may ask several at a time; that an     *)
(* older quote overwrites a newer one is left out, as are quotes.  The API *)
(* handles a request some time after it was sent and the answer arrives    *)
(* some time after that, so answers of different panels may overtake each  *)
(* other.                                                                  *)
(***************************************************************************)
EXTENDS ApiAmm

CONSTANTS
  Wallet,   \* the wallet the user may connect
  Typed,    \* amounts the user types
  MaxDrops  \* bound: broken streams

ASSUME PanelsAssumption == Wallet \in Wallets /\ \A a \in Typed : IsFinite(a)

Panels == {"quote", "swap", "add", "calculator", "remove", "balance"}

VARIABLES
  wallet,     \* the store: NoWallet or Wallet
  ammPool,    \* the store: the reserves last streamed, or None
  lpPosition, \* the store: the shares last answered, or None
  panel,      \* by panel: what is under way
  stream,     \* the event source: "closed", "open" or "retry"
  drops       \* so far

screen == <<wallet, ammPool, lpPosition>>
link == <<stream, drops>>
panelVars == <<ammVars, rateVars, screen, panel, link>>

None == <<>>
NoWallet == "none"
Idle == [state |-> "idle", args |-> <<>>]
Sent(args) == [state |-> "sent", args |-> args]
Done(result) == [state |-> "done", args |-> <<result>>]
Error == <<"error">>

PanelsInit ==
  /\ AmmInit
  /\ wallet = NoWallet /\ ammPool = None /\ lpPosition = None
  /\ panel = [p \in Panels |-> Idle] /\ stream = "closed" /\ drops = 0

-----------------------------------------------------------------------------
\* The user's side: a button sends a request and is disabled until it is over
\* ("Get Quote" is not, but the model has one quote under way).

Ask(p, args) ==
  /\ panel[p] = Idle /\ panel' = [panel EXCEPT ![p] = Sent(args)]
  /\ UNCHANGED <<ammVars, rateVars, screen, link>>

\* getQuote and executeSwap of AMMPanel, which is there once a pool is shown.
AskSwap(p, a, t) == p \in {"quote", "swap"} /\ ammPool # None /\ Ask(p, <<a, t>>)

\* AddLiquidity: the second amount is filled in from the pool that is shown.
AskAdd(a) ==
  /\ ammPool # None /\ Zero \prec ammPool["A"]
  /\ Ask("add", <<a, a ** (ammPool["B"] // ammPool["A"])>>)

\* addLiquidity of ILCalculator: both amounts are typed.
AskCalculator(d) == Ask("calculator", d)

\* RemoveLiquidity: no more than the balance on show.
AskRemove(x) ==
  /\ ammPool # None /\ lpPosition # None /\ Zero \prec x /\ x \preceq lpPosition
  /\ Ask("remove", <<x>>)

\* LPBalance, every ten seconds while a wallet is connected.
AskBalance == wallet # NoWallet /\ Ask("balance", <<wallet>>)

\* Connecting and disconnecting leave the position on show.
SetWallet ==
  /\ wallet' = IF wallet = NoWallet THEN Wallet ELSE NoWallet
  /\ UNCHANGED <<ammVars, rateVars, ammPool, lpPosition, panel, link>>

-----------------------------------------------------------------------------
\* The API handles a request.  No panel but LPBalance names a wallet.

PositionOf(positions, w) ==
  IF positions[w] = NoPosition THEN None ELSE positions[w].shares

Handles(p, args) ==
  \/ p \in {"quote", "balance"} /\ UNCHANGED <<ammVars, rateVars>>
  \/ p = "swap" /\ Swap(args[1], args[2])
  \/ p \in {"add", "calculator"} /\ AddLiquidity("anon", args[1], args[2])
  \/ p = "remove" /\ RemoveLiquidity("anon", args[1])

Serve(p) ==
  /\ panel[p].state = "sent" /\ Handles(p, panel[p].args)
  /\ panel' = [panel EXCEPT ![p] = Done(
       PositionOf(lpPositions', IF p = "balance" THEN panel[p].args[1] ELSE "anon"))]
  /\ UNCHANGED <<screen, link>>

\* The network fails, before or after the API has handled the request.
Fail(p) ==
  /\ panel[p].state # "idle" /\ panel[p] # Done(Error)
  /\ panel' = [panel EXCEPT ![p] = Done(Error)]
  /\ UNCHANGED <<ammVars, rateVars, screen, link>>

\* Mutant of Over: loading is only reset by a success.
OverIfGood(p) == IF panel[p].args = <<Error>> THEN panel ELSE [panel EXCEPT ![p] = Idle]
\* finally: the button is enabled again.
Over(p) == [panel EXCEPT ![p] = Idle]

\* The answer arrives.  A removal that leaves no position leaves the old one on
\* show; LPBalance shows what its wallet has, which may be none.
Answer(p) ==
  /\ panel[p].state = "done" /\ panel' = Over(p)
  /\ LET position == panel[p].args[1] IN
     lpPosition' = IF position = Error \/ p \in {"quote", "swap"}
                      \/ (p = "remove" /\ position = None)
                   THEN lpPosition ELSE position
  /\ UNCHANGED <<ammVars, rateVars, wallet, ammPool, link>>

-----------------------------------------------------------------------------
\* useDexStream and /stream: the pool is sent on connection, at every tick of
\* the simulation and after every order.

Connect ==
  /\ stream \in {"closed", "retry"} /\ stream' = "open" /\ ammPool' = reserve
  /\ UNCHANGED <<ammVars, rateVars, wallet, lpPosition, panel, drops>>

\* Mutant of Broken: nothing connects again.
BrokenForGood == "lost"
\* onerror: closed, and connected again in three seconds.
Broken == "retry"
StreamBreaks ==
  /\ stream = "open" /\ drops < MaxDrops /\ drops' = drops + 1 /\ stream' = Broken
  /\ UNCHANGED <<ammVars, rateVars, screen, panel>>

Streamed ==
  /\ stream = "open" /\ ammPool # reserve /\ ammPool' = reserve
  /\ UNCHANGED <<ammVars, rateVars, wallet, lpPosition, panel, link>>

\* Requests that do not come from the panels, and time.
Others ==
  /\ \/ \E a \in Swaps, t \in Tokens : Swap(a, t)
     \/ \E w \in Wallets, o \in Orders : HybridOrder(w, o)
     \/ \E w \in Wallets, d \in Deposits : AddLiquidity(w, d[1], d[2])
     \/ \E w \in Wallets, a \in Swaps : RemoveLiquidity(w, a)
     \/ Tick
  /\ UNCHANGED <<screen, panel, link>>

PanelsNext ==
  \/ \E p \in Panels : Serve(p) \/ Fail(p) \/ Answer(p)
  \/ \E p \in Panels, a \in Typed, t \in Tokens : AskSwap(p, a, t)
  \/ \E a \in Typed : AskAdd(a)
  \/ \E d \in Deposits : AskCalculator(d)
  \/ lpPosition # None /\ \E n \in {1, 2} : AskRemove(lpPosition // Frac(n, 1))
  \/ AskBalance \/ SetWallet \/ Connect \/ StreamBreaks \/ Streamed \/ Others

\* A request is answered or fails, the event loop takes up what arrived, and the
\* timers of the stream and of the simulation fire.
PanelsFairness ==
  /\ \A p \in Panels : WF_panelVars(Fail(p) \/ Serve(p)) /\ WF_panelVars(Answer(p))
  /\ WF_panelVars(Connect) /\ WF_panelVars(Streamed)

PanelsSpec == PanelsInit /\ [][PanelsNext]_panelVars /\ PanelsFairness

-----------------------------------------------------------------------------
\* No button stays disabled, whether its request was answered, failed or was
\* overtaken; and once nothing changes the pool any more, the pool on show is
\* the pool, although the stream may break (the panels, useDexStream).
ScreenCatchesUp ==
  /\ \A p \in Panels : panel[p] # Idle ~> panel[p] = Idle
  /\ <>[](ammPool = reserve)
=============================================================================
