----------------------------- MODULE Simulation -----------------------------
(***************************************************************************)
(* The candles and the spreads of the market simulation, services/         *)
(* simulation.service.ts: only the trades of the bot's market orders reach *)
(* the candles, a candle is closed by the first trade of a later minute,   *)
(* and a spread is recorded at the end of a tick.  What a tick does to the *)
(* book and to the pool are calls of these components.                     *)
(***************************************************************************)
EXTENDS Integers, Sequences, FiniteSets, FiniteSetsExt

CONSTANTS
  InitialPrice,  \* INITIAL_PRICE
  MaxCandles,    \* closed candles that are kept
  MaxSpreads,    \* spreads that are kept
  MaxMinute      \* bound: time

ASSUME SimulationAssumption ==
  /\ InitialPrice \in Nat \ {0} /\ MaxCandles \in Nat \ {0}
  /\ MaxSpreads \in Nat \ {0} /\ MaxMinute \in Nat

VARIABLES
  minute,         \* Date.now(), in minutes
  candles,        \* the closed candles, oldest first
  currentCandle,
  spreadHistory,  \* the spreads of the last ticks, oldest first
  told            \* history: the trades the candles were told of

simVars == <<minute, candles, currentCandle, spreadHistory, told>>

\* A candle that begins at price p.
Candle(t, p, volume) ==
  [time |-> t, open |-> p, high |-> p, low |-> p, close |-> p, volume |-> volume]

SimulationInit ==
  /\ minute = 0
  /\ candles = <<>> /\ currentCandle = Candle(0, InitialPrice, 0) /\ told = <<>>
  /\ spreadHistory = <<>>

MinutePasses ==
  /\ minute < MaxMinute /\ minute' = minute + 1
  /\ UNCHANGED <<candles, currentCandle, spreadHistory, told>>

Newest(s, limit) == IF Len(s) > limit THEN Tail(s) ELSE s

\* Mutant of Widened: the high of a candle stays that of its first trade.
WidenedDown(c, t) ==
  [c EXCEPT !.low = Min({@, t.price}), !.close = t.price, !.volume = @ + t.quantity]
\* A trade in the minute of the candle.
Widened(c, t) ==
  [time |-> c.time, open |-> c.open, high |-> Max({c.high, t.price}), low |-> Min({c.low, t.price}),
   close |-> t.price, volume |-> c.volume + t.quantity]

\* _updateCandle, for one trade.
Updated(sim, t) ==
  IF minute > sim.current.time
  THEN [closed |-> Newest(Append(sim.closed, sim.current), MaxCandles),
        current |-> Candle(minute, t.price, t.quantity)]
  ELSE [closed |-> sim.closed, current |-> Widened(sim.current, t)]

\* trades.forEach(t => _updateCandle(t.price, t.quantity))
UpdateCandles(trades) ==
  LET after[i \in 0..Len(trades)] ==
        IF i = 0 THEN [closed |-> candles, current |-> currentCandle]
        ELSE Updated(after[i - 1], trades[i])
      end == after[Len(trades)]
  IN /\ candles' = end.closed /\ currentCandle' = end.current
     /\ told' = told \o [i \in DOMAIN trades |-> [time |-> minute, price |-> trades[i].price,
                                                  quantity |-> trades[i].quantity]]
     /\ UNCHANGED minute

\* The end of a tick: the spread of the first level of both sides, when both show
\* one (points has one element or none).
RecordSpread(points) ==
  spreadHistory' = IF points = {} THEN spreadHistory
                   ELSE Newest(Append(spreadHistory, CHOOSE p \in points : TRUE), MaxSpreads)

-----------------------------------------------------------------------------
\* Every candle is the summary of the trades of its minute (the first one also of
\* the price it begins with), and of the minutes with trades the newest are kept
\* (_initCandle, _updateCandle).
CandlesSummarise ==
  LET all == Append(candles, currentCandle)
      TradesAt(t) == {i \in DOMAIN told : told[i].time = t}
      Minutes == {0} \cup {told[i].time : i \in DOMAIN told}
  IN /\ {all[i].time : i \in DOMAIN all} \subseteq Minutes
     /\ Len(all) = Min({Cardinality(Minutes), MaxCandles + 1})
     /\ \A i \in DOMAIN all :
          LET c == all[i]
              at == TradesAt(c.time)
              begin == IF c.time = 0 THEN {InitialPrice} ELSE {}
              prices == begin \cup {told[j].price : j \in at}
          IN /\ i > 1 => all[i - 1].time < c.time
             /\ \A t \in Minutes : t > c.time => i < Len(all)
             /\ c.high = Max(prices) /\ c.low = Min(prices)
             /\ c.volume = SumFunctionOnSet([j \in at |-> told[j].quantity], at)
             /\ c.open = IF begin # {} THEN InitialPrice ELSE told[Min(at)].price
             /\ c.close = IF at # {} THEN told[Max(at)].price ELSE InitialPrice
=============================================================================
