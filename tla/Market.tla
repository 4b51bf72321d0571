------------------------------- MODULE Market -------------------------------
(***************************************************************************)
(* What every matching of orders in this repository promises, whatever its *)
(* queues, prices and steps are: an order is accepted once, its terms      *)
(* never change, a trade is between a live buy and a live sell whose       *)
(* limits meet, no order is filled beyond its quantity, a full order is no *)
(* longer live, and one that has left never trades again.                  *)
(*                                                                         *)
(* MatchingEngine, OrderBookContract and FormerEngine implement it.        *)
(***************************************************************************)
EXTENDS Integers

VARIABLES
  terms,   \* the orders accepted: side, price, quantity
  filled,  \* how much of each is traded
  live     \* those that may still trade

vars == <<terms, filled, live>>

\* A market may open with orders that rest.
Init ==
  /\ filled = [o \in DOMAIN terms |-> 0]
  /\ live = DOMAIN terms

Accept ==
  \E o \in DOMAIN terms' :
    /\ o \notin DOMAIN terms /\ DOMAIN terms' = DOMAIN terms \cup {o}
    /\ \A x \in DOMAIN terms : terms'[x] = terms[x]
    /\ filled' = [x \in DOMAIN terms' |-> IF x = o THEN 0 ELSE filled[x]]
    /\ live' = live \cup {o}

Trade(b, s) ==
  LET q == filled'[b] - filled[b] IN
  /\ {b, s} \subseteq live
  /\ terms[b].side = "buy" /\ terms[s].side = "sell"
  /\ terms[s].price <= terms[b].price
  /\ q > 0
  /\ filled' = [filled EXCEPT ![b] = @ + q, ![s] = @ + q]
  /\ \A o \in {b, s} : filled'[o] <= terms[o].quantity
  /\ live' = live \ {o \in {b, s} : filled'[o] = terms[o].quantity}
  /\ UNCHANGED terms

\* Cancelled, expired, or the rest of a market order.
Retire ==
  /\ live' \subseteq live
  /\ UNCHANGED <<terms, filled>>

Next == Accept \/ Retire \/ \E b, s \in live : Trade(b, s)

Spec == Init /\ [][Next]_vars
=============================================================================
