------------------------------ MODULE P2PNode -------------------------------
(***************************************************************************)
(* The gossip nodes of packages/p2p-network: libp2p/node.ts with           *)
(* storage/orderStore.ts and protocols/gossip.ts, joined by a network that *)
(* loses, delays, reorders and repeats messages.  Who is connected to whom *)
(* is part of what gets lost.                                              *)
(*                                                                         *)
(* An order is its id: its payload is never changed on the way.  The id of *)
(* a message is a hash of its type and payload, so it is the message: who  *)
(* sent it is no part of it.                                               *)
(***************************************************************************)
EXTENDS Naturals, FiniteSets, Sequences, SequencesExt

CONSTANTS
  Nodes, Orders,
  Expiring,   \* orders that expire
  Cancels,    \* orders somebody may cancel
  Fills,      \* fills somebody may report: sets of orders
  Syncs,      \* what a sync may ask for: sets of orders
  MaxSeen,    \* MAX_SEEN
  RateLimit,  \* messages of a peer handled in one second
  MaxRepeats, \* bound: repeated deliveries
  MaxResets   \* bound: seconds that end

NewOrder(o) == [type |-> "NEW_ORDER", orders |-> {o}]
CancelOf(o) == [type |-> "CANCEL_ORDER", orders |-> {o}]
FillOf(f) == [type |-> "ORDER_FILL", orders |-> f]
SyncFor(w) == [type |-> "SYNC_REQUEST", orders |-> w]
Messages == {NewOrder(o) : o \in Orders} \cup {CancelOf(o) : o \in Cancels}
            \cup {FillOf(f) : f \in Fills} \cup {SyncFor(w) : w \in Syncs}

ASSUME NodeAssumption ==
  /\ Expiring \subseteq Orders /\ Cancels \subseteq Orders
  /\ Fills \subseteq SUBSET Orders /\ Syncs \subseteq SUBSET Orders
  /\ MaxSeen \in Nat \ {0} /\ RateLimit \in Nat \ {0}
  /\ MaxRepeats \in Nat /\ MaxResets \in Nat

VARIABLES
  node,         \* "none", "built" (start has not made libp2p), "up" or "dead"
  store,        \* the orders a node knows
  seen,         \* seenMsgIds in order of insertion
  peerMsgCount, \* the messages of this second, by peer
  wire,         \* messages on their way
  expired,      \* orders past their expiry
  repeats, resets, \* so far
  said,         \* messages users of a node have made it publish, each once
  marked        \* history: every message a node marked as seen

nodeVars == <<node, store, seen, peerMsgCount, wire, expired, repeats, resets, said, marked>>

NodeInit(state) ==
  /\ node = state
  /\ store = [n \in Nodes |-> {}] /\ seen = [n \in Nodes |-> <<>>]
  /\ peerMsgCount = [n \in Nodes |-> [p \in Nodes |-> 0]]
  /\ wire = {} /\ marked = [n \in Nodes |-> <<>>]
  /\ expired = {} /\ repeats = 0 /\ resets = 0 /\ said = {}

-----------------------------------------------------------------------------
hasSeen(n, m) == Contains(seen[n], m)
\* Mutant of markSeen: the newest entry is evicted.
markSeenEvictsNewest(n, m) ==
  Append(IF Len(seen[n]) >= MaxSeen THEN Front(seen[n]) ELSE seen[n], m)
\* At the limit the entry that was inserted first goes.
markSeen(n, m) ==
  Append(IF Len(seen[n]) >= MaxSeen THEN Tail(seen[n]) ELSE seen[n], m)

\* getSince: the stored orders a sync asks for.
getSince(n, m) == store[n] \cap m.orders

\* What of validateOrder can change while an order is on its way.
validateOrder(o) == o \notin expired

\* publish: floodPublish sends to every subscriber, emitSelf is off.
Publish(n, ms) == [msg : ms, from : {n}, to : {p \in Nodes \ {n} : node[p] = "up"}]

-----------------------------------------------------------------------------
\* start: the object is there before libp2p is.
Becomes(n, before, after) ==
  /\ node[n] \in before /\ node' = [node EXCEPT ![n] = after]
  /\ UNCHANGED <<store, seen, peerMsgCount, wire, expired, repeats, resets, said, marked>>

Build(n) == Becomes(n, {"none"}, "built")
Listen(n) == Becomes(n, {"built"}, "up")
ListenFails(n) == Becomes(n, {"built"}, "failed")
\* stop, or the end of the process.
Stop(n) == Becomes(n, {"none", "built", "failed", "up"}, "dead")

\* broadcastOrder of a valid order: it is stored and published; peerId() throws
\* before both while there is no libp2p.  The message is not marked as seen at
\* its own node.
BroadcastOrder(n, o) ==
  /\ validateOrder(o)
  /\ IF node[n] # "up" THEN UNCHANGED <<store, wire>>
     ELSE /\ store' = [store EXCEPT ![n] = @ \cup {o}]
          /\ wire' = wire \cup Publish(n, {NewOrder(o)})
  /\ said' = said \cup {NewOrder(o)}
  /\ UNCHANGED <<node, seen, peerMsgCount, expired, repeats, resets, marked>>

\* broadcastCancel, broadcastFill, requestSync: the own store is left alone.
Broadcast(n, m) ==
  /\ node[n] = "up" /\ m \notin said /\ said' = said \cup {m}
  /\ wire' = wire \cup Publish(n, {m})
  /\ UNCHANGED <<node, store, seen, peerMsgCount, expired, repeats, resets, marked>>

BroadcastCancel(n) == \E o \in Cancels : Broadcast(n, CancelOf(o))
BroadcastFill(n) == \E f \in Fills : Broadcast(n, FillOf(f))
RequestSync(n) == \E w \in Syncs : Broadcast(n, SyncFor(w))

\* _handleInbound up to the switch: is the message dropped by the limit, which
\* is counted before duplicates are recognised, or as one already seen?
Refused(n, p) == peerMsgCount[n][p.from] >= RateLimit \/ hasSeen(n, p.msg)

\* The effect on the store, by topic; an invalid order is dropped.
Stored(n, m) ==
  IF m.type = "NEW_ORDER" THEN store[n] \cup {o \in m.orders : validateOrder(o)}
  ELSE IF m.type = "SYNC_REQUEST" THEN store[n] ELSE store[n] \ m.orders

\* The answer to a sync: every stored order asked for is broadcast again.
Answer(n, m) ==
  IF m.type # "SYNC_REQUEST" THEN {}
  ELSE Publish(n, {NewOrder(o) : o \in {o \in getSince(n, m) : validateOrder(o)}})

\* _handleInbound; the network may deliver the message again.
Receive(n, p, again) ==
  /\ node[n] = "up" /\ p \in wire /\ p.to = n
  /\ again => repeats < MaxRepeats
  /\ repeats' = IF again THEN repeats + 1 ELSE repeats
  /\ peerMsgCount' = [peerMsgCount EXCEPT ![n][p.from] = @ + 1]
  /\ LET rest == IF again THEN wire ELSE wire \ {p} IN
     IF Refused(n, p) THEN wire' = rest /\ UNCHANGED <<store, seen, marked>>
     ELSE /\ seen' = [seen EXCEPT ![n] = markSeen(n, p.msg)]
          /\ marked' = [marked EXCEPT ![n] = Append(@, p.msg)]
          /\ store' = [store EXCEPT ![n] = Stored(n, p.msg)]
          /\ wire' = rest \cup Answer(n, p.msg)
  /\ UNCHANGED <<node, expired, resets, said>>

\* Does the callback of the worker get the message?  Fills have no callback.
CalledBack(n, p) ==
  /\ ~Refused(n, p)
  /\ \/ p.msg.type = "CANCEL_ORDER"
     \/ p.msg.type = "NEW_ORDER" /\ \A o \in p.msg.orders : validateOrder(o)

\* The timer of _startRateLimitReset.
ResetRates(n) ==
  /\ node[n] = "up" /\ resets < MaxResets
  /\ peerMsgCount' = [peerMsgCount EXCEPT ![n] = [p \in Nodes |-> 0]]
  /\ resets' = resets + 1
  /\ UNCHANGED <<node, store, seen, wire, expired, repeats, said, marked>>

\* The network loses a message; an order expires.
Lose(p) ==
  /\ p \in wire /\ wire' = wire \ {p}
  /\ UNCHANGED <<node, store, seen, peerMsgCount, expired, repeats, resets, said, marked>>

Expire(o) ==
  /\ o \in Expiring \ expired /\ expired' = expired \cup {o}
  /\ UNCHANGED <<node, store, seen, peerMsgCount, wire, repeats, resets, said, marked>>

-----------------------------------------------------------------------------
\* A node takes a message up again only after it has taken up as many others
\* as the cache of seen ids holds, however often peers publish it (hasSeen,
\* markSeen, _handleInbound).
HandedOnce ==
  \A n \in Nodes : \A i, j \in DOMAIN marked[n] :
    i < j /\ marked[n][i] = marked[n][j] =>
      Cardinality({marked[n][k] : k \in i + 1 .. j - 1}) >= MaxSeen
=============================================================================
