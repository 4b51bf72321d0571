-------------------------- MODULE P2PBridge_proofs --------------------------
(***************************************************************************)
(* What is proved of the bridge and of the gossip nodes behind it, for any *)
(* number of servers, nodes, orders and calls: the types, that an order is *)
(* never relayed twice, and how often a node can take up the same message. *)
(***************************************************************************)
EXTENDS P2PBridge, FiniteSetTheorems, TLAPS

-----------------------------------------------------------------------------
(* The cache of seen messages *)

\* The sequence of seen messages s is the end of everything marked, r: all of it
\* until the limit is reached.
IsEndOf(s, r) ==
  /\ Len(s) <= MaxSeen /\ Len(s) <= Len(r)
  /\ Len(s) < MaxSeen => Len(s) = Len(r)
  /\ \A k \in 1..Len(s) : s[k] = r[Len(r) - Len(s) + k]

\* No message is marked twice within MaxSeen marks.
Spread(r) == \A i, j \in DOMAIN r : i < j /\ j <= i + MaxSeen => r[i] # r[j]

\* What markSeen makes of a cache.
Marked(s, m) == Append(IF Len(s) >= MaxSeen THEN Tail(s) ELSE s, m)

\* The cache stays the end of what was marked (markSeen).
LEMMA MarkedIsEnd ==
  ASSUME NEW S, NEW s \in Seq(S), NEW r \in Seq(S), NEW m \in S, IsEndOf(s, r)
  PROVE  Marked(s, m) \in Seq(S) /\ IsEndOf(Marked(s, m), Append(r, m))
  <1>1. MaxSeen \in Nat /\ MaxSeen >= 1
    BY NodeAssumption
  <1>2. Len(s) \in Nat /\ Len(r) \in Nat /\ Len(Append(r, m)) = Len(r) + 1
    OBVIOUS
  <1>3. CASE Len(s) >= MaxSeen
    <2>1. Len(s) = MaxSeen
      BY <1>1, <1>2, <1>3 DEF IsEndOf
    <2>2. /\ Tail(s) \in Seq(S) /\ Len(Tail(s)) = Len(s) - 1
          /\ \A k \in 1 .. Len(s) - 1 : Tail(s)[k] = s[k + 1]
      BY <1>1, <1>2, <2>1
    <2>3. Marked(s, m) = Append(Tail(s), m)
      BY <1>3 DEF Marked
    <2>4. Marked(s, m) \in Seq(S) /\ Len(Marked(s, m)) = MaxSeen
      BY <1>1, <2>1, <2>2, <2>3
    <2>5. ASSUME NEW k \in 1..MaxSeen
          PROVE  Marked(s, m)[k] = Append(r, m)[Len(r) + 1 - MaxSeen + k]
      <3>1. CASE k = MaxSeen
        <4>1. Marked(s, m)[k] = m
          BY <1>1, <2>1, <2>2, <2>3, <3>1
        <4>2. Len(r) + 1 - MaxSeen + k = Len(r) + 1
          BY <1>1, <1>2, <3>1
        <4>3. QED
          BY <1>2, <4>1, <4>2
      <3>2. CASE k < MaxSeen
        <4>1. k \in 1 .. Len(s) - 1 /\ k + 1 \in 1 .. Len(s)
          BY <1>1, <2>1, <3>2
        <4>2. Marked(s, m)[k] = Tail(s)[k]
          BY <2>2, <2>3, <4>1
        <4>3. Tail(s)[k] = s[k + 1]
          BY <2>2, <4>1
        <4>4. s[k + 1] = r[Len(r) - Len(s) + (k + 1)]
          BY <4>1 DEF IsEndOf
        <4>5. Len(r) - Len(s) + (k + 1) = Len(r) + 1 - MaxSeen + k
          BY <1>1, <1>2, <2>1
        <4>6. Len(r) + 1 - MaxSeen + k \in 1 .. Len(r)
          BY <1>1, <1>2, <2>1, <3>2 DEF IsEndOf
        <4>7. Append(r, m)[Len(r) + 1 - MaxSeen + k] = r[Len(r) + 1 - MaxSeen + k]
          BY <4>6
        <4>8. QED
          BY <4>2, <4>3, <4>4, <4>5, <4>7
      <3>3. k = MaxSeen \/ k < MaxSeen
        BY <1>1
      <3>4. QED
        BY Zenon, <3>1, <3>2, <3>3
    <2>6. MaxSeen <= Len(r) + 1
      BY <1>1, <1>2, <2>1 DEF IsEndOf
    <2>7. IsEndOf(Marked(s, m), Append(r, m))
      <3>1. Len(Append(r, m)) - Len(Marked(s, m)) = Len(r) + 1 - MaxSeen
        BY <1>2, <2>4
      <3>2. \A k \in 1..Len(Marked(s, m)) :
              Marked(s, m)[k] = Append(r, m)[Len(Append(r, m)) - Len(Marked(s, m)) + k]
        BY Zenon, <2>4, <2>5, <3>1
      <3>3. /\ Len(Marked(s, m)) <= MaxSeen /\ Len(Marked(s, m)) <= Len(Append(r, m))
            /\ ~(Len(Marked(s, m)) < MaxSeen)
        BY <1>1, <1>2, <2>4, <2>6
      <3>4. QED
        BY Zenon, <3>2, <3>3 DEF IsEndOf
    <2>8. QED
      BY <2>4, <2>7
  <1>4. CASE Len(s) < MaxSeen
    <2>1. Len(s) = Len(r)
      BY <1>4 DEF IsEndOf
    <2>2. Marked(s, m) = Append(s, m)
      BY <1>1, <1>2, <1>4 DEF Marked
    <2>3. Marked(s, m) \in Seq(S) /\ Len(Marked(s, m)) = Len(r) + 1
      BY <2>1, <2>2
    <2>4. \A k \in 1..Len(r) : s[k] = r[k]
      <3> SUFFICES ASSUME NEW k \in 1..Len(r) PROVE s[k] = r[k]
        OBVIOUS
      <3>1. s[k] = r[Len(r) - Len(s) + k]
        BY <2>1 DEF IsEndOf
      <3>2. Len(r) - Len(s) + k = k
        BY <1>2, <2>1
      <3>3. QED
        BY <3>1, <3>2
    <2>5. \A k \in 1 .. Len(r) + 1 : Marked(s, m)[k] = Append(r, m)[k]
      BY <1>2, <2>1, <2>2, <2>4
    <2>6. QED
      BY <1>1, <1>2, <1>4, <2>1, <2>3, <2>5 DEF IsEndOf
  <1>5. QED
    BY <1>1, <1>2, <1>3, <1>4

\* What is not in the cache was not marked within the last MaxSeen marks (hasSeen).
LEMMA MarkedIsSpread ==
  ASSUME NEW S, NEW s \in Seq(S), NEW r \in Seq(S), NEW m \in S, IsEndOf(s, r), Spread(r),
         \A k \in 1..Len(s) : s[k] # m
  PROVE  Spread(Append(r, m))
  <1>1. MaxSeen \in Nat /\ MaxSeen >= 1
    BY NodeAssumption
  <1>2. Len(s) \in Nat /\ Len(r) \in Nat /\ DOMAIN Append(r, m) = 1 .. Len(r) + 1 /\ DOMAIN r = 1 .. Len(r)
    OBVIOUS
  <1> SUFFICES ASSUME NEW i \in 1 .. Len(r) + 1, NEW j \in 1 .. Len(r) + 1, i < j, j <= i + MaxSeen
               PROVE  Append(r, m)[i] # Append(r, m)[j]
    BY <1>2 DEF Spread
  <1>3. i \in 1 .. Len(r) /\ Append(r, m)[i] = r[i]
    BY <1>2
  <1>4. CASE j <= Len(r)
    <2>1. j \in 1 .. Len(r) /\ Append(r, m)[j] = r[j]
      BY <1>2, <1>4
    <2>2. r[i] # r[j]
      BY <1>2, <1>3, <2>1 DEF Spread
    <2>3. QED
      BY <1>3, <2>1, <2>2
  <1>5. CASE j = Len(r) + 1
    <2>1. Append(r, m)[j] = m
      BY <1>2, <1>5
    <2> DEFINE k == i - Len(r) + Len(s)
    <2>2. k \in 1 .. Len(s) /\ Len(r) - Len(s) + k = i
      BY <1>1, <1>2, <1>3, <1>5 DEF IsEndOf
    <2>3. s[k] = r[i]
      BY <2>2 DEF IsEndOf
    <2>4. QED
      BY <1>3, <2>1, <2>2, <2>3
  <1>6. QED
    BY <1>2, <1>4, <1>5

\* Between two marks of the same message lie as many others as the cache holds.
LEMMA SpreadApart ==
  ASSUME NEW S, NEW r \in Seq(S), Spread(r), NEW i \in DOMAIN r, NEW j \in DOMAIN r,
         i < j, r[i] = r[j]
  PROVE  Cardinality({r[k] : k \in i + 1 .. j - 1}) >= MaxSeen
  <1>1. MaxSeen \in Nat /\ DOMAIN r = 1 .. Len(r) /\ Len(r) \in Nat /\ i \in Nat /\ j \in Nat
    BY NodeAssumption
  <1>2. i + MaxSeen < j
    BY <1>1 DEF Spread
  <1> DEFINE W == i + 1 .. i + MaxSeen
             A == {r[k] : k \in W}
             B == {r[k] : k \in i + 1 .. j - 1}
             f == [k \in W |-> r[k]]
             g == [k \in i + 1 .. j - 1 |-> r[k]]
  <1>3. IsFiniteSet(W) /\ Cardinality(W) = MaxSeen
    <2>1. i + 1 \in Int /\ i + MaxSeen \in Int
      BY <1>1
    <2>2. /\ IsFiniteSet(W)
          /\ Cardinality(W) = IF i + 1 > i + MaxSeen THEN 0 ELSE (i + MaxSeen) - (i + 1) + 1
      BY <2>1, FS_Interval
    <2>3. QED
      BY <1>1, <2>2
  <1>4. IsFiniteSet(i + 1 .. j - 1)
    <2>1. i + 1 \in Int /\ j - 1 \in Int
      BY <1>1
    <2>2. QED
      BY <2>1, FS_Interval
  <1>5. ASSUME NEW a \in W, NEW b \in W, a < b PROVE r[a] # r[b]
    BY <1>1, <1>2, <1>5 DEF Spread
  <1>6. \A a, b \in W : r[a] = r[b] => a = b
    BY <1>1, <1>5
  <1>7. f \in Bijection(W, A)
    BY <1>6 DEF Bijection, Injection, Surjection, IsInjective
  <1>8. IsFiniteSet(A) /\ Cardinality(A) = MaxSeen
    <2> HIDE DEF f, A, W
    <2>1. ExistsBijection(W, A)
      BY <1>7 DEF ExistsBijection
    <2>2. QED
      BY <1>3, <2>1, FS_Bijection, FS_SameCardinalityBij
  <1>9. IsFiniteSet(B)
    <2>1. g \in Surjection(i + 1 .. j - 1, B)
      BY DEF Surjection
    <2> HIDE DEF g, B
    <2>2. QED
      BY <1>4, <2>1, FS_Surjection
  <1>10. A \subseteq B
    <2>1. W \subseteq i + 1 .. j - 1
      BY <1>1, <1>2
    <2>2. QED
      BY <2>1
  <1>11. Cardinality(A) <= Cardinality(B)
    <2> HIDE DEF A, B
    <2>1. QED
      BY <1>9, <1>10, FS_Subset
  <1>12. QED
    BY <1>1, <1>8, <1>9, <1>11, FS_CardinalityType

-----------------------------------------------------------------------------
(* The nodes *)

NodeTypeOK ==
  /\ node \in [Nodes -> {"none", "built", "failed", "up", "dead"}]
  /\ store \in [Nodes -> SUBSET Orders]
  /\ seen \in [Nodes -> Seq(Messages)] /\ marked \in [Nodes -> Seq(Messages)]
  /\ peerMsgCount \in [Nodes -> [Nodes -> Nat]]
  /\ wire \subseteq [msg : Messages, from : Nodes, to : Nodes]
  /\ expired \subseteq Expiring /\ said \subseteq Messages
  /\ repeats \in Nat /\ resets \in Nat

\* The cache of every node is the end of what the node marked, which is spread.
CacheInv == \A n \in Nodes : IsEndOf(seen[n], marked[n]) /\ Spread(marked[n])

NodeInv == NodeTypeOK /\ CacheInv

\* A step of one node that publishes, or of the network.
NodeStep ==
  \/ \E n \in Nodes :
       \/ Build(n) \/ Listen(n) \/ ListenFails(n) \/ Stop(n)
       \/ \E o \in Orders : BroadcastOrder(n, o)
       \/ BroadcastCancel(n) \/ BroadcastFill(n) \/ RequestSync(n)
       \/ \E p \in wire, again \in BOOLEAN : Receive(n, p, again)
       \/ ResetRates(n)
  \/ \E p \in wire : Lose(p)
  \/ \E o \in Expiring : Expire(o)

\* What a message holds.
LEMMA MessageShape ==
  ASSUME NEW m \in Messages
  PROVE  /\ m.orders \subseteq Orders
         /\ m.type \in {"NEW_ORDER", "CANCEL_ORDER"} => \E o \in Orders : m.orders = {o}
  <1>1. CASE \E o \in Orders : m = NewOrder(o)
    BY <1>1 DEF NewOrder
  <1>2. CASE \E o \in Cancels : m = CancelOf(o)
    BY <1>2, NodeAssumption DEF CancelOf
  <1>3. CASE \E f \in Fills : m = FillOf(f)
    BY <1>3, NodeAssumption DEF FillOf
  <1>4. CASE \E w \in Syncs : m = SyncFor(w)
    BY <1>4, NodeAssumption DEF SyncFor
  <1>5. QED
    BY <1>1, <1>2, <1>3, <1>4 DEF Messages

\* What is published goes to nodes of the network (publish).
LEMMA PublishedType ==
  ASSUME NEW n \in Nodes, NEW ms \in SUBSET Messages
  PROVE  Publish(n, ms) \subseteq [msg : Messages, from : Nodes, to : Nodes]
  <1>1. QED
    BY DEF Publish

\* The answer to a sync is published orders of the own store (_handleInbound).
LEMMA AnswerType ==
  ASSUME NodeTypeOK, NEW n \in Nodes, NEW m \in Messages
  PROVE  Answer(n, m) \subseteq [msg : Messages, from : Nodes, to : Nodes]
  <1>1. {NewOrder(o) : o \in {o \in getSince(n, m) : validateOrder(o)}} \in SUBSET Messages
    BY DEF NodeTypeOK, getSince, Messages
  <1>2. QED
    BY <1>1, PublishedType DEF Answer

\* Publishing leaves the caches alone and the types right.
LEMMA BroadcastKeeps ==
  ASSUME NodeInv, NEW n \in Nodes, NEW m \in Messages, Broadcast(n, m)
  PROVE  NodeInv'
  <1>1. NodeTypeOK'
    <2>1. Publish(n, {m}) \subseteq [msg : Messages, from : Nodes, to : Nodes]
      BY PublishedType
    <2>2. QED
      BY <2>1 DEF NodeInv, NodeTypeOK, Broadcast
  <1>2. CacheInv'
    BY DEF NodeInv, CacheInv, Broadcast
  <1>3. QED
    BY <1>1, <1>2 DEF NodeInv

\* So does publishing an order (broadcastOrder).
LEMMA BroadcastOrderKeeps ==
  ASSUME NodeInv, NEW n \in Nodes, NEW o \in Orders, BroadcastOrder(n, o)
  PROVE  NodeInv'
  <1>1. NodeTypeOK'
    <2>1. NewOrder(o) \in Messages
      BY DEF Messages
    <2>2. Publish(n, {NewOrder(o)}) \subseteq [msg : Messages, from : Nodes, to : Nodes]
      BY <2>1, PublishedType
    <2>3. store' \in [Nodes -> SUBSET Orders]
      <3>1. store \in [Nodes -> SUBSET Orders]
        BY DEF NodeInv, NodeTypeOK
      <3>2. store[n] \cup {o} \in SUBSET Orders
        BY <3>1
      <3>3. store' = store \/ store' = [store EXCEPT ![n] = store[n] \cup {o}]
        BY DEF BroadcastOrder
      <3>4. QED
        BY <3>1, <3>2, <3>3
    <2>4. wire' \subseteq [msg : Messages, from : Nodes, to : Nodes]
      <3>1. wire' \subseteq wire \cup Publish(n, {NewOrder(o)})
        BY DEF BroadcastOrder
      <3>2. QED
        BY <2>2, <3>1 DEF NodeInv, NodeTypeOK
    <2>5. QED
      BY <2>1, <2>3, <2>4 DEF NodeInv, NodeTypeOK, BroadcastOrder
  <1>2. CacheInv'
    BY DEF NodeInv, CacheInv, BroadcastOrder
  <1>3. QED
    BY <1>1, <1>2 DEF NodeInv

\* A message that is taken up is marked; one that is refused is not (_handleInbound).
LEMMA ReceiveKeeps ==
  ASSUME NodeInv, NEW n \in Nodes, NEW p \in wire, NEW again \in BOOLEAN, Receive(n, p, again)
  PROVE  NodeInv'
  <1>1. p \in [msg : Messages, from : Nodes, to : Nodes] /\ p.msg \in Messages /\ p.from \in Nodes
    BY DEF NodeInv, NodeTypeOK
  <1>2. /\ UNCHANGED <<node, expired, resets, said>> /\ repeats' \in Nat
        /\ peerMsgCount' \in [Nodes -> [Nodes -> Nat]]
    BY <1>1 DEF NodeInv, NodeTypeOK, Receive
  <1>3. CASE Refused(n, p)
    <2>1. UNCHANGED <<store, seen, marked>> /\ wire' \subseteq wire
      BY <1>3 DEF Receive
    <2>2. NodeTypeOK'
      BY <1>2, <2>1 DEF NodeInv, NodeTypeOK
    <2>3. CacheInv'
      BY <2>1 DEF NodeInv, CacheInv
    <2>4. QED
      BY <2>2, <2>3 DEF NodeInv
  <1>4. CASE ~Refused(n, p)
    <2>1. /\ seen' = [seen EXCEPT ![n] = Marked(seen[n], p.msg)]
          /\ marked' = [marked EXCEPT ![n] = Append(marked[n], p.msg)]
          /\ store' = [store EXCEPT ![n] = Stored(n, p.msg)]
          /\ wire' \subseteq wire \cup Answer(n, p.msg)
      BY <1>4 DEF Receive, markSeen, Marked
    <2>2. /\ seen[n] \in Seq(Messages) /\ marked[n] \in Seq(Messages)
          /\ IsEndOf(seen[n], marked[n]) /\ Spread(marked[n])
      BY DEF NodeInv, NodeTypeOK, CacheInv
    <2>3. \A k \in 1 .. Len(seen[n]) : seen[n][k] # p.msg
      BY <1>4 DEF Refused, hasSeen, Contains
    <2>4. Marked(seen[n], p.msg) \in Seq(Messages) /\ IsEndOf(Marked(seen[n], p.msg), Append(marked[n], p.msg))
      BY <1>1, <2>2, MarkedIsEnd
    <2>5. Spread(Append(marked[n], p.msg))
      BY <1>1, <2>2, <2>3, MarkedIsSpread
    <2>6. Append(marked[n], p.msg) \in Seq(Messages)
      BY <1>1, <2>2
    <2>7. Stored(n, p.msg) \in SUBSET Orders
      BY <1>1, MessageShape DEF Stored, NodeInv, NodeTypeOK
    <2>8. Answer(n, p.msg) \subseteq [msg : Messages, from : Nodes, to : Nodes]
      BY <1>1, AnswerType DEF NodeInv
    <2>9. NodeTypeOK'
      <3>1. seen' \in [Nodes -> Seq(Messages)]
        BY <2>1, <2>4 DEF NodeInv, NodeTypeOK
      <3>2. marked' \in [Nodes -> Seq(Messages)]
        BY <2>1, <2>6 DEF NodeInv, NodeTypeOK
      <3>3. store' \in [Nodes -> SUBSET Orders] /\ wire' \subseteq [msg : Messages, from : Nodes, to : Nodes]
        BY <2>1, <2>7, <2>8 DEF NodeInv, NodeTypeOK
      <3>4. QED
        BY <1>2, <3>1, <3>2, <3>3 DEF NodeInv, NodeTypeOK
    <2>10. CacheInv'
      <3> SUFFICES ASSUME NEW q \in Nodes PROVE (IsEndOf(seen[q], marked[q]) /\ Spread(marked[q]))'
        BY DEF CacheInv
      <3>1. CASE q = n
        <4>1. seen'[q] = Marked(seen[n], p.msg) /\ marked'[q] = Append(marked[n], p.msg)
          BY <2>1, <3>1 DEF NodeInv, NodeTypeOK
        <4>2. IsEndOf(seen'[q], marked'[q]) /\ Spread(marked'[q])
          BY <2>4, <2>5, <4>1
        <4>3. QED
          BY <4>2 DEF IsEndOf, Spread
      <3>2. CASE q # n
        <4>1. seen'[q] = seen[q] /\ marked'[q] = marked[q]
          BY <2>1, <3>2 DEF NodeInv, NodeTypeOK
        <4>2. IsEndOf(seen'[q], marked'[q]) /\ Spread(marked'[q])
          BY <4>1 DEF NodeInv, CacheInv
        <4>3. QED
          BY <4>2 DEF IsEndOf, Spread
      <3>3. QED
        BY <3>1, <3>2
    <2>11. QED
      BY <2>9, <2>10 DEF NodeInv
  <1>5. QED
    BY <1>3, <1>4

\* Every step of a node or of the network keeps the types and the caches.
LEMMA NodeStepKeeps ==
  ASSUME NodeInv, NodeStep \/ UNCHANGED nodeVars
  PROVE  NodeInv'
  <1>1. CASE UNCHANGED nodeVars
    BY <1>1 DEF NodeInv, NodeTypeOK, CacheInv, nodeVars
  <1>2. ASSUME NEW n \in Nodes, Build(n) \/ Listen(n) \/ ListenFails(n) \/ Stop(n)
        PROVE  NodeInv'
    <2>1. /\ node' \in [Nodes -> {"none", "built", "failed", "up", "dead"}]
          /\ UNCHANGED <<store, seen, peerMsgCount, wire, expired, repeats, resets, said, marked>>
      BY <1>2 DEF Build, Listen, ListenFails, Stop, Becomes, NodeInv, NodeTypeOK
    <2>2. QED
      BY <2>1 DEF NodeInv, NodeTypeOK, CacheInv
  <1>3. ASSUME NEW n \in Nodes, BroadcastCancel(n) \/ BroadcastFill(n) \/ RequestSync(n)
        PROVE  NodeInv'
    <2>1. \E m \in Messages : Broadcast(n, m)
      BY <1>3 DEF BroadcastCancel, BroadcastFill, RequestSync, Messages
    <2>2. QED
      BY <2>1, BroadcastKeeps
  <1>4. ASSUME NEW n \in Nodes, ResetRates(n) PROVE NodeInv'
    BY <1>4 DEF ResetRates, NodeInv, NodeTypeOK, CacheInv
  <1>5. ASSUME NEW p \in wire, Lose(p) PROVE NodeInv'
    BY <1>5 DEF Lose, NodeInv, NodeTypeOK, CacheInv
  <1>6. ASSUME NEW o \in Expiring, Expire(o) PROVE NodeInv'
    BY <1>6 DEF Expire, NodeInv, NodeTypeOK, CacheInv
  <1>7. QED
    BY <1>1, <1>2, <1>3, <1>4, <1>5, <1>6, BroadcastOrderKeeps, ReceiveKeeps DEF NodeStep

-----------------------------------------------------------------------------
(* The bridge *)

\* What the pipes carry.
Relays == [type : {"BROADCAST_ORDER"}, order : Orders]
ForWorker == [type : {"START"}, order : {None}] \cup Relays
             \cup [type : {"ADDRS", "DIAL_OK"}, order : Calls]
ForApi == [type : {"NEW_ORDER", "CANCEL_ORDER"}, order : Orders]
          \cup [type : {"STARTED", "ERROR", "ADDRS", "DIAL_OK"}, order : {None}]

PipesOK ==
  /\ api \in [Servers -> {"off", "starting", "started", "ready", "without", "down"}]
  /\ toWorker \in [Servers -> Seq(ForWorker)] /\ toApi \in [Servers -> Seq(ForApi)]
  /\ receivedFromP2P \in [Servers -> SUBSET Orders]
  /\ placed \in [Servers -> [Orders -> Nat]]

CallsOK ==
  /\ call \in [Calls -> {"idle", "waiting", "ok", "error", "timeout"}]
  /\ handlers \subseteq Calls /\ dialing \subseteq Calls

\* What an API sent out was placed with it, by its user, and is sent once.
SentOnce(out, s, book) ==
  /\ IsInjective(out)
  /\ \A i \in DOMAIN out : Home[out[i].order] = s /\ book[out[i].order] > 0
SentInv ==
  /\ sent \in [Servers -> Seq(Relays)]
  /\ \A s \in Servers : SentOnce(sent[s], s, placed[s])

BridgeTypeOK == NodeTypeOK /\ PipesOK /\ CallsOK
BridgeInv == NodeInv /\ PipesOK /\ CallsOK /\ SentInv

\* What a book was given stays given.
LEMMA SentStays ==
  ASSUME NEW out \in Seq(Relays), NEW s,
         NEW b \in [Orders -> Nat], NEW c \in [Orders -> Nat], SentOnce(out, s, b),
         \A o \in Orders : c[o] >= b[o]
  PROVE  SentOnce(out, s, c)
  <1> SUFFICES ASSUME NEW i \in DOMAIN out PROVE Home[out[i].order] = s /\ c[out[i].order] > 0
    BY DEF SentOnce
  <1>1. out[i].order \in Orders
    <2>1. out[i] \in Relays
      OBVIOUS
    <2>2. QED
      BY <2>1 DEF Relays
  <1>2. Home[out[i].order] = s /\ b[out[i].order] > 0
    BY DEF SentOnce
  <1>3. QED
    BY <1>1, <1>2

\* An order that no book had before is new among what was sent (PlaceLocal).
LEMMA SentNew ==
  ASSUME NEW out \in Seq(Relays), NEW s,
         NEW b \in [Orders -> Nat], SentOnce(out, s, b),
         NEW o \in Orders, b[o] = 0, Home[o] = s,
         NEW c \in [Orders -> Nat], c = [b EXCEPT ![o] = 1]
  PROVE  SentOnce(Append(out, Msg("BROADCAST_ORDER", o)), s, c)
  <1> DEFINE m == Msg("BROADCAST_ORDER", o)
             new == Append(out, m)
             n == Len(out)
  <1>1. n \in Nat /\ DOMAIN new = 1 .. n + 1 /\ new[n + 1] = m /\ m.order = o
    BY DEF Msg
  <1>2. \A i \in 1 .. n : new[i] = out[i] /\ out[i].order \in Orders
    <2>1. \A i \in 1 .. n : new[i] = out[i] /\ out[i] \in Relays
      OBVIOUS
    <2>2. QED
      BY <2>1 DEF Relays
  <1>3. \A i \in 1 .. n : Home[out[i].order] = s /\ b[out[i].order] > 0 /\ out[i].order # o
    BY DEF SentOnce
  <1>4. \A i \in 1 .. n : new[i] # m
    BY <1>1, <1>2, <1>3
  <1>5. \A i, j \in 1 .. n : out[i] = out[j] => i = j
    BY DEF SentOnce, IsInjective
  <1> HIDE DEF new, n, m
  <1>6. IsInjective(new)
    <2> SUFFICES ASSUME NEW i \in 1 .. n + 1, NEW j \in 1 .. n + 1, new[i] = new[j] PROVE i = j
      BY <1>1 DEF IsInjective
    <2>1. (i \in 1 .. n \/ i = n + 1) /\ (j \in 1 .. n \/ j = n + 1)
      BY <1>1
    <2>2. QED
      BY <1>1, <1>2, <1>4, <1>5, <2>1
  <1>7. ASSUME NEW i \in 1 .. n + 1 PROVE Home[new[i].order] = s /\ c[new[i].order] > 0
    <2>1. i \in 1 .. n \/ i = n + 1
      BY <1>1
    <2>2. CASE i = n + 1
      BY <1>1, <2>2
    <2>3. CASE i \in 1 .. n
      <3>1. c[out[i].order] = b[out[i].order]
        BY <1>2, <1>3, <2>3
      <3>2. QED
        BY <1>2, <1>3, <2>3, <3>1
    <2>4. QED
      BY <2>1, <2>2, <2>3
  <1>8. SentOnce(new, s, c)
    BY <1>1, <1>6, <1>7 DEF SentOnce
  <1>9. QED
    BY <1>8 DEF new, m

\* The whole is right at the start.
LEMMA InitBridge == BridgeInit => BridgeInv
  <1> SUFFICES ASSUME BridgeInit PROVE BridgeInv
    OBVIOUS
  <1> PICK running \in SUBSET Direct : 
                NodeInit([n \in Nodes |-> IF n \in running THEN "up" ELSE "none"])
    BY DEF BridgeInit
  <1> USE DEF BridgeInit
  <1>1. NodeTypeOK
    BY DEF NodeInit, NodeTypeOK
  <1>2. CacheInv
    <2> SUFFICES ASSUME NEW n \in Nodes PROVE IsEndOf(<<>>, <<>>) /\ Spread(<<>>)
      BY DEF CacheInv, NodeInit
    <2>1. QED
      BY NodeAssumption DEF IsEndOf, Spread
  <1>3. PipesOK /\ CallsOK
    BY DEF PipesOK, CallsOK
  <1>4. SentInv
    BY DEF SentInv, SentOnce, IsInjective
  <1>5. QED
    BY <1>1, <1>2, <1>3, <1>4 DEF BridgeInv, NodeInv

\* A step of the bridge moves the nodes by one of their own steps, or not at all.
LEMMA BridgeMovesNodes ==
  ASSUME BridgeInv, BridgeNext
  PROVE  NodeStep \/ UNCHANGED nodeVars
  <1>1. ASSUME NEW s \in Servers, Start(s) \/ StartTimesOut(s) \/ SetHooks(s) \/ ApiReceives(s)
                                   \/ \E o \in Orders : PlaceLocal(s, o)
        PROVE  UNCHANGED nodeVars
    BY <1>1 DEF Start, StartTimesOut, SetHooks, ApiReceives, PlaceLocal
  <1>2. \A s \in Servers : s \in Nodes
    BY BridgeAssumption
  <1>3. ASSUME NEW s \in Servers, StopService(s) \/ WorkerStarted(s) \/ WorkerDies(s)
        PROVE  NodeStep
    BY <1>2, <1>3 DEF StopService, WorkerStarted, WorkerDies, NodeStep
  <1>4. ASSUME NEW s \in Servers, WorkerReceives(s)
        PROVE  NodeStep \/ UNCHANGED nodeVars
    <2> DEFINE m == Head(toWorker[s])
    <2>1. m \in ForWorker
      BY <1>4 DEF WorkerReceives, BridgeInv, PipesOK
    <2>2. CASE m.type = "START" /\ Build(s)
      BY <1>2, <2>2 DEF NodeStep
    <2>3. CASE m.type = "BROADCAST_ORDER" /\ BroadcastOrder(s, m.order)
      BY <1>2, <2>1, <2>3 DEF NodeStep, ForWorker, Relays
    <2>4. QED
      BY <1>4, <2>2, <2>3 DEF WorkerReceives
  <1>5. ASSUME NEW s \in Servers, NEW p \in wire, NEW again \in BOOLEAN, WorkerHears(s, p, again)
        PROVE  NodeStep
    BY <1>2, <1>5 DEF WorkerHears, NodeStep
  <1>6. ASSUME NEW c \in Calls, Request(c) \/ RequestTimesOut(c) \/ DialEnds(c)
        PROVE  UNCHANGED nodeVars
    BY <1>6 DEF Request, RequestTimesOut, DialEnds
  <1>7. ASSUME NEW n \in Direct, DirectStep(n)
        PROVE  NodeStep
    <2>1. n \in Nodes
      BY BridgeAssumption
    <2>2. QED
      BY <1>7, <2>1 DEF DirectStep, NodeStep
  <1>8. ASSUME Network
        PROVE  NodeStep
    BY <1>8 DEF Network, NodeStep
  <1>9. QED
    BY <1>1, <1>3, <1>4, <1>5, <1>6, <1>7, <1>8 DEF BridgeNext

\* What is sent to a worker, or by one, is of the kinds the pipes carry.
LEMMA SendType ==
  ASSUME PipesOK, NEW s \in Servers, NEW msgs \in Seq(ForWorker), Send(s, msgs)
  PROVE  /\ api' \in [Servers -> {"off", "starting", "started", "ready", "without", "down"}]
         /\ toWorker' \in [Servers -> Seq(ForWorker)]
  <1>1. toWorker[s] \o msgs \in Seq(ForWorker)
    BY DEF PipesOK
  <1>2. /\ api' = api \/ api' = [api EXCEPT ![s] = "down"]
        /\ toWorker' = toWorker \/ toWorker' = [toWorker EXCEPT ![s] = toWorker[s] \o msgs]
    BY DEF Send
  <1>3. QED
    BY <1>1, <1>2 DEF PipesOK

\* The type of what the gossip node answers.
LEMMA AnsweredType ==
  ASSUME PipesOK, NEW s \in Servers, NEW msgs \in Seq(ForApi), Answered(s, msgs)
  PROVE  toApi' \in [Servers -> Seq(ForApi)]
  <1>1. toApi[s] \o msgs \in Seq(ForApi)
    BY DEF PipesOK
  <1>2. QED
    BY <1>1 DEF PipesOK, Answered

\* The messages a worker makes up itself.
LEMMA ErrorType ==
  /\ Error \in Seq(ForApi) /\ <<>> \in Seq(ForApi)
  /\ \A t \in {"STARTED", "ADDRS", "DIAL_OK"} : <<Msg(t, None)>> \in Seq(ForApi)
  <1>1. \A t \in {"STARTED", "ERROR", "ADDRS", "DIAL_OK"} : Msg(t, None) \in ForApi
    BY DEF Msg, ForApi
  <1>2. QED
    BY <1>1 DEF Error

\* Placing relays a new order, once (PlaceLocal).
LEMMA PlaceKeeps ==
  ASSUME BridgeInv, NEW s \in Servers, NEW o \in Orders, PlaceLocal(s, o)
  PROVE  PipesOK' /\ CallsOK' /\ SentInv'
  <1> DEFINE m == Msg("BROADCAST_ORDER", o)
             out == IF Relayed(s, o, FALSE) THEN <<m>> ELSE <<>>
  <1>1. m \in ForWorker /\ m \in Relays
    BY DEF Msg, ForWorker, Relays
  <1>2. /\ placed[s][o] = 0 /\ Home[o] = s /\ placed' = [placed EXCEPT ![s][o] = 1]
        /\ Send(s, out) /\ sent' = [sent EXCEPT ![s] = sent[s] \o out]
        /\ UNCHANGED <<toApi, receivedFromP2P, callVars>>
    BY DEF PlaceLocal, Relay
  <1>3. out \in Seq(ForWorker)
    <2>1. <<m>> \in Seq(ForWorker) /\ <<>> \in Seq(ForWorker)
      BY <1>1
    <2>2. QED
      BY <2>1
  <1>4. placed \in [Servers -> [Orders -> Nat]] /\ placed' \in [Servers -> [Orders -> Nat]]
    BY <1>2 DEF BridgeInv, PipesOK
  <1>5. PipesOK'
    BY <1>2, <1>3, <1>4, SendType DEF BridgeInv, PipesOK
  <1>6. CallsOK'
    BY <1>2 DEF BridgeInv, CallsOK, callVars
  <1>7. /\ sent[s] \in Seq(Relays)
        /\ sent \in [Servers -> Seq(Relays)]
        /\ \A q \in Servers : SentOnce(sent[q], q, placed[q])
    BY DEF BridgeInv, SentInv
  <1>8. placed[s] \in [Orders -> Nat] /\ placed'[s] \in [Orders -> Nat] /\ placed'[s] = [placed[s] EXCEPT ![o] = 1]
    BY <1>2, <1>4
  <1>9. sent[s] \o out = sent[s] \/ sent[s] \o out = Append(sent[s], m)
    <2>1. out = <<>> \/ out = <<m>>
      OBVIOUS
    <2> HIDE DEF out, m
    <2>2. sent[s] \o <<>> = sent[s] /\ sent[s] \o <<m>> = Append(sent[s], m)
      BY <1>1, <1>7
    <2>3. QED
      BY <2>1, <2>2
  <1>10. /\ sent[s] \o out \in Seq(Relays)
         /\ SentOnce(sent[s] \o out, s, placed'[s])
    <2>1. SentOnce(sent[s], s, placed[s])
      BY <1>7
    <2>2. CASE sent[s] \o out = sent[s]
      <3>1. \A p \in Orders : placed'[s][p] >= placed[s][p]
        BY <1>2, <1>8
      <3>2. SentOnce(sent[s], s, placed'[s])
        BY <1>7, <1>8, <2>1, <3>1, SentStays
      <3>3. QED
        BY <1>7, <2>2, <3>2
    <2>3. CASE sent[s] \o out = Append(sent[s], m)
      <3>1. SentOnce(Append(sent[s], m), s, placed'[s])
        BY <1>2, <1>7, <1>8, <2>1, SentNew
      <3>2. Append(sent[s], m) \in Seq(Relays)
        BY <1>1, <1>7
      <3>3. QED
        BY <2>3, <3>1, <3>2
    <2>4. QED
      BY <1>9, <2>2, <2>3
  <1> HIDE DEF out, m
  <1>11. sent' \in [Servers -> Seq(Relays)]
    BY <1>2, <1>7, <1>10
  <1>12. ASSUME NEW q \in Servers PROVE SentOnce(sent'[q], q, placed'[q])
    <2>1. CASE q = s
      <3>1. sent'[q] = sent[s] \o out
        BY <1>2, <1>7, <2>1
      <3>2. QED
        BY <1>10, <2>1, <3>1
    <2>2. CASE q # s
      <3>1. sent'[q] = sent[q] /\ placed'[q] = placed[q]
        BY <1>2, <1>4, <1>7, <2>2
      <3>2. QED
        BY <1>7, <3>1
    <2>3. QED
      BY <2>1, <2>2
  <1>13. SentInv'
    BY <1>11, <1>12 DEF SentInv, SentOnce
  <1>14. QED
    BY <1>5, <1>6, <1>13

\* A message of a worker never makes the API send: what came in is not relayed
\* (the handlers of p2p.service.ts, the hook of main.ts).
LEMMA ApiReceivesKeeps ==
  ASSUME BridgeInv, NEW s \in Servers, ApiReceives(s)
  PROVE  PipesOK' /\ CallsOK' /\ SentInv'
  <1> DEFINE m == Head(toApi[s])
  <1>1. /\ toApi \in [Servers -> Seq(ForApi)] /\ toApi[s] # <<>>
        /\ m \in ForApi /\ Tail(toApi[s]) \in Seq(ForApi)
    BY DEF ApiReceives, BridgeInv, PipesOK
  <1>2. toApi' = [toApi EXCEPT ![s] = Tail(toApi[s])]
    BY DEF ApiReceives
  <1>3. m.type = "NEW_ORDER" => m.order \in Orders
    BY <1>1 DEF ForApi
  <1>4. receivedFromP2P' \in [Servers -> SUBSET Orders]
    <2>1. receivedFromP2P \in [Servers -> SUBSET Orders]
      BY DEF BridgeInv, PipesOK
    <2>2. m.type = "NEW_ORDER" => receivedFromP2P[s] \cup {m.order} \in SUBSET Orders
      BY <1>3, <2>1
    <2>3. receivedFromP2P' = IF m.type = "NEW_ORDER"
                             THEN [receivedFromP2P EXCEPT ![s] = receivedFromP2P[s] \cup {m.order}]
                             ELSE receivedFromP2P
      BY DEF ApiReceives
    <2>4. QED
      BY <2>1, <2>2, <2>3
  <1>5. ASSUME NEW o, Relay(s, o, TRUE)
        PROVE  sent' = sent /\ Send(s, <<>>)
    <2>1. ~Relayed(s, o, TRUE)
      BY DEF Relayed
    <2>2. sent \in [Servers -> Seq(Relays)]
      BY DEF BridgeInv, SentInv
    <2>3. sent[s] \in Seq(Relays)
      BY <2>2
    <2>4. Send(s, <<>>) /\ sent' = [sent EXCEPT ![s] = sent[s] \o <<>>]
      BY <1>5, <2>1 DEF Relay
    <2>5. QED
      BY <2>2, <2>3, <2>4
  <1>6. /\ sent' = sent
        /\ \/ placed' = placed
           \/ m.order \in Orders /\ placed' = [placed EXCEPT ![s][m.order] = @ + 1]
        /\ api' \in [Servers -> {"off", "starting", "started", "ready", "without", "down"}]
        /\ toWorker' \in [Servers -> Seq(ForWorker)]
    <2>1. CASE Applied(s, m)
      <3>1. placed' = [placed EXCEPT ![s][m.order] = @ + 1] /\ Relay(s, m.order, TRUE)
        BY <2>1 DEF ApiReceives
      <3>2. m.order \in Orders
        BY <1>3, <2>1 DEF Applied
      <3>3. sent' = sent /\ Send(s, <<>>)
        BY <1>5, <3>1
      <3>4. <<>> \in Seq(ForWorker)
        OBVIOUS
      <3>5. QED
        BY <3>1, <3>2, <3>3, <3>4, SendType DEF BridgeInv
    <2>2. CASE ~Applied(s, m)
      <3>1. /\ UNCHANGED <<placed, sent, toWorker>>
            /\ \/ api' = api
               \/ api' = [api EXCEPT ![s] = "started"]
               \/ api' = [api EXCEPT ![s] = "without"]
        BY <2>2 DEF ApiReceives
      <3>2. QED
        BY <3>1 DEF BridgeInv, PipesOK
    <2>3. QED
      BY <2>1, <2>2
  <1>7. /\ placed' \in [Servers -> [Orders -> Nat]]
        /\ \A q \in Servers : \A o \in Orders : placed'[q][o] >= placed[q][o]
    <2>1. placed \in [Servers -> [Orders -> Nat]]
      BY DEF BridgeInv, PipesOK
    <2>2. CASE placed' = placed
      BY <2>1, <2>2
    <2>3. CASE m.order \in Orders /\ placed' = [placed EXCEPT ![s][m.order] = @ + 1]
      <3> HIDE DEF m
      <3>1. /\ placed'[s] = [placed[s] EXCEPT ![m.order] = placed[s][m.order] + 1]
            /\ \A q \in Servers \ {s} : placed'[q] = placed[q]
            /\ placed[s] \in [Orders -> Nat] /\ placed[s][m.order] \in Nat
        BY <2>1, <2>3
      <3>2. /\ placed'[s] \in [Orders -> Nat]
            /\ \A o \in Orders : placed'[s][o] >= placed[s][o]
        BY <2>3, <3>1
      <3>3. placed' \in [Servers -> [Orders -> Nat]]
        BY <2>1, <2>3
      <3>4. ASSUME NEW q \in Servers, NEW o \in Orders PROVE placed'[q][o] >= placed[q][o]
        <4>1. CASE q = s
          BY <3>2, <4>1
        <4>2. CASE q # s
          <5>1. placed'[q] = placed[q] /\ placed[q][o] \in Nat
            BY <2>1, <3>1, <4>2
          <5>2. QED
            BY <5>1
        <4>3. QED
          BY <4>1, <4>2
      <3>5. QED
        BY <3>3, <3>4
    <2>4. QED
      BY <1>6, <2>2, <2>3
  <1>8. PipesOK'
    <2>1. toApi' \in [Servers -> Seq(ForApi)]
      BY <1>1, <1>2
    <2>2. QED
      BY <1>4, <1>6, <1>7, <2>1 DEF PipesOK
  <1>9. CallsOK'
    <2>1. handlers' \subseteq handlers /\ dialing' = dialing
      BY DEF ApiReceives
    <2>2. call' = [c \in Calls |-> IF c \in Concerned(s, m.type) /\ call[c] = "waiting"
                                   THEN (IF m.type = "ERROR" THEN "error" ELSE "ok") ELSE call[c]]
      BY DEF ApiReceives
    <2>3. QED
      BY <2>1, <2>2 DEF BridgeInv, CallsOK
  <1>10. SentInv'
    <2>1. /\ sent \in [Servers -> Seq(Relays)]
          /\ placed \in [Servers -> [Orders -> Nat]]
          /\ \A q \in Servers : SentOnce(sent[q], q, placed[q])
      BY DEF BridgeInv, SentInv, PipesOK
    <2>2. ASSUME NEW q \in Servers PROVE SentOnce(sent[q], q, placed'[q])
      <3>1. /\ sent[q] \in Seq(Relays)
            /\ placed[q] \in [Orders -> Nat] /\ placed'[q] \in [Orders -> Nat]
            /\ SentOnce(sent[q], q, placed[q])
        BY <1>7, <2>1
      <3>2. \A o \in Orders : placed'[q][o] >= placed[q][o]
        BY <1>7
      <3>3. QED
        BY <3>1, <3>2, SentStays
    <2>3. QED
      BY <1>6, <2>1, <2>2 DEF SentInv, SentOnce
  <1>11. QED
    BY <1>8, <1>9, <1>10

\* The rest of the API: nothing is placed and nothing relayed.
LEMMA ApiKeeps ==
  ASSUME BridgeInv, NEW s \in Servers, Start(s) \/ StartTimesOut(s) \/ SetHooks(s) \/ StopService(s)
  PROVE  PipesOK' /\ CallsOK' /\ SentInv'
  <1>1. /\ UNCHANGED <<toApi, receivedFromP2P, placed, sent, callVars>>
        /\ api' \in [Servers -> {"off", "starting", "started", "ready", "without", "down"}]
    BY DEF BridgeInv, PipesOK, Start, StartTimesOut, SetHooks, StopService, pipes
  <1>2. toWorker' \in [Servers -> Seq(ForWorker)]
    <2>1. toWorker \in [Servers -> Seq(ForWorker)]
      BY DEF BridgeInv, PipesOK
    <2>2. Msg("START", None) \in ForWorker
      BY DEF Msg, ForWorker
    <2>3. Append(toWorker[s], Msg("START", None)) \in Seq(ForWorker)
      BY <2>1, <2>2
    <2>4. toWorker' = toWorker \/ toWorker' = [toWorker EXCEPT ![s] = Append(toWorker[s], Msg("START", None))]
      BY DEF Start, StartTimesOut, SetHooks, StopService, pipes
    <2>5. QED
      BY <2>1, <2>3, <2>4
  <1>3. QED
    BY <1>1, <1>2 DEF BridgeInv, PipesOK, CallsOK, SentInv, SentOnce, callVars

\* The calls of getAddrs and dialPeer.
LEMMA CallsKeep ==
  ASSUME BridgeInv, NEW c \in Calls, Request(c) \/ RequestTimesOut(c) \/ DialEnds(c)
  PROVE  PipesOK' /\ CallsOK' /\ SentInv'
  <1>1. CallOf[c].at \in Servers /\ CallOf[c].kind \in {"ADDRS", "DIAL_OK"}
    BY BridgeAssumption
  <1>2. UNCHANGED <<receivedFromP2P, placed, sent>> /\ CallsOK'
    BY DEF Request, RequestTimesOut, DialEnds, BridgeInv, CallsOK, apiVars
  <1>3. /\ api' \in [Servers -> {"off", "starting", "started", "ready", "without", "down"}]
        /\ toWorker' \in [Servers -> Seq(ForWorker)] /\ toApi' \in [Servers -> Seq(ForApi)]
    <2>1. CASE Request(c)
      <3>1. Msg(CallOf[c].kind, c) \in ForWorker
        BY <1>1 DEF Msg, ForWorker
      <3>2. <<Msg(CallOf[c].kind, c)>> \in Seq(ForWorker)
        BY <3>1
      <3>3. Send(CallOf[c].at, <<Msg(CallOf[c].kind, c)>>) /\ toApi' = toApi
        BY <2>1 DEF Request
      <3>4. QED
        BY <1>1, <3>2, <3>3, SendType DEF BridgeInv, PipesOK
    <2>2. CASE RequestTimesOut(c)
      BY <2>2 DEF RequestTimesOut, BridgeInv, PipesOK, pipes, apiVars
    <2>3. CASE DialEnds(c)
      <3>1. /\ UNCHANGED <<toWorker, api>>
            /\ \E msgs \in {<<Msg("DIAL_OK", None)>>, Error} : Answered(CallOf[c].at, msgs)
        BY <2>3 DEF DialEnds, apiVars
      <3>2. QED
        BY <1>1, <3>1, ErrorType, AnsweredType DEF BridgeInv, PipesOK
    <2>4. QED
      BY <2>1, <2>2, <2>3
  <1>4. QED
    BY <1>2, <1>3 DEF BridgeInv, PipesOK, SentInv, SentOnce

\* What comes up from a worker.
LEMMA WorkerAnswers ==
  ASSUME BridgeInv, NEW s \in Servers, NEW msgs \in Seq(ForApi), Answered(s, msgs),
         UNCHANGED <<apiVars, call, handlers>>, dialing' \subseteq Calls,
         toWorker' \in [Servers -> Seq(ForWorker)]
  PROVE  PipesOK' /\ CallsOK' /\ SentInv'
  <1>1. toApi' \in [Servers -> Seq(ForApi)]
    BY AnsweredType DEF BridgeInv
  <1>2. QED
    BY <1>1 DEF BridgeInv, PipesOK, CallsOK, SentInv, SentOnce, apiVars

\* A worker answers the API, whatever becomes of its node (p2p-worker.mjs).
LEMMA WorkerKeeps ==
  ASSUME BridgeInv, NEW s \in Servers, WorkerReceives(s) \/ WorkerStarted(s)
  PROVE  PipesOK' /\ CallsOK' /\ SentInv'
  <1>1. CASE WorkerStarted(s)
    <2>1. /\ \E msgs \in {<<Msg("STARTED", None)>>, Error} : Answered(s, msgs)
          /\ UNCHANGED <<toWorker, apiVars, callVars>>
      BY <1>1 DEF WorkerStarted
    <2>2. dialing' \subseteq Calls /\ toWorker' \in [Servers -> Seq(ForWorker)]
      BY <2>1 DEF BridgeInv, PipesOK, CallsOK, callVars
    <2>3. QED
      BY <2>1, <2>2, ErrorType, WorkerAnswers DEF callVars
  <1>2. CASE WorkerReceives(s)
    <2> DEFINE m == Head(toWorker[s])
    <2>1. /\ toWorker \in [Servers -> Seq(ForWorker)] /\ toWorker[s] # <<>>
          /\ m \in ForWorker /\ Tail(toWorker[s]) \in Seq(ForWorker)
          /\ toWorker' = [toWorker EXCEPT ![s] = Tail(toWorker[s])]
          /\ UNCHANGED <<apiVars, call, handlers>>
      BY <1>2 DEF WorkerReceives, BridgeInv, PipesOK
    <2>2. toWorker' \in [Servers -> Seq(ForWorker)]
      BY <2>1
    <2>3. dialing' \subseteq Calls
      <3>1. m.type = "DIAL_OK" => m.order \in Calls
        BY <2>1 DEF ForWorker, Relays
      <3>2. dialing' = dialing \/ (m.type = "DIAL_OK" /\ dialing' = dialing \cup {m.order})
        BY <1>2 DEF WorkerReceives
      <3>3. QED
        BY <3>1, <3>2 DEF BridgeInv, CallsOK
    <2>4. toApi' = toApi \/ \E msgs \in {<<>>, <<Msg("ADDRS", None)>>, Error} : Answered(s, msgs)
      BY <1>2 DEF WorkerReceives
    <2>5. CASE toApi' = toApi
      BY <2>1, <2>2, <2>3, <2>5 DEF BridgeInv, PipesOK, CallsOK, SentInv, SentOnce, apiVars
    <2>6. CASE \E msgs \in {<<>>, <<Msg("ADDRS", None)>>, Error} : Answered(s, msgs)
      BY <2>1, <2>2, <2>3, <2>6, ErrorType, WorkerAnswers
    <2>7. QED
      BY <2>4, <2>5, <2>6
  <1>3. QED
    BY <1>1, <1>2

\* The order of a message of the network goes up to the API (onNewOrder,
\* onCancelOrder).
LEMMA WorkerHearsKeeps ==
  ASSUME BridgeInv, NEW s \in Servers, NEW p \in wire, NEW again \in BOOLEAN, WorkerHears(s, p, again)
  PROVE  PipesOK' /\ CallsOK' /\ SentInv'
  <1> DEFINE o == CHOOSE o \in p.msg.orders : TRUE
             up == IF CalledBack(s, p) THEN <<Msg(p.msg.type, o)>> ELSE <<>>
  <1>1. p.msg \in Messages
    BY DEF BridgeInv, NodeInv, NodeTypeOK
  <1>2. CalledBack(s, p) => p.msg.type \in {"NEW_ORDER", "CANCEL_ORDER"} /\ o \in Orders
    BY <1>1, MessageShape DEF CalledBack
  <1>3. CalledBack(s, p) => Msg(p.msg.type, o) \in ForApi
    BY <1>2 DEF Msg, ForApi
  <1>4. Answered(s, up)
    BY DEF WorkerHears
  <1> HIDE DEF o
  <1>5. up \in Seq(ForApi)
    BY <1>3
  <1> HIDE DEF up
  <1>6. UNCHANGED <<toWorker, apiVars, callVars>>
    BY DEF WorkerHears
  <1>7. dialing' \subseteq Calls /\ toWorker' \in [Servers -> Seq(ForWorker)] /\ UNCHANGED <<call, handlers>>
    BY <1>6 DEF BridgeInv, PipesOK, CallsOK, callVars
  <1>8. QED
    BY <1>4, <1>5, <1>6, <1>7, WorkerAnswers

\* BridgeInv is inductive.
LEMMA StepBridge == BridgeInv /\ [BridgeNext]_bridgeVars => BridgeInv'
  <1> SUFFICES ASSUME BridgeInv, [BridgeNext]_bridgeVars PROVE BridgeInv'
    OBVIOUS
  <1>1. NodeInv'
    <2>1. NodeStep \/ UNCHANGED nodeVars
      BY BridgeMovesNodes DEF bridgeVars
    <2>2. QED
      BY <2>1, NodeStepKeeps DEF BridgeInv
  <1>2. ASSUME UNCHANGED <<pipes, apiVars, callVars>>
        PROVE  PipesOK' /\ CallsOK' /\ SentInv'
    BY <1>2 DEF BridgeInv, PipesOK, CallsOK, SentInv, SentOnce, pipes, apiVars, callVars
  <1>3. PipesOK' /\ CallsOK' /\ SentInv'
    <2>1. CASE UNCHANGED bridgeVars
      BY <1>2, <2>1 DEF bridgeVars
    <2>2. ASSUME NEW s \in Servers, WorkerDies(s) PROVE UNCHANGED <<pipes, apiVars, callVars>>
      BY <2>2 DEF WorkerDies
    <2>3. (\E n \in Direct : DirectStep(n)) \/ Network => UNCHANGED <<pipes, apiVars, callVars>>
      BY DEF DirectStep, Network
    <2>4. CASE BridgeNext
      BY <1>2, <2>2, <2>3, <2>4, ApiKeeps, ApiReceivesKeeps, PlaceKeeps, WorkerKeeps,
         WorkerHearsKeeps, CallsKeep DEF BridgeNext
    <2>5. QED
      BY <2>1, <2>4
  <1>4. QED
    BY <1>1, <1>3 DEF BridgeInv

\* The inductive invariant of the bridge holds throughout.
THEOREM BridgeInvariance == BridgeSpec => []BridgeInv
  <1>1. QED
    BY InitBridge, StepBridge, PTL DEF BridgeSpec

\* Every variable of the bridge and of the nodes keeps its type.
THEOREM BridgeTypes == BridgeSpec => []BridgeTypeOK
  <1>1. BridgeInv => BridgeTypeOK
    BY DEF BridgeInv, NodeInv, BridgeTypeOK
  <1>2. QED
    BY <1>1, BridgeInvariance, PTL

\* A node takes a message up again only after as many others as its cache of seen
\* messages holds (hasSeen, markSeen, _handleInbound).
THEOREM SeenKeepsOut == BridgeSpec => []HandedOnce
  <1>1. BridgeInv => HandedOnce
    <2> SUFFICES ASSUME BridgeInv, NEW n \in Nodes, NEW i \in DOMAIN marked[n], NEW j \in DOMAIN marked[n],
                        i < j, marked[n][i] = marked[n][j]
                 PROVE  Cardinality({marked[n][k] : k \in i + 1 .. j - 1}) >= MaxSeen
      BY DEF HandedOnce
    <2>1. marked[n] \in Seq(Messages) /\ Spread(marked[n])
      BY DEF BridgeInv, NodeInv, NodeTypeOK, CacheInv
    <2>2. QED
      BY <2>1, SpreadApart
  <1>2. QED
    BY <1>1, BridgeInvariance, PTL

\* No order circulates: an API sends its worker every order at most once, and only
\* one that was placed with it (broadcastOrder, the hooks of main.ts).
THEOREM NothingEchoes == BridgeSpec => []NoEcho
  <1>1. BridgeInv => NoEcho
    BY DEF BridgeInv, SentInv, SentOnce, NoEcho, ToSet
  <1>2. QED
    BY <1>1, BridgeInvariance, PTL
=============================================================================
