----------------------------- MODULE P2PBridge ------------------------------
(***************************************************************************)
(* Servers that relay their orders: the service of the API                 *)
(* (p2p.service.ts), the worker process that holds its gossip node         *)
(* (p2p-worker.mjs) and the wiring of both in api main.ts, over the nodes  *)
(* of P2PNode.                                                             *)
(*                                                                         *)
(* An API and its worker are joined by two FIFO pipes.  A node of Direct   *)
(* is a program that uses the package without the API: only such a program *)
(* cancels, reports fills and asks for a sync.                             *)
(***************************************************************************)
EXTENDS P2PNode

CONSTANTS
  Servers, Direct,
  Home,     \* the node an order is placed at
  Calls,    \* calls of getAddrs and dialPeer
  CallOf,   \* their kind, which is the type of the answer, and their server
  Mortal    \* workers that may die

ASSUME BridgeAssumption ==
  /\ Nodes = Servers \cup Direct /\ Servers \cap Direct = {}
  /\ Home \in [Orders -> Nodes] /\ Mortal \subseteq Servers
  /\ CallOf \in [Calls -> [kind : {"ADDRS", "DIAL_OK"}, at : Servers]]

VARIABLES
  api,      \* "off", "starting", "started", "ready", "without" (P2P), "down"
  toWorker, toApi, \* the pipes
  receivedFromP2P, \* ids that came in
  placed,   \* how often the book of a server was given an order
  call,     \* calls: "idle", "waiting", "ok", "error" or "timeout"
  handlers, \* calls whose handler listens to the worker
  dialing,  \* dials a worker is busy with
  sent      \* history: orders an API sent to its worker, as a sequence

pipes == <<toWorker, toApi>>
apiVars == <<api, receivedFromP2P, placed, sent>>
callVars == <<call, handlers, dialing>>
bridgeVars == <<nodeVars, pipes, apiVars, callVars>>

\* Some programs run their nodes.
BridgeInit ==
  /\ \E running \in SUBSET Direct :
       NodeInit([n \in Nodes |-> IF n \in running THEN "up" ELSE "none"])
  /\ api = [s \in Servers |-> "off"]
  /\ toWorker = [s \in Servers |-> <<>>] /\ toApi = [s \in Servers |-> <<>>]
  /\ receivedFromP2P = [s \in Servers |-> {}]
  /\ placed = [s \in Servers |-> [o \in Orders |-> 0]]
  /\ sent = [s \in Servers |-> <<>>]
  /\ call = [c \in Calls |-> "idle"] /\ handlers = {} /\ dialing = {}

Msg(type, order) == [type |-> type, order |-> order]
None == "none"

\* child.send.  On a closed channel it emits an error event nobody listens
\* to, which ends the process of the API.
Send(s, msgs) ==
  IF node[s] = "dead" /\ msgs # <<>>
  THEN api' = [api EXCEPT ![s] = "down"] /\ UNCHANGED toWorker
  ELSE toWorker' = [toWorker EXCEPT ![s] = @ \o msgs] /\ UNCHANGED api

-----------------------------------------------------------------------------
\* p2p.service.ts and main.ts: the side of the API

\* start, which main.ts calls once: the worker is forked and told to start.
Start(s) ==
  /\ api[s] = "off" /\ node[s] = "none"
  /\ api' = [api EXCEPT ![s] = "starting"]
  /\ toWorker' = [toWorker EXCEPT ![s] = Append(@, Msg("START", None))]
  /\ UNCHANGED <<nodeVars, toApi, receivedFromP2P, placed, sent, callVars>>

\* The 15 seconds of start have passed: the API goes on without its handlers,
\* and the worker goes on too.
StartTimesOut(s) ==
  /\ api[s] = "starting" /\ api' = [api EXCEPT ![s] = "without"]
  /\ UNCHANGED <<nodeVars, pipes, receivedFromP2P, placed, sent, callVars>>

\* The rest of main.ts runs once start has resolved, and sets the hooks; until
\* then only messages that came with STARTED are taken up.
SetHooks(s) ==
  /\ api[s] = "started" /\ api' = [api EXCEPT ![s] = "ready"]
  /\ UNCHANGED <<nodeVars, pipes, receivedFromP2P, placed, sent, callVars>>

\* Mutant of Relayed: where an order came from is not looked at.
RelayedAgain(s, o, p2pOrigin) == api[s] = "ready"
\* Is a placed order sent to the worker?  The hook has to be there; an order that
\* came in is never sent out again.
Relayed(s, o, p2pOrigin) == api[s] = "ready" /\ ~p2pOrigin /\ o \notin receivedFromP2P[s]

\* The hook of main.ts and broadcastOrder.
Relay(s, o, p2pOrigin) ==
  LET out == IF Relayed(s, o, p2pOrigin) THEN <<Msg("BROADCAST_ORDER", o)>> ELSE <<>> IN
  Send(s, out) /\ sent' = [sent EXCEPT ![s] = @ \o out]

\* An order is placed with the API.
PlaceLocal(s, o) ==
  /\ api[s] \in {"starting", "ready", "without"} /\ Home[o] = s /\ placed[s][o] = 0
  /\ placed' = [placed EXCEPT ![s][o] = 1]
  /\ Relay(s, o, FALSE)
  /\ UNCHANGED <<nodeVars, toApi, receivedFromP2P, callVars>>

\* getAddrs (GET /p2p/status) and dialPeer (POST /p2p/dial): a handler listens
\* for an answer, which does not say what it answers.
Request(c) ==
  LET s == CallOf[c].at IN
  /\ call[c] = "idle" /\ api[s] \in {"starting", "ready", "without"}
  /\ call' = [call EXCEPT ![c] = "waiting"] /\ handlers' = handlers \cup {c}
  /\ Send(s, <<Msg(CallOf[c].kind, c)>>)
  /\ UNCHANGED <<nodeVars, toApi, receivedFromP2P, placed, sent, dialing>>

\* Mutant of RequestTimesOut: the timer removes the handler without settling.
RequestForgotten(c) ==
  /\ call[c] = "waiting" /\ handlers' = handlers \ {c} /\ UNCHANGED call
  /\ UNCHANGED <<nodeVars, pipes, apiVars, dialing>>
\* The timer of a call: the promise is rejected, the handler stays.
RequestTimesOut(c) ==
  /\ call[c] = "waiting" /\ call' = [call EXCEPT ![c] = "timeout"]
  /\ UNCHANGED <<nodeVars, pipes, apiVars, handlers, dialing>>

\* The handlers an answer concerns: those of its kind, and all for an ERROR.
Concerned(s, type) ==
  {c \in handlers : CallOf[c].at = s /\ (type = "ERROR" \/ CallOf[c].kind = type)}

\* Mutant of Applied: a check for repeats, the wrong way round.
AppliedRepeats(s, m) == m.type = "NEW_ORDER" /\ api[s] = "ready" /\ m.order \in receivedFromP2P[s]
\* Is the order of a message placed?  Before the hook is set, and after start
\* failed, nobody listens.
Applied(s, m) == m.type = "NEW_ORDER" /\ api[s] = "ready"

\* A message of the worker: every listener gets it, the one of start too.
ApiReceives(s) ==
  /\ api[s] # "down" /\ toApi[s] # <<>>
  /\ toApi' = [toApi EXCEPT ![s] = Tail(@)]
  /\ LET m == Head(toApi[s]) IN
     /\ receivedFromP2P' = IF m.type = "NEW_ORDER"
                           THEN [receivedFromP2P EXCEPT ![s] = @ \cup {m.order}]
                           ELSE receivedFromP2P
     /\ IF Applied(s, m)
        THEN placed' = [placed EXCEPT ![s][m.order] = @ + 1] /\ Relay(s, m.order, TRUE)
        ELSE /\ api' = IF api[s] = "starting" /\ m.type \in {"STARTED", "ERROR"}
                       THEN [api EXCEPT ![s] = IF m.type = "STARTED" THEN "started" ELSE "without"]
                       ELSE api
             /\ UNCHANGED <<placed, sent, toWorker>>
     /\ call' = [c \in Calls |->
                   IF c \in Concerned(s, m.type) /\ call[c] = "waiting"
                   THEN (IF m.type = "ERROR" THEN "error" ELSE "ok") ELSE call[c]]
     /\ handlers' = handlers \ Concerned(s, m.type)
  /\ UNCHANGED <<nodeVars, dialing>>

-----------------------------------------------------------------------------
\* p2p-worker.mjs

Answered(s, msgs) == toApi' = [toApi EXCEPT ![s] = @ \o msgs]
Error == <<Msg("ERROR", None)>>

\* The next message of the API.  Whatever a handler throws is answered with an
\* ERROR, and a handler that waits lets the next message in.
WorkerReceives(s) ==
  /\ node[s] # "dead" /\ toWorker[s] # <<>>
  /\ toWorker' = [toWorker EXCEPT ![s] = Tail(@)]
  /\ LET m == Head(toWorker[s]) IN
     \/ m.type = "START" /\ Build(s) /\ UNCHANGED <<toApi, dialing>>
     \/ /\ m.type = "BROADCAST_ORDER" /\ UNCHANGED dialing
        /\ IF validateOrder(m.order)
           THEN BroadcastOrder(s, m.order) /\ Answered(s, IF node[s] = "up" THEN <<>> ELSE Error)
           ELSE Answered(s, Error) /\ UNCHANGED nodeVars
     \/ /\ m.type = "ADDRS" /\ UNCHANGED <<nodeVars, dialing>>
        /\ Answered(s, IF node[s] = "up" THEN <<Msg("ADDRS", None)>> ELSE Error)
     \/ /\ m.type = "DIAL_OK" /\ dialing' = dialing \cup {m.order}
        /\ UNCHANGED <<nodeVars, toApi>>
  /\ UNCHANGED <<apiVars, call, handlers>>

\* node.start resolves, or rejects.
WorkerStarted(s) ==
  /\ \/ Listen(s) /\ Answered(s, <<Msg("STARTED", None)>>)
     \/ ListenFails(s) /\ Answered(s, Error)
  /\ UNCHANGED <<toWorker, apiVars, callVars>>

\* A dial ends; it fails at once without libp2p.
DialEnds(c) ==
  LET s == CallOf[c].at IN
  /\ c \in dialing /\ node[s] # "dead" /\ dialing' = dialing \ {c}
  /\ \/ node[s] = "up" /\ Answered(s, <<Msg("DIAL_OK", None)>>)
     \/ Answered(s, Error)
  /\ UNCHANGED <<nodeVars, toWorker, apiVars, call, handlers>>

\* A message of the network; onNewOrder and onCancelOrder send it on.
WorkerHears(s, p, again) ==
  /\ Receive(s, p, again)
  /\ Answered(s, IF CalledBack(s, p)
                 THEN <<Msg(p.msg.type, CHOOSE o \in p.msg.orders : TRUE)>> ELSE <<>>)
  /\ UNCHANGED <<toWorker, apiVars, callVars>>

WorkerDies(s) ==
  s \in Mortal /\ api[s] # "off" /\ Stop(s) /\ UNCHANGED <<pipes, apiVars, callVars>>

\* stop: SHUTDOWN, a second later the worker is killed and the child is null.
StopService(s) ==
  /\ api[s] \in {"ready", "without"} /\ Stop(s)
  /\ api' = [api EXCEPT ![s] = "off"]
  /\ UNCHANGED <<pipes, receivedFromP2P, placed, sent, callVars>>

-----------------------------------------------------------------------------
\* A program that uses a node of its own.
DirectStep(n) ==
  /\ \/ \E o \in Orders : Home[o] = n /\ NewOrder(o) \notin said /\ BroadcastOrder(n, o)
     \/ BroadcastCancel(n) \/ BroadcastFill(n) \/ RequestSync(n)
     \/ \E p \in wire, again \in BOOLEAN : Receive(n, p, again)
  /\ UNCHANGED <<pipes, apiVars, callVars>>

Network ==
  /\ \/ \E n \in Nodes : ResetRates(n)
     \/ \E p \in wire : Lose(p)
     \/ \E o \in Expiring : Expire(o)
  /\ UNCHANGED <<pipes, apiVars, callVars>>

BridgeNext ==
  \/ \E s \in Servers :
       \/ Start(s) \/ StartTimesOut(s) \/ SetHooks(s) \/ ApiReceives(s) \/ StopService(s)
       \/ \E o \in Orders : PlaceLocal(s, o)
       \/ WorkerReceives(s) \/ WorkerStarted(s) \/ WorkerDies(s)
       \/ \E p \in wire, again \in BOOLEAN : WorkerHears(s, p, again)
  \/ \E c \in Calls : Request(c) \/ RequestTimesOut(c) \/ DialEnds(c)
  \/ \E n \in Direct : DirectStep(n)
  \/ Network

\* Timers fire, and the event loop of an API takes up what its worker sent.
BridgeFairness ==
  /\ \A s \in Servers : WF_bridgeVars(ApiReceives(s)) /\ WF_bridgeVars(StartTimesOut(s) \/ SetHooks(s))
  /\ \A c \in Calls : WF_bridgeVars(RequestTimesOut(c))

BridgeSpec == BridgeInit /\ [][BridgeNext]_bridgeVars /\ BridgeFairness

-----------------------------------------------------------------------------
\* An API sends an order to its worker at most once, and only an order that
\* was placed with it: no order circulates between servers (broadcastOrder,
\* the handler of NEW_ORDER, the hooks of main.ts).
NoEcho ==
  \A s \in Servers : IsInjective(sent[s]) /\ \A m \in ToSet(sent[s]) : Home[m.order] = s

\* Once the hooks are set, every order the worker hands over gets to the book of
\* the server (the handler of NEW_ORDER, onNewOrder in main.ts).
InboundPlaced ==
  \A s \in Servers, o \in Orders :
    api[s] = "ready" /\ Msg("NEW_ORDER", o) \in ToSet(toApi[s])
      ~> placed[s][o] > 0 \/ api[s] \in {"off", "down"}

\* Every call of getAddrs and dialPeer settles, and so does start, whatever
\* becomes of the worker: by an answer, by somebody else's error, or by the
\* timer (p2p.service.ts).
CallsSettle ==
  /\ \A c \in Calls : call[c] = "waiting" ~> call[c] # "waiting"
  /\ \A s \in Servers : api[s] \in {"starting", "started"} ~> api[s] \notin {"starting", "started"}

\* What TASKS.md says of the three layers of deduplication: an order is on the
\* book of a server once.
PlacedOnce == \A s \in Servers, o \in Orders : placed[s][o] <= 1
=============================================================================
