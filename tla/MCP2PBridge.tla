---------------------------- MODULE MCP2PBridge -----------------------------
(***************************************************************************)
(* A server and a program with a node of its own, an order of each: the    *)
(* program cancels, reports a fill and asks for what it missed.  A third   *)
(* node, which may have stored the order of the server, answers too: so    *)
(* the server is sent its own order again.                                 *)
(***************************************************************************)
EXTENDS P2PBridge

MCNodes == {"s", "d", "e"}
MCHome == [o1 |-> "s", o2 |-> "d"]
MCCallOf == [c |-> [kind |-> "ADDRS", at |-> "s"], e |-> [kind |-> "DIAL_OK", at |-> "s"]]
MCSyncs == {{"o1", "o2"}}
MCFills == {{"o1", "o2"}}

\* The order of the server, the question and the answer of a sync.
MCSyncHome == [o1 |-> "s"]
MCSyncOfOne == {{"o1"}}
MCNoCalls == <<>>

NoCalls == \A c \in Calls : call'[c] = "idle"
\* A behaviour is about the calls and the worker, about what is gossiped, or
\* about a sync that two nodes answer.
Scenario ==
  \/ node'["e"] = "none" /\ said' \subseteq {NewOrder(o) : o \in Orders} /\ repeats' = 0 /\ resets' = 0
  \/ /\ node'["e"] = "none" /\ NoCalls /\ expired' = {}
     /\ \A s \in Servers : api'[s] \in {"off", "starting", "started", "ready"}
                            /\ node'[s] \notin {"dead", "failed"}
  \/ /\ node'["e"] = "up" /\ NoCalls /\ expired' = {} /\ resets' = 0 /\ repeats' = 0
     /\ said' \subseteq {NewOrder("o1")} \cup {SyncFor(w) : w \in Syncs}
     /\ \A s \in Servers : api'[s] \in {"off", "starting", "started", "ready"}
                            /\ node'[s] \notin {"dead", "failed"}
MCBridgeInit == BridgeInit /\ node["d"] = "up"
MCBridgeSpec == MCBridgeInit /\ [][BridgeNext /\ Scenario]_bridgeVars /\ BridgeFairness
=============================================================================
