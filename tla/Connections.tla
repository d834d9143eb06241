----------------------------- MODULE Connections -----------------------------
(***************************************************************************)
(* The hub's ConnectionRegistry and the life of the WebSockets it holds:   *)
(* a node's reconnect loop, the node_ws coroutine the hub runs per socket, *)
(* and the link between them.                                              *)
(*                                                                         *)
(* The hub is one asyncio event loop, so an action is what one coroutine   *)
(* does between two awaits.  A socket is used for one connection and never *)
(* again.  Frames are not modelled here: the modules that carry commands   *)
(* and schedules EXTEND this one and add the channels.                     *)
(***************************************************************************)
EXTENDS Naturals, FiniteSets

CONSTANTS
    Nodes,      \* the enrolled nodes (ids)
    Sockets,    \* the connections that may ever be made
    NoSocket,   \* "no connection"
    Owner       \* Owner[s]: the node that opens socket s

ASSUME OwnerAssumption == Owner \in [Sockets -> Nodes]
ASSUME NoSocketAssumption == NoSocket \notin Sockets

VARIABLES
    registry,   \* ConnectionRegistry._connections: node -> socket
    handler,    \* where the hub's node_ws coroutine of each socket is
    hubOpen,    \* sockets the hub's protocol layer believes open
    nodeOpen,   \* sockets the node's protocol layer believes open
    severed,    \* sockets whose link carries nothing any more
    current     \* the socket each node's run() loop last opened

connVars == <<registry, handler, hubOpen, nodeOpen, severed, current>>

\* "raised": an exception left node_ws before its try/finally (main.py:98-106).
Phases == {"none", "accepted", "greeting", "serving", "gone", "raised"}

ConnTypeOK ==
    /\ registry \in [Nodes -> Sockets \cup {NoSocket}]
    /\ handler \in [Sockets -> Phases]
    /\ hubOpen \subseteq Sockets
    /\ nodeOpen \subseteq Sockets
    /\ severed \subseteq Sockets
    /\ current \in [Nodes -> Sockets \cup {NoSocket}]

ConnInit ==
    /\ registry = [n \in Nodes |-> NoSocket]
    /\ handler = [s \in Sockets |-> "none"]
    /\ hubOpen = {}
    /\ nodeOpen = {}
    /\ severed = {}
    /\ current = [n \in Nodes |-> NoSocket]

IsOnline(n) == registry[n] # NoSocket

\* A frame written by either end of s reaches the other.
Carries(s) == s \in hubOpen /\ s \in nodeOpen /\ s \notin severed

-----------------------------------------------------------------------------
(***************************************************************************)
(* The node: run() opens a socket once it knows the previous one is over.  *)
(***************************************************************************)
Connect(s) ==
    /\ handler[s] = "none"
    /\ current[Owner[s]] \notin nodeOpen
    /\ handler' = [handler EXCEPT ![s] = "accepted"]
    /\ hubOpen' = hubOpen \cup {s}
    /\ nodeOpen' = nodeOpen \cup {s}
    /\ current' = [current EXCEPT ![Owner[s]] = s]
    /\ UNCHANGED <<registry, severed>>

\* The node's end goes away by itself: an exception in one of its two loops
\* leaves "async with websockets.connect", or the process stops.
NodeLeaves(s) ==
    /\ s \in nodeOpen
    /\ nodeOpen' = nodeOpen \ {s}
    /\ UNCHANGED <<registry, handler, hubOpen, severed, current>>

NodeNotices(s) ==
    /\ s \in nodeOpen
    /\ s \in severed \/ s \notin hubOpen
    /\ nodeOpen' = nodeOpen \ {s}
    /\ UNCHANGED <<registry, handler, hubOpen, severed, current>>

-----------------------------------------------------------------------------
(***************************************************************************)
(* The hub: node_ws.                                                       *)
(***************************************************************************)
(***************************************************************************)
(* One plausible slip each, to show that the properties below would notice *)
(* it; no action of ConnNext uses them.                                    *)
(***************************************************************************)
\* connect() stores the node's id where the socket belongs.
MutRegisterStoresId(s) ==
    /\ handler[s] = "accepted"
    /\ registry' = [registry EXCEPT ![Owner[s]] = Owner[s]]
    /\ handler' = [handler EXCEPT ![s] = "greeting"]
    /\ hubOpen' = hubOpen \ {registry[Owner[s]]}
    /\ UNCHANGED <<nodeOpen, severed, current>>

\* connect() leaves the stale socket open.
MutRegisterWithoutClose(s) ==
    /\ handler[s] = "accepted"
    /\ registry' = [registry EXCEPT ![Owner[s]] = s]
    /\ handler' = [handler EXCEPT ![s] = "greeting"]
    /\ UNCHANGED <<hubOpen, nodeOpen, severed, current>>

\* connect() keeps the connection it already has.
MutRegisterKeepsFirst(s) ==
    /\ handler[s] = "accepted"
    /\ registry' = [registry EXCEPT ![Owner[s]] = IF @ = NoSocket THEN s ELSE @]
    /\ handler' = [handler EXCEPT ![s] = "greeting"]
    /\ UNCHANGED <<hubOpen, nodeOpen, severed, current>>

\* disconnect() without "is ws".
MutServeEndsUnconditional(s) ==
    /\ handler[s] = "serving"
    /\ s \notin hubOpen
    /\ handler' = [handler EXCEPT ![s] = "gone"]
    /\ registry' = [registry EXCEPT ![Owner[s]] = NoSocket]
    /\ UNCHANGED <<hubOpen, nodeOpen, severed, current>>

\* node_ws without the finally.
MutServeEndsNoFinally(s) ==
    /\ handler[s] = "serving"
    /\ s \notin hubOpen
    /\ handler' = [handler EXCEPT ![s] = "gone"]
    /\ UNCHANGED <<registry, hubOpen, nodeOpen, severed, current>>

(***************************************************************************)
(* connect(), the greeting and disconnect() as they are.                   *)
(***************************************************************************)
\* connect(): swap the entry under the lock (never contended: nothing awaits
\* while holding it), then close the stale socket, if there is one.  The
\* coroutine next runs when that close and the greeting's send let it.
Register(s) ==
    /\ handler[s] = "accepted"
    /\ registry' = [registry EXCEPT ![Owner[s]] = s]
    /\ handler' = [handler EXCEPT ![s] = "greeting"]
    /\ hubOpen' = hubOpen \ {registry[Owner[s]]}
    /\ UNCHANGED <<nodeOpen, severed, current>>

\* Commit last_seen_at and, if the node has a stored policy (greet), send it.
\* send_text raises on a socket already closed, and this send is outside the
\* try whose finally calls disconnect().
Greet(s, greet) ==
    /\ handler[s] = "greeting"
    /\ handler' = [handler EXCEPT ![s] =
                      IF greet /\ s \notin hubOpen THEN "raised" ELSE "serving"]
    /\ UNCHANGED <<registry, hubOpen, nodeOpen, severed, current>>

\* receive_text raises WebSocketDisconnect: the finally unregisters the node,
\* but only if the entry is still this coroutine's own socket.  (Left out: a
\* frame no node of this repository sends, no JSON or with a key missing, ends
\* the loop by another exception, through the same finally.)
ServeEnds(s) ==
    /\ handler[s] = "serving"
    /\ s \notin hubOpen
    /\ handler' = [handler EXCEPT ![s] = "gone"]
    /\ registry' = [registry EXCEPT
                        ![Owner[s]] = IF @ = s THEN NoSocket ELSE @]
    /\ UNCHANGED <<hubOpen, nodeOpen, severed, current>>

\* The protocol layer learns of a closed or dead peer (close frame, reset,
\* missed pong); the coroutine finds out at its next await.
HubNotices(s) ==
    /\ s \in hubOpen
    /\ s \in severed \/ s \notin nodeOpen
    /\ hubOpen' = hubOpen \ {s}
    /\ UNCHANGED <<registry, handler, nodeOpen, severed, current>>

\* The hub process stops and starts again: the registry and every coroutine
\* are memory.
HubRestart ==
    /\ registry' = [n \in Nodes |-> NoSocket]
    /\ handler' = [s \in Sockets |->
                      IF handler[s] = "none" THEN "none" ELSE "gone"]
    /\ hubOpen' = {}
    /\ UNCHANGED <<nodeOpen, severed, current>>

-----------------------------------------------------------------------------
\* The network: a link goes half-open without telling either end.
Sever(s) ==
    /\ s \in hubOpen \cup nodeOpen
    /\ s \notin severed
    /\ severed' = severed \cup {s}
    /\ UNCHANGED <<registry, handler, hubOpen, nodeOpen, current>>

ConnNext ==
    \/ \E s \in Sockets :
          \/ Connect(s)
          \/ NodeLeaves(s)
          \/ NodeNotices(s)
          \/ Register(s)
          \/ \E greet \in BOOLEAN : Greet(s, greet)
          \/ ServeEnds(s)
          \/ HubNotices(s)
          \/ Sever(s)
    \/ HubRestart

(***************************************************************************)
(* Fairness.  The event loop runs every ready coroutine; the pings of both *)
(* protocol layers (uvicorn's default and ping_interval=20 in daemon.py)   *)
(* find a dead peer.  Nothing says a node reconnects, leaves or is cut.    *)
(***************************************************************************)
Greets(s) == \E greet \in BOOLEAN : Greet(s, greet)

FairSocket(s) ==
    /\ WF_connVars(Register(s))
    /\ WF_connVars(Greets(s))
    /\ WF_connVars(ServeEnds(s))
    /\ WF_connVars(HubNotices(s))
    /\ WF_connVars(NodeNotices(s))

ConnFairness == \A s \in Sockets : FairSocket(s)

ConnSpec == ConnInit /\ [][ConnNext]_connVars /\ ConnFairness

-----------------------------------------------------------------------------
(***************************************************************************)
(* Properties.                                                             *)
(***************************************************************************)
\* A connection that node_ws is serving and that the hub believes open is the
\* one commands and schedules are sent to: no overlap of an old and a new
\* connection's coroutines leaves the newer one out of the registry.
ServedIsRegistered ==
    \A s \in Sockets :
        handler[s] \in {"greeting", "serving"} /\ s \in hubOpen
            => registry[Owner[s]] = s

\* An entry is the node's own socket, and the coroutine that put it there has
\* not ended normally: node_ws never leaves by its finally with the entry still
\* in place.
EntryHasCoroutine ==
    \A n \in Nodes : registry[n] # NoSocket =>
        /\ Owner[registry[n]] = n
        /\ handler[registry[n]] \in {"greeting", "serving", "raised"}

\* The inductive invariant proved in Connections_proofs.
ConnInv == ConnTypeOK /\ ServedIsRegistered /\ EntryHasCoroutine

\* A step that removes or replaces a registered socket is one after which
\* that socket is closed at the hub: disconnect() of a stale connection never
\* takes a live one out, and connect() closes the one it displaces.
OnlyClosedLeave ==
    [][\A n \in Nodes :
          registry[n] # NoSocket /\ registry'[n] # registry[n]
              => registry[n] \notin hubOpen']_connVars

\* A connection that stays up ends up as its node's registered connection.
StableGetsRegistered ==
    \A s \in Sockets :
        Carries(s) ~> (registry[Owner[s]] = s \/ ~Carries(s))

\* A socket the node has left does not stay registered, unless node_ws raised
\* before its try/finally.
OfflineIsNoticed ==
    \A s \in Sockets :
        (registry[Owner[s]] = s /\ s \notin nodeOpen)
            ~> (registry[Owner[s]] # s \/ handler[s] = "raised")

\* Every entry has a coroutine that will remove it when its socket closes, as
\* hub.md:14 says of the registry ("tracks which are currently online").
NoGhostEntry ==
    \A n \in Nodes : registry[n] # NoSocket =>
        handler[registry[n]] \in {"greeting", "serving"}
=============================================================================
