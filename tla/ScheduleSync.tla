----------------------------- MODULE ScheduleSync -----------------------------
(***************************************************************************)
(* Schedule policies from the REST layer to the nodes: the policy stored   *)
(* with each node, the pushes of api/schedule.py, the greeting that sends  *)
(* the stored policy on every connect, and the node's two uses of it (the  *)
(* PolicyHolder and BOINC's native preferences).  Extends Connections.     *)
(*                                                                         *)
(* A request sets a policy of its own, so a policy is named by its request.*)
(* What a node does with the policy it holds is in ScheduleEnforcement.    *)
(***************************************************************************)
EXTENDS Connections, Sequences

CONSTANTS
    Requests,   \* HTTP requests that set a schedule
    Unset,      \* no schedule stored; on a node, the default policy
    Slow,       \* nodes whose send buffer may be full
    Faults      \* bound: which of the failures below an instance includes

Policies == Requests

ASSUME UnsetAssumption == Unset \notin Policies
ASSUME SlowAssumption == Slow \subseteq Nodes
ASSUME SyncFaultsAssumption ==
    Faults \subseteq {"sever", "hub restart", "node restart", "native fails"}

VARIABLES
    pc,         \* where each request's coroutine is
    todo,       \* nodes the request has not come to yet
    via,        \* the socket whose buffer it waits for
    suspended,  \* history: requests that have had to wait
    stored,     \* nodes.schedule_json
    told,       \* history: the last policy written to each socket
    toNode,     \* schedule frames written to a socket, not yet read
    loops,      \* sockets with a live _command_loop
    applying,   \* the policy each loop is giving to BOINC, in a thread
    holder,     \* PolicyHolder._policy
    by,         \* history: the socket whose loop set it
    native,     \* the policy BOINC's preferences come from
    astray      \* history: nodes where BOINC may have another policy

requestVars == <<pc, todo, via, suspended>>
hubVars     == <<stored, told>>
nodeVars    == <<loops, applying, holder, by, native, astray>>
vars == <<connVars, requestVars, hubVars, toNode, nodeVars>>

SyncTypeOK ==
    /\ ConnTypeOK
    \* "failed": HTTP 500; "lost": the hub stopped under it.
    /\ pc \in [Requests -> {"idle", "draining", "returned", "failed", "lost"}]
    /\ todo \in [Requests -> SUBSET Nodes]
    /\ via \in [Requests -> Sockets \cup {NoSocket}]
    /\ suspended \subseteq Requests
    /\ stored \in [Nodes -> Policies \cup {Unset}]
    /\ told \in [Sockets -> Policies \cup {Unset}]
    /\ toNode \in [Sockets -> Seq(Policies)]
    /\ loops \subseteq Sockets
    /\ applying \in [Sockets -> Policies \cup {Unset}]
    /\ holder \in [Nodes -> Policies \cup {Unset}]
    /\ by \in [Nodes -> Sockets \cup {NoSocket}]
    /\ native \in [Nodes -> Policies \cup {Unset}]
    /\ astray \subseteq Nodes

SyncInit ==
    /\ ConnInit
    /\ pc = [r \in Requests |-> "idle"]
    /\ todo = [r \in Requests |-> {}]
    /\ via = [r \in Requests |-> NoSocket]
    /\ suspended = {}
    /\ stored = [n \in Nodes |-> Unset]
    /\ told = [s \in Sockets |-> Unset]
    /\ toNode = [s \in Sockets |-> <<>>]
    /\ loops = {}
    /\ applying = [s \in Sockets |-> Unset]
    /\ holder = [n \in Nodes |-> Unset]
    /\ by = [n \in Nodes |-> NoSocket]
    /\ native = [n \in Nodes |-> Unset]
    /\ astray = {}

-----------------------------------------------------------------------------
(***************************************************************************)
(* The hub's requests.                                                     *)
(***************************************************************************)
\* Write policy p to every socket of S: the protocol layer takes the frame at
\* once, whatever becomes of it.
Write(S, p) ==
    /\ told' = [s \in Sockets |-> IF s \in S THEN p ELSE told[s]]
    /\ toNode' = [s \in Sockets |-> IF s \in S /\ Carries(s)
                                    THEN Append(toNode[s], p)
                                    ELSE toNode[s]]

\* is_online(n), but its socket is closed: send_text raises.
Broken(n) == IsOnline(n) /\ registry[n] \notin hubOpen

\* The sockets that pushes to the nodes of S are written to.
Pushed(S) == {registry[n] : n \in {m \in S : IsOnline(m) /\ ~Broken(m)}}

\* Slip: a failing send is taken for a node that is offline, but the walk ends
\* there as if it were complete.
MutWalkReturnsEarly(r, rest, S) ==
    /\ Write(Pushed(S), r)
    /\ todo' = [todo EXCEPT ![r] = {}]
    /\ pc' = [pc EXCEPT ![r] = "returned"]
    /\ UNCHANGED <<via, suspended>>

\* From one suspension to the next: go through S, the next nodes of rest, and
\* push r's policy to those that are online.  The walk stops at the end of
\* rest, at a send that raises, or at one whose buffer is full.
Walk(r, rest, S) ==
    /\ Write(Pushed(S), r)
    /\ todo' = [todo EXCEPT ![r] = rest \ S]
    /\ \/ /\ S = rest
          /\ \A n \in S : ~Broken(n)
          /\ pc' = [pc EXCEPT ![r] = "returned"]
          /\ UNCHANGED <<via, suspended>>
       \/ /\ \E n \in S : {m \in S : Broken(m)} = {n}
          /\ pc' = [pc EXCEPT ![r] = "failed"]
          /\ UNCHANGED <<via, suspended>>
       \/ /\ \A n \in S : ~Broken(n)
          /\ \E n \in S \cap Slow :
                /\ IsOnline(n)
                /\ via' = [via EXCEPT ![r] = registry[n]]
          /\ pc' = [pc EXCEPT ![r] = "draining"]
          /\ suspended' = suspended \cup {r}

\* PUT on one node, or apply-group and apply-all: every row of T is committed,
\* and nothing awaits before the first push.
Apply(r, T, S) ==
    /\ pc[r] = "idle"
    /\ stored' = [n \in Nodes |-> IF n \in T THEN r ELSE stored[n]]
    /\ Walk(r, T, S)
    /\ UNCHANGED <<connVars, nodeVars>>

\* The buffer has drained and the loop goes on with the nodes that are left,
\* with the policy it was called with.
Resume(r, S) ==
    /\ pc[r] = "draining"
    /\ Walk(r, todo[r], S)
    /\ UNCHANGED <<connVars, stored, nodeVars>>

\* ... or the socket closes instead: the exception ends the request.
SendRaises(r) ==
    /\ pc[r] = "draining"
    /\ via[r] \notin hubOpen
    /\ pc' = [pc EXCEPT ![r] = "failed"]
    /\ UNCHANGED <<connVars, todo, via, suspended, hubVars, toNode, nodeVars>>

\* The greeting: the row is read again after the commit that expires it, so
\* it is the policy stored at this moment.
Greeted(s) ==
    LET p == stored[Owner[s]]
    IN  /\ Greet(s, p # Unset)
        /\ IF p # Unset /\ s \in hubOpen
           THEN Write({s}, p) ELSE UNCHANGED <<told, toNode>>
        /\ UNCHANGED <<requestVars, stored, nodeVars>>

\* The database keeps the stored policies; requests under way are gone.
HubStops ==
    /\ "hub restart" \in Faults
    /\ HubRestart
    /\ pc' = [r \in Requests |-> IF pc[r] = "draining" THEN "lost" ELSE pc[r]]
    /\ UNCHANGED <<todo, via, suspended, hubVars, toNode, nodeVars>>

-----------------------------------------------------------------------------
(***************************************************************************)
(* The node: run() and _command_loop.  A loop outlives its socket if the   *)
(* status loop raises first: it ends its call to BOINC, and then takes the *)
(* frames already received, beside the next connection's loop.             *)
(***************************************************************************)
Mine(n) == {s \in Sockets : Owner[s] = n}
Busy(n) == {s \in Mine(n) : applying[s] # Unset}

NodeConnects(s) ==
    /\ Connect(s)
    /\ loops' = loops \cup {s}
    /\ UNCHANGED <<requestVars, hubVars, toNode, applying, holder, by, native,
                   astray>>

\* Slip: BOINC is not told of a policy the holder has already.
MutTakeSkipsKnown(s) ==
    LET n == Owner[s]
        p == Head(toNode[s])
    IN  /\ s \in loops
        /\ applying[s] = Unset
        /\ toNode[s] # <<>>
        /\ toNode' = [toNode EXCEPT ![s] = Tail(@)]
        /\ holder' = [holder EXCEPT ![n] = p]
        /\ by' = [by EXCEPT ![n] = s]
        /\ applying' = [applying EXCEPT ![s] = IF p = holder[n] THEN Unset ELSE p]
        /\ astray' = IF Busy(n) = {} THEN astray \ {n} ELSE astray \cup {n}
        /\ UNCHANGED <<connVars, requestVars, hubVars, loops, native>>

\* Slip: the holder is set to the frame.
MutTakeRaw(s) ==
    /\ s \in loops
    /\ applying[s] = Unset
    /\ toNode[s] # <<>>
    /\ toNode' = [toNode EXCEPT ![s] = Tail(@)]
    /\ holder' = [holder EXCEPT ![Owner[s]] = [type |-> "schedule"]]
    /\ by' = [by EXCEPT ![Owner[s]] = s]
    /\ applying' = [applying EXCEPT ![s] = Head(toNode[s])]
    /\ UNCHANGED <<connVars, requestVars, hubVars, loops, native, astray>>

\* Slip: of the frames that have come, the newest is taken first.
MutTakeNewest(s) ==
    LET n == Owner[s]
        p == toNode[s][Len(toNode[s])]
    IN  /\ s \in loops
        /\ applying[s] = Unset
        /\ toNode[s] # <<>>
        /\ toNode' = [toNode EXCEPT ![s] = SubSeq(@, 1, Len(@) - 1)]
        /\ holder' = [holder EXCEPT ![n] = p]
        /\ by' = [by EXCEPT ![n] = s]
        /\ applying' = [applying EXCEPT ![s] = p]
        /\ astray' = IF Busy(n) = {} THEN astray \ {n} ELSE astray \cup {n}
        /\ UNCHANGED <<connVars, requestVars, hubVars, loops, native>>

\* A schedule frame: set the holder, then give the policy to BOINC in a
\* thread and wait for it before the next frame.
Take(s) ==
    LET n == Owner[s]
        p == Head(toNode[s])
    IN  /\ s \in loops
        /\ applying[s] = Unset
        /\ toNode[s] # <<>>
        /\ toNode' = [toNode EXCEPT ![s] = Tail(@)]
        /\ holder' = [holder EXCEPT ![n] = p]
        /\ by' = [by EXCEPT ![n] = s]
        /\ applying' = [applying EXCEPT ![s] = p]
        /\ astray' = IF Busy(n) = {} THEN astray \ {n} ELSE astray \cup {n}
        /\ UNCHANGED <<connVars, requestVars, hubVars, loops, native>>

Applied(s) ==
    /\ applying[s] # Unset
    /\ native' = [native EXCEPT ![Owner[s]] = applying[s]]
    /\ applying' = [applying EXCEPT ![s] = Unset]
    /\ UNCHANGED <<connVars, requestVars, hubVars, toNode, loops, holder, by,
                   astray>>

\* Slip: the exception of a failed boinccmd ends the loop.
MutNativeFailsEndsLoop(s) ==
    /\ "native fails" \in Faults
    /\ applying[s] # Unset
    /\ applying' = [applying EXCEPT ![s] = Unset]
    /\ astray' = astray \cup {Owner[s]}
    /\ loops' = loops \ {s}
    /\ UNCHANGED <<connVars, requestVars, hubVars, toNode, holder, by, native>>

\* boinccmd fails: a warning, and BOINC keeps the preferences it had.
NativeFails(s) ==
    /\ "native fails" \in Faults
    /\ applying[s] # Unset
    /\ applying' = [applying EXCEPT ![s] = Unset]
    /\ astray' = astray \cup {Owner[s]}
    /\ UNCHANGED <<connVars, requestVars, hubVars, toNode, loops, holder, by,
                   native>>

\* "async for raw in ws" ends; frames that never arrived are lost.
LoopEnds(s) ==
    /\ s \in loops
    /\ applying[s] = Unset
    /\ s \notin nodeOpen
    /\ loops' = loops \ {s}
    /\ toNode' = [toNode EXCEPT ![s] = <<>>]
    /\ UNCHANGED <<connVars, requestVars, hubVars, applying, holder, by,
                   native, astray>>

\* The node process stops and starts: the policy is memory, BOINC's
\* preferences a file of BOINC's.
NodeRestart(n) ==
    /\ "node restart" \in Faults
    /\ loops \cap Mine(n) # {}
    /\ IF current[n] \in nodeOpen THEN NodeLeaves(current[n])
                                  ELSE UNCHANGED connVars
    /\ loops' = loops \ Mine(n)
    /\ applying' = [s \in Sockets |-> IF s \in Mine(n) THEN Unset
                                                       ELSE applying[s]]
    /\ toNode' = [s \in Sockets |-> IF s \in Mine(n) THEN <<>> ELSE toNode[s]]
    /\ holder' = [holder EXCEPT ![n] = Unset]
    /\ by' = [by EXCEPT ![n] = NoSocket]
    /\ astray' = astray \cup {n}
    /\ UNCHANGED <<requestVars, hubVars, native>>

-----------------------------------------------------------------------------
\* Steps of Connections that touch no request, policy or loop.
ConnectionStep(s) ==
    /\ \/ NodeLeaves(s)
       \/ NodeNotices(s)
       \/ Register(s)
       \/ ServeEnds(s)
       \/ HubNotices(s)
       \/ "sever" \in Faults /\ Sever(s)
    /\ UNCHANGED <<requestVars, hubVars, toNode, nodeVars>>

SyncNext ==
    \/ \E r \in Requests :
          \/ \E T \in SUBSET Nodes : \E S \in SUBSET T : Apply(r, T, S)
          \/ \E S \in SUBSET todo[r] : Resume(r, S)
          \/ SendRaises(r)
    \/ \E s \in Sockets :
          \/ Greeted(s)
          \/ NodeConnects(s)
          \/ Take(s)
          \/ Applied(s)
          \/ NativeFails(s)
          \/ LoopEnds(s)
          \/ ConnectionStep(s)
    \/ \E n \in Nodes : NodeRestart(n)
    \/ HubStops

(***************************************************************************)
(* Fairness: a command loop reads what has arrived, and its call to BOINC  *)
(* ends (boinccmd is given 20 s).                                          *)
(***************************************************************************)
EndsCall(s) == Applied(s) \/ NativeFails(s)

FairLoop(s) ==
    /\ WF_vars(Take(s))
    /\ WF_vars(EndsCall(s))

SyncFairness == \A s \in Sockets : FairLoop(s)

SyncSpec == SyncInit /\ [][SyncNext]_vars /\ SyncFairness

-----------------------------------------------------------------------------
(***************************************************************************)
(* Properties.                                                             *)
(***************************************************************************)
\* n's connection is registered, greeted and open.
Serving(n) ==
    /\ IsOnline(n)
    /\ handler[registry[n]] = "serving"
    /\ registry[n] \in hubOpen

\* The request that set n's policy is still to come to n, or never will.
Missed(n) ==
    \E r \in Requests :
        stored[n] = r /\ pc[r] \in {"draining", "failed"} /\ n \in todo[r]

\* The last policy written to a connection that is being served is the one
\* stored for its node, unless the request that stored it has not got there,
\* or one that had waited for a slow node came after it.  Registration, the
\* greeting and the pushes leave no gap between them.
ToldIsStored ==
    \A n \in Nodes :
        Serving(n) => \/ told[registry[n]] = stored[n]
                      \/ Missed(n)
                      \/ told[registry[n]] \in suspended

\* A node's holder has the last policy written to the connection its own loop
\* took it from, once that loop has read everything: frames are neither lost
\* nor reordered while the link lives.
HolderIsTold ==
    \A s \in Sockets :
        (by[Owner[s]] = s /\ Carries(s) /\ toNode[s] = <<>>)
            => holder[Owner[s]] = told[s]

\* Between its calls BOINC has the policy Folding@home is held to, unless a
\* call failed, two loops' calls overlapped, or the node restarted, since the
\* last time BOINC was given one.
EnginesHaveOnePolicy ==
    \A n \in Nodes : Busy(n) = {} => native[n] = holder[n] \/ n \in astray

\* n is connected and has been told its stored policy; its loop has that still
\* to take, or was the last to set the holder; no older connection's loop is
\* left, to set it once more with what it had received.
Settled(n) ==
    LET s == registry[n]
    IN  /\ Serving(n)
        /\ Carries(s)
        /\ told[s] = stored[n]
        /\ toNode[s] # <<>> \/ by[n] = s
        /\ loops \cap Mine(n) \subseteq {s}

\* A node in that situation comes to hold its policy (REQUIREMENTS.md:150: "a
\* node that comes back online always converges to the latest policy"), and
\* so does its BOINC, unless that was led astray.
Converges ==
    \A n \in Nodes :
        Settled(n) ~> \/ ~Settled(n)
                      \/ /\ holder[n] = stored[n]
                         /\ native[n] = stored[n] \/ n \in astray

\* Policies leave the registry and the connections to Connections.
ImplementsConnections == ConnInit /\ [][ConnNext]_connVars
=============================================================================
