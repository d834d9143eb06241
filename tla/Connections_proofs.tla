------------------------- MODULE Connections_proofs -------------------------
(***************************************************************************)
(* Proofs about Connections, for any set of nodes and sockets.  ConnInv is *)
(* inductive: ServedIsRegistered needs nothing but the types, and          *)
(* EntryHasCoroutine needs to know whose socket an entry is, which is its  *)
(* own first conjunct.                                                     *)
(***************************************************************************)
EXTENDS Connections, TLAPS

\* The initial state satisfies the invariant.
LEMMA ConnInitInv == ConnInit => ConnInv
<1> SUFFICES ASSUME ConnInit PROVE ConnInv
  OBVIOUS
<1>1. ConnTypeOK
  BY DEF ConnInit, ConnTypeOK, Phases
<1>2. ServedIsRegistered
  BY DEF ConnInit, ServedIsRegistered
<1>3. EntryHasCoroutine
  BY DEF ConnInit, EntryHasCoroutine
<1> QED
  BY <1>1, <1>2, <1>3 DEF ConnInv

\* Every step of the registry, the coroutines or the network keeps the types.
LEMMA ConnStepType == ConnTypeOK /\ [ConnNext]_connVars => ConnTypeOK'
<1> USE OwnerAssumption, NoSocketAssumption
<1> SUFFICES ASSUME ConnTypeOK, [ConnNext]_connVars PROVE ConnTypeOK'
  OBVIOUS
<1>1. ASSUME NEW s \in Sockets, Connect(s) PROVE ConnTypeOK'
  BY <1>1 DEF Connect, ConnTypeOK, Phases
<1>2. ASSUME NEW s \in Sockets, NodeLeaves(s) \/ NodeNotices(s)
      PROVE ConnTypeOK'
  BY <1>2 DEF NodeLeaves, NodeNotices, ConnTypeOK
<1>3. ASSUME NEW s \in Sockets, Register(s) PROVE ConnTypeOK'
  BY <1>3 DEF Register, ConnTypeOK, Phases
<1>4. ASSUME NEW s \in Sockets, NEW greet \in BOOLEAN, Greet(s, greet)
      PROVE ConnTypeOK'
  BY <1>4 DEF Greet, ConnTypeOK, Phases
<1>5. ASSUME NEW s \in Sockets, ServeEnds(s) PROVE ConnTypeOK'
  BY <1>5 DEF ServeEnds, ConnTypeOK, Phases
<1>6. ASSUME NEW s \in Sockets, HubNotices(s) \/ Sever(s) PROVE ConnTypeOK'
  BY <1>6 DEF HubNotices, Sever, ConnTypeOK
<1>7. CASE HubRestart
  BY <1>7 DEF HubRestart, ConnTypeOK, Phases
<1>8. CASE UNCHANGED connVars
  BY <1>8 DEF connVars, ConnTypeOK
<1> QED
  BY <1>1, <1>2, <1>3, <1>4, <1>5, <1>6, <1>7, <1>8 DEF ConnNext

\* No step leaves a served, open connection out of the registry.
LEMMA ConnStepServed ==
    ConnTypeOK /\ ServedIsRegistered /\ [ConnNext]_connVars
        => ServedIsRegistered'
<1> USE OwnerAssumption, NoSocketAssumption
<1> SUFFICES ASSUME ConnTypeOK, ServedIsRegistered, [ConnNext]_connVars
             PROVE ServedIsRegistered'
  OBVIOUS
<1>1. ASSUME NEW s \in Sockets, Connect(s) PROVE ServedIsRegistered'
  BY <1>1 DEF Connect, ConnTypeOK, ServedIsRegistered
<1>2. ASSUME NEW s \in Sockets, NodeLeaves(s) \/ NodeNotices(s) \/ Sever(s)
      PROVE ServedIsRegistered'
  BY <1>2 DEF NodeLeaves, NodeNotices, Sever, ServedIsRegistered
<1>3. ASSUME NEW s \in Sockets, Register(s) PROVE ServedIsRegistered'
  \* Another served, open socket of the node would be its entry, and the
  \* entry is closed here.
  BY <1>3 DEF Register, ConnTypeOK, ServedIsRegistered
<1>4. ASSUME NEW s \in Sockets, NEW greet \in BOOLEAN, Greet(s, greet)
      PROVE ServedIsRegistered'
  BY <1>4 DEF Greet, ConnTypeOK, ServedIsRegistered
<1>5. ASSUME NEW s \in Sockets, ServeEnds(s) PROVE ServedIsRegistered'
  BY <1>5 DEF ServeEnds, ConnTypeOK, ServedIsRegistered
<1>6. ASSUME NEW s \in Sockets, HubNotices(s) PROVE ServedIsRegistered'
  BY <1>6 DEF HubNotices, ConnTypeOK, ServedIsRegistered
<1>7. CASE HubRestart
  BY <1>7 DEF HubRestart, ServedIsRegistered
<1>8. CASE UNCHANGED connVars
  BY <1>8 DEF connVars, ServedIsRegistered
<1> QED
  BY <1>1, <1>2, <1>3, <1>4, <1>5, <1>6, <1>7, <1>8 DEF ConnNext

\* No step ends a coroutine normally and leaves its entry behind.
LEMMA ConnStepEntry ==
    ConnTypeOK /\ EntryHasCoroutine /\ [ConnNext]_connVars
        => EntryHasCoroutine'
<1> USE OwnerAssumption, NoSocketAssumption
<1> SUFFICES ASSUME ConnTypeOK, EntryHasCoroutine, [ConnNext]_connVars
             PROVE EntryHasCoroutine'
  OBVIOUS
<1>1. ASSUME NEW s \in Sockets, Connect(s) PROVE EntryHasCoroutine'
  BY <1>1 DEF Connect, ConnTypeOK, EntryHasCoroutine
<1>2. ASSUME NEW s \in Sockets,
             NodeLeaves(s) \/ NodeNotices(s) \/ Sever(s) \/ HubNotices(s)
      PROVE EntryHasCoroutine'
  BY <1>2 DEF NodeLeaves, NodeNotices, Sever, HubNotices, EntryHasCoroutine
<1>3. ASSUME NEW s \in Sockets, Register(s) PROVE EntryHasCoroutine'
  BY <1>3 DEF Register, ConnTypeOK, EntryHasCoroutine
<1>4. ASSUME NEW s \in Sockets, NEW greet \in BOOLEAN, Greet(s, greet)
      PROVE EntryHasCoroutine'
  BY <1>4 DEF Greet, ConnTypeOK, EntryHasCoroutine
<1>5. ASSUME NEW s \in Sockets, ServeEnds(s) PROVE EntryHasCoroutine'
  BY <1>5 DEF ServeEnds, ConnTypeOK, EntryHasCoroutine
<1>6. CASE HubRestart
  BY <1>6 DEF HubRestart, EntryHasCoroutine
<1>7. CASE UNCHANGED connVars
  BY <1>7 DEF connVars, EntryHasCoroutine
<1> QED
  BY <1>1, <1>2, <1>3, <1>4, <1>5, <1>6, <1>7 DEF ConnNext

\* Type correctness of the registry and the connections, for every behaviour
\* of the module, fair or not.
THEOREM ConnTypeCorrect == ConnInit /\ [][ConnNext]_connVars => []ConnTypeOK
<1>1. ConnInit => ConnTypeOK
  BY ConnInitInv DEF ConnInv
<1> QED
  BY <1>1, ConnStepType, PTL

\* A connection that node_ws serves and the hub believes open is always the
\* node's entry in the registry.
THEOREM ConnServed == ConnInit /\ [][ConnNext]_connVars => []ServedIsRegistered
<1>1. ConnInit => ServedIsRegistered
  BY ConnInitInv DEF ConnInv
<1> QED
  BY <1>1, ConnTypeCorrect, ConnStepServed, PTL

\* An entry is the node's own socket and its coroutine has not ended normally.
THEOREM ConnEntry == ConnInit /\ [][ConnNext]_connVars => []EntryHasCoroutine
<1>1. ConnInit => EntryHasCoroutine
  BY ConnInitInv DEF ConnInv
<1> QED
  BY <1>1, ConnTypeCorrect, ConnStepEntry, PTL

\* disconnect() and connect() never take a live connection out of the
\* registry.
THEOREM ConnOnlyClosedLeave ==
    ConnInit /\ [][ConnNext]_connVars => OnlyClosedLeave
<1> DEFINE Kept(n) == registry[n] # NoSocket /\ registry'[n] # registry[n]
                         => registry[n] \notin hubOpen'
<1>1. ConnTypeOK /\ [ConnNext]_connVars
        => [\A n \in Nodes : Kept(n)]_connVars
  <2> USE OwnerAssumption
  <2> SUFFICES ASSUME ConnTypeOK, ConnNext, NEW n \in Nodes PROVE Kept(n)
    OBVIOUS
  <2>1. ASSUME NEW s \in Sockets, Register(s) PROVE Kept(n)
    BY <2>1 DEF Register, ConnTypeOK
  <2>2. ASSUME NEW s \in Sockets, ServeEnds(s) PROVE Kept(n)
    BY <2>2 DEF ServeEnds, ConnTypeOK
  <2>3. CASE HubRestart
    BY <2>3 DEF HubRestart
  <2>4. CASE UNCHANGED registry
    BY <2>4
  <2> QED
    BY <2>1, <2>2, <2>3, <2>4
    DEF ConnNext, Connect, NodeLeaves, NodeNotices, Greet, HubNotices, Sever
<1> QED
  BY <1>1, ConnTypeCorrect, PTL DEF OnlyClosedLeave

-----------------------------------------------------------------------------
(***************************************************************************)
(* Liveness.  The prover has no rule for ENABLED, so the two theorems take *)
(* from TLC what WF needs to know of it: that a coroutine whose conditions *)
(* hold can take its step.                                                 *)
(***************************************************************************)
\* What the conditions of Register, Greet, ServeEnds and HubNotices promise.
ReadySocket(s) ==
    /\ handler[s] = "accepted" => ENABLED <<Register(s)>>_connVars
    /\ handler[s] = "greeting" => ENABLED <<Greets(s)>>_connVars
    /\ handler[s] = "serving" /\ s \notin hubOpen =>
          ENABLED <<ServeEnds(s)>>_connVars
    /\ s \in hubOpen /\ s \notin nodeOpen => ENABLED <<HubNotices(s)>>_connVars

ConnReady == \A s \in Sockets : ReadySocket(s)

\* A socket the hub believes open has a coroutine that has neither ended nor
\* raised: node_ws never leaves a live connection behind without closing it.
OpenHasCoroutine ==
    \A s \in Sockets :
        s \in hubOpen => handler[s] \in {"accepted", "greeting", "serving"}

LEMMA ConnStepOpen ==
    ConnTypeOK /\ OpenHasCoroutine /\ [ConnNext]_connVars => OpenHasCoroutine'
<1> SUFFICES ASSUME ConnTypeOK, OpenHasCoroutine, [ConnNext]_connVars
             PROVE OpenHasCoroutine'
  OBVIOUS
<1>1. ASSUME NEW s \in Sockets, Connect(s) PROVE OpenHasCoroutine'
  BY <1>1 DEF Connect, ConnTypeOK, OpenHasCoroutine
<1>2. ASSUME NEW s \in Sockets, NodeLeaves(s) \/ NodeNotices(s) \/ Sever(s)
      PROVE OpenHasCoroutine'
  BY <1>2 DEF NodeLeaves, NodeNotices, Sever, OpenHasCoroutine
<1>3. ASSUME NEW s \in Sockets, Register(s) PROVE OpenHasCoroutine'
  BY <1>3 DEF Register, ConnTypeOK, OpenHasCoroutine
<1>4. ASSUME NEW s \in Sockets, NEW greet \in BOOLEAN, Greet(s, greet)
      PROVE OpenHasCoroutine'
  BY <1>4 DEF Greet, ConnTypeOK, OpenHasCoroutine
<1>5. ASSUME NEW s \in Sockets, ServeEnds(s) PROVE OpenHasCoroutine'
  BY <1>5 DEF ServeEnds, ConnTypeOK, OpenHasCoroutine
<1>6. ASSUME NEW s \in Sockets, HubNotices(s) PROVE OpenHasCoroutine'
  BY <1>6 DEF HubNotices, OpenHasCoroutine
<1>7. CASE HubRestart
  BY <1>7 DEF HubRestart, OpenHasCoroutine
<1>8. CASE UNCHANGED connVars
  BY <1>8 DEF connVars, OpenHasCoroutine
<1> QED
  BY <1>1, <1>2, <1>3, <1>4, <1>5, <1>6, <1>7, <1>8 DEF ConnNext

\* A socket the hub believes open always has its coroutine.
THEOREM ConnOpen == ConnInit /\ [][ConnNext]_connVars => []OpenHasCoroutine
<1>1. ConnInit => OpenHasCoroutine
  BY DEF ConnInit, OpenHasCoroutine
<1> QED
  BY <1>1, ConnTypeCorrect, ConnStepOpen, PTL

\* One socket of StableGetsRegistered: while it carries frames and is not the
\* registered one, its coroutine is at connect(), which registers it.
LEMMA ConnRegistersStable ==
    ASSUME NEW s \in Sockets
    PROVE  ConnSpec /\ []ConnReady
               => (Carries(s) ~> (registry[Owner[s]] = s \/ ~Carries(s)))
<1> DEFINE Unregistered == Carries(s) /\ registry[Owner[s]] # s
           Accepted     == handler[s] = "accepted"
<1>1. ServedIsRegistered /\ OpenHasCoroutine => (Unregistered => Accepted)
  BY DEF ServedIsRegistered, OpenHasCoroutine, Carries
<1>2. ConnTypeOK /\ Register(s) => ~Unregistered'
  BY OwnerAssumption DEF Register, ConnTypeOK
<1>3. ConnReady => (Accepted => ENABLED <<Register(s)>>_connVars)
  BY DEF ConnReady, ReadySocket
<1>4. ConnFairness => FairSocket(s)
  BY DEF ConnFairness
<1>5. Unregistered \/ registry[Owner[s]] = s \/ ~Carries(s)
  OBVIOUS
<1>6. ConnInit /\ [][ConnNext]_connVars
        => [](ConnTypeOK /\ ServedIsRegistered /\ OpenHasCoroutine)
  BY ConnTypeCorrect, ConnServed, ConnOpen, PTL
<1> HIDE DEF Unregistered, Accepted
<1> QED
  BY <1>1, <1>2, <1>3, <1>4, <1>5, <1>6, PTL DEF ConnSpec, FairSocket

\* A connection that stays up ends up as its node's registered connection,
\* for any number of nodes and connections.
THEOREM ConnStableGetsRegistered ==
    ConnSpec /\ []ConnReady => StableGetsRegistered
  BY ConnRegistersStable DEF StableGetsRegistered

\* One socket of OfflineIsNoticed.  Left by the node and still registered, it
\* stays left, so the hub learns of it; its coroutine gets past the greeting,
\* where it may raise; and once it serves a closed socket, it ends.
LEMMA ConnNoticesOffline ==
    ASSUME NEW s \in Sockets
    PROVE  ConnSpec /\ []ConnReady
               => ((registry[Owner[s]] = s /\ s \notin nodeOpen)
                      ~> (registry[Owner[s]] # s \/ handler[s] = "raised"))
<1> USE OwnerAssumption, NoSocketAssumption
<1> DEFINE Inv      == ConnTypeOK /\ EntryHasCoroutine
           Left     == registry[Owner[s]] = s /\ s \notin nodeOpen
           Noticed  == registry[Owner[s]] # s \/ handler[s] = "raised"
           Open     == s \in hubOpen
           Greeting == handler[s] = "greeting"
           Serving  == handler[s] = "serving"
<1>1. Inv /\ Left => Noticed \/ Greeting \/ Serving
  BY DEF EntryHasCoroutine, ConnTypeOK
<1>2. Inv /\ Left /\ ~Noticed /\ [ConnNext]_connVars
        => \/ Noticed'
           \/ /\ Left'
              /\ ~Open => ~Open'
              /\ Serving => Serving'
  <2> SUFFICES ASSUME Inv, Left, ~Noticed, [ConnNext]_connVars, ~Noticed'
               PROVE  /\ Left'
                      /\ ~Open => ~Open'
                      /\ Serving => Serving'
    OBVIOUS
  <2>1. handler[s] \in {"greeting", "serving"} /\ registry[Owner[s]] = s
    BY <1>1
  <2>2. ASSUME NEW t \in Sockets, Connect(t)
        PROVE  s \notin nodeOpen' /\ (~Open => ~Open') /\ (Serving => Serving')
    BY <2>1, <2>2 DEF Connect, ConnTypeOK
  <2>3. ASSUME NEW t \in Sockets, Register(t)
        PROVE  s \notin nodeOpen' /\ (~Open => ~Open') /\ (Serving => Serving')
    BY <2>1, <2>3 DEF Register, ConnTypeOK
  <2>4. ASSUME NEW t \in Sockets, NEW greet \in BOOLEAN, Greet(t, greet)
        PROVE  s \notin nodeOpen' /\ (~Open => ~Open') /\ (Serving => Serving')
    BY <2>1, <2>4 DEF Greet, ConnTypeOK
  <2>5. ASSUME NEW t \in Sockets, ServeEnds(t)
        PROVE  s \notin nodeOpen' /\ (~Open => ~Open') /\ (Serving => Serving')
    <3>1. t # s
      BY <2>1, <2>5 DEF ServeEnds, ConnTypeOK
    <3> QED
      BY <2>5, <3>1 DEF ServeEnds, ConnTypeOK
  <2>6. ASSUME HubRestart PROVE FALSE
    BY <2>6, <2>1 DEF HubRestart, ConnTypeOK
  <2>7. ASSUME NEW t \in Sockets,
               NodeLeaves(t) \/ NodeNotices(t) \/ HubNotices(t) \/ Sever(t)
        PROVE  s \notin nodeOpen' /\ (~Open => ~Open') /\ (Serving => Serving')
    BY <2>7 DEF NodeLeaves, NodeNotices, HubNotices, Sever
  <2>8. ASSUME UNCHANGED connVars
        PROVE  s \notin nodeOpen' /\ (~Open => ~Open') /\ (Serving => Serving')
    BY <2>8 DEF connVars
  <2>9. s \notin nodeOpen' /\ (~Open => ~Open') /\ (Serving => Serving')
    BY <2>2, <2>3, <2>4, <2>5, <2>6, <2>7, <2>8 DEF ConnNext
  <2> QED
    BY <2>9
<1>3. HubNotices(s) => ~Open'
  BY DEF HubNotices
<1>4. Inv /\ Greets(s) => ~Greeting'
  BY DEF Greets, Greet, ConnTypeOK
<1>5. Inv /\ Left /\ ServeEnds(s) => Noticed'
  BY DEF ServeEnds, ConnTypeOK
<1>6. ConnReady
        => /\ Open /\ Left => ENABLED <<HubNotices(s)>>_connVars
           /\ Greeting => ENABLED <<Greets(s)>>_connVars
           /\ Serving /\ ~Open => ENABLED <<ServeEnds(s)>>_connVars
  BY DEF ConnReady, ReadySocket
<1>7. ConnFairness => FairSocket(s)
  BY DEF ConnFairness
<1>8. ConnInit /\ [][ConnNext]_connVars => []Inv
  BY ConnTypeCorrect, ConnEntry, PTL
<1>9. /\ Left <=> registry[Owner[s]] = s /\ s \notin nodeOpen
      /\ Noticed <=> registry[Owner[s]] # s \/ handler[s] = "raised"
  OBVIOUS
<1> HIDE DEF Inv, Left, Noticed, Open, Greeting, Serving
<1>10. ConnSpec /\ []ConnReady => (Left ~> Noticed)
  BY <1>1, <1>2, <1>3, <1>4, <1>5, <1>6, <1>7, <1>8, PTL DEF ConnSpec, FairSocket
<1> QED
  BY <1>9, <1>10, PTL

\* A socket the node has left does not stay registered, unless its coroutine
\* raised before its try/finally; for any number of nodes and connections.
THEOREM ConnOfflineIsNoticed ==
    ConnSpec /\ []ConnReady => OfflineIsNoticed
  BY ConnNoticesOffline DEF OfflineIsNoticed
=============================================================================
