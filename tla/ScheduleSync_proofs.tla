------------------------- MODULE ScheduleSync_proofs -------------------------
(***************************************************************************)
(* Proofs about ScheduleSync, for any nodes, sockets, requests and         *)
(* failures.                                                               *)
(***************************************************************************)
EXTENDS ScheduleSync, Connections_proofs, SequenceTheorems

\* Every step leaves the connections alone or is one of theirs.
LEMMA SyncStepIsConnStep ==
    ConnTypeOK /\ [SyncNext]_vars => [ConnNext]_connVars
<1> SUFFICES ASSUME ConnTypeOK, [SyncNext]_vars PROVE [ConnNext]_connVars
  OBVIOUS
<1>1. ASSUME NEW r \in Requests, NEW T, NEW S,
             Apply(r, T, S) \/ Resume(r, S) \/ SendRaises(r)
      PROVE UNCHANGED connVars
  BY <1>1 DEF Apply, Resume, SendRaises
<1>2. ASSUME NEW s \in Sockets,
             Take(s) \/ Applied(s) \/ NativeFails(s) \/ LoopEnds(s)
      PROVE UNCHANGED connVars
  BY <1>2 DEF Take, Applied, NativeFails, LoopEnds
<1>3. ASSUME NEW s \in Sockets, Greeted(s) PROVE ConnNext
  <2>1. (stored[Owner[s]] # Unset) \in BOOLEAN
    OBVIOUS
  <2>2. PICK greet \in BOOLEAN : Greet(s, greet)
    BY <1>3, <2>1 DEF Greeted
  <2> QED
    BY <2>2 DEF ConnNext
<1>4. ASSUME NEW s \in Sockets, NodeConnects(s) \/ ConnectionStep(s)
      PROVE ConnNext
  BY <1>4 DEF NodeConnects, ConnectionStep, ConnNext
<1>5. ASSUME NEW n \in Nodes, NodeRestart(n) PROVE [ConnNext]_connVars
  <2>1. CASE current[n] \in nodeOpen
    BY <1>5, <2>1 DEF NodeRestart, ConnNext, ConnTypeOK
  <2>2. CASE current[n] \notin nodeOpen
    BY <1>5, <2>2 DEF NodeRestart
  <2> QED
    BY <2>1, <2>2
<1>6. CASE HubStops
  BY <1>6 DEF HubStops, ConnNext
<1>7. CASE UNCHANGED vars
  BY <1>7 DEF vars
<1> QED
  BY <1>1, <1>2, <1>3, <1>4, <1>5, <1>6, <1>7 DEF SyncNext

\* Whatever Connections promises of the registry holds while policies use it.
THEOREM SyncImplementsConnections == SyncSpec => ImplementsConnections
<1>1. SyncInit => ConnInit /\ ConnTypeOK
  BY ConnInitInv DEF SyncInit, ConnInv
<1>2. ConnTypeOK /\ [SyncNext]_vars => ConnTypeOK'
  BY SyncStepIsConnStep, ConnStepType
<1> QED
  BY <1>1, <1>2, SyncStepIsConnStep, PTL DEF SyncSpec, ImplementsConnections

-----------------------------------------------------------------------------
(***************************************************************************)
(* Type correctness.                                                       *)
(***************************************************************************)
\* Whose sockets a push goes to, and which it leaves alone.
LEMMA PushedSockets ==
    ASSUME ConnTypeOK, EntryHasCoroutine, NEW S \in SUBSET Nodes
    PROVE  /\ Pushed(S) \subseteq Sockets
           /\ \A t \in Pushed(S) : handler[t] # "none" /\ t \in hubOpen
           /\ \A n \in S : Serving(n) => registry[n] \in Pushed(S)
           /\ \A n \in Nodes \ S : IsOnline(n) => registry[n] \notin Pushed(S)
  BY NoSocketAssumption
  DEF Pushed, Broken, IsOnline, Serving, ConnTypeOK, EntryHasCoroutine

\* A write changes only the sockets it goes to, and appends one frame.
LEMMA WriteType ==
    ASSUME SyncTypeOK, NEW S, NEW p \in Policies, Write(S, p)
    PROVE  /\ told' \in [Sockets -> Policies \cup {Unset}]
           /\ toNode' \in [Sockets -> Seq(Policies)]
  BY DEF SyncTypeOK, Write

\* A burst of pushes keeps the types of what it changes.
LEMMA WalkType ==
    ASSUME SyncTypeOK, NEW r \in Requests, NEW rest \in SUBSET Nodes,
           NEW S, Walk(r, rest, S)
    PROVE  /\ pc' \in [Requests -> {"idle", "draining", "returned", "failed",
                                    "lost"}]
           /\ todo' \in [Requests -> SUBSET Nodes]
           /\ via' \in [Requests -> Sockets \cup {NoSocket}]
           /\ suspended' \subseteq Requests
           /\ told' \in [Sockets -> Policies \cup {Unset}]
           /\ toNode' \in [Sockets -> Seq(Policies)]
<1>1. Write(Pushed(S), r)
  BY DEF Walk
<1>2. /\ told' \in [Sockets -> Policies \cup {Unset}]
      /\ toNode' \in [Sockets -> Seq(Policies)]
  BY <1>1, WriteType DEF Policies
<1>3. \A n \in Nodes : registry[n] \in Sockets \cup {NoSocket}
  BY DEF SyncTypeOK, ConnTypeOK
<1>4. via' \in [Requests -> Sockets \cup {NoSocket}]
  BY <1>3, SlowAssumption DEF SyncTypeOK, Walk
<1> QED
  BY <1>2, <1>4 DEF SyncTypeOK, Walk

\* Initially every variable has its type.
LEMMA SyncInitType == SyncInit => SyncTypeOK
<1> SUFFICES ASSUME SyncInit PROVE SyncTypeOK
  OBVIOUS
<1>1. ConnTypeOK
  BY ConnInitInv DEF SyncInit, ConnInv
<1> QED
  BY <1>1 DEF SyncInit, SyncTypeOK

\* Every step keeps the types.
LEMMA SyncStepType == SyncTypeOK /\ [SyncNext]_vars => SyncTypeOK'
<1> USE OwnerAssumption DEF requestVars, hubVars, nodeVars
<1> SUFFICES ASSUME SyncTypeOK, [SyncNext]_vars PROVE SyncTypeOK'
  OBVIOUS
<1>c. ConnTypeOK'
  BY SyncStepIsConnStep, ConnStepType DEF SyncTypeOK
<1> USE <1>c
<1>1. ASSUME NEW r \in Requests, NEW T \in SUBSET Nodes, NEW S \in SUBSET T,
             Apply(r, T, S)
      PROVE SyncTypeOK'
  <2>1. Walk(r, T, S) /\ UNCHANGED nodeVars
    BY <1>1 DEF Apply
  <2>2. stored' \in [Nodes -> Policies \cup {Unset}]
    BY <1>1 DEF Apply, SyncTypeOK, Policies
  <2> QED
    BY <2>1, <2>2, WalkType DEF SyncTypeOK
<1>2. ASSUME NEW r \in Requests, NEW S \in SUBSET todo[r], Resume(r, S)
      PROVE SyncTypeOK'
  <2>1. Walk(r, todo[r], S) /\ UNCHANGED <<stored, nodeVars>>
    BY <1>2 DEF Resume
  <2>2. todo[r] \in SUBSET Nodes
    BY DEF SyncTypeOK
  <2> QED
    BY <2>1, <2>2, WalkType DEF SyncTypeOK
<1>3. ASSUME NEW r \in Requests, SendRaises(r) PROVE SyncTypeOK'
  BY <1>3 DEF SendRaises, SyncTypeOK
<1>4. ASSUME NEW s \in Sockets, Greeted(s) PROVE SyncTypeOK'
  <2>1. CASE stored[Owner[s]] # Unset /\ s \in hubOpen
    <3>1. Write({s}, stored[Owner[s]]) /\ stored[Owner[s]] \in Policies
      BY <1>4, <2>1 DEF Greeted, SyncTypeOK
    <3> QED
      BY <1>4, <3>1, WriteType DEF Greeted, SyncTypeOK
  <2>2. CASE ~(stored[Owner[s]] # Unset /\ s \in hubOpen)
    BY <1>4, <2>2 DEF Greeted, SyncTypeOK
  <2> QED
    BY <2>1, <2>2
<1>5. ASSUME NEW s \in Sockets, NodeConnects(s) \/ ConnectionStep(s)
      PROVE SyncTypeOK'
  BY <1>5 DEF NodeConnects, ConnectionStep, SyncTypeOK
<1>6. ASSUME NEW s \in Sockets, Take(s) PROVE SyncTypeOK'
  <2>1. Head(toNode[s]) \in Policies /\ Tail(toNode[s]) \in Seq(Policies)
    BY <1>6 DEF Take, SyncTypeOK
  <2>2. toNode' \in [Sockets -> Seq(Policies)]
    BY <1>6, <2>1 DEF Take, SyncTypeOK
  <2>3. applying' \in [Sockets -> Policies \cup {Unset}]
    BY <1>6, <2>1 DEF Take, SyncTypeOK
  <2>4. /\ holder' \in [Nodes -> Policies \cup {Unset}]
        /\ by' \in [Nodes -> Sockets \cup {NoSocket}]
        /\ astray' \subseteq Nodes
    BY <1>6, <2>1 DEF Take, SyncTypeOK
  <2>5. UNCHANGED <<requestVars, hubVars, loops, native>>
    BY <1>6 DEF Take
  <2> HIDE <1>6
  <2> QED
    BY <2>2, <2>3, <2>4, <2>5 DEF SyncTypeOK
<1>7. ASSUME NEW s \in Sockets, Applied(s) \/ NativeFails(s) \/ LoopEnds(s)
      PROVE SyncTypeOK'
  <2>1. <<>> \in Seq(Policies)
    OBVIOUS
  <2>2. CASE Applied(s)
    BY <2>2 DEF Applied, SyncTypeOK
  <2>3. CASE NativeFails(s)
    BY <2>3 DEF NativeFails, SyncTypeOK
  <2>4. CASE LoopEnds(s)
    BY <2>1, <2>4 DEF LoopEnds, SyncTypeOK
  <2> QED
    BY <1>7, <2>2, <2>3, <2>4
<1>8. ASSUME NEW n \in Nodes, NodeRestart(n) PROVE SyncTypeOK'
  <2>1. <<>> \in Seq(Policies)
    OBVIOUS
  <2> QED
    BY <1>8, <2>1 DEF NodeRestart, SyncTypeOK
<1>9. CASE HubStops
  BY <1>9 DEF HubStops, SyncTypeOK
<1>10. CASE UNCHANGED vars
  BY <1>10 DEF vars, SyncTypeOK
<1> QED
  BY <1>1, <1>2, <1>3, <1>4, <1>5, <1>6, <1>7, <1>8, <1>9, <1>10 DEF SyncNext

\* Every variable keeps its type, whatever fails and in whatever order.
THEOREM SyncTypeCorrect == SyncSpec => []SyncTypeOK
<1>1. SyncInit /\ [][SyncNext]_vars => []SyncTypeOK
  BY SyncInitType, SyncStepType, PTL
<1> QED
  BY <1>1, PTL DEF SyncSpec

-----------------------------------------------------------------------------
(***************************************************************************)
(* What the hub has told its connections.                                  *)
(***************************************************************************)
\* ToldIsStored with what makes it inductive: a socket of a node without a
\* stored policy has been told none, no request goes to such a node, and a
\* request that waits has been noted.
ToldInv ==
    /\ ToldIsStored
    /\ \A s \in Sockets : stored[Owner[s]] = Unset => told[s] = Unset
    /\ \A r \in Requests : \A n \in todo[r] : stored[n] # Unset
    /\ \A r \in Requests : pc[r] = "draining" => r \in suspended

\* A request that stops before the end of rest waits or has failed.
LEMMA WalkStops ==
    ASSUME SyncTypeOK, NEW r \in Requests, NEW rest \in SUBSET Nodes,
           NEW S \in SUBSET rest, Walk(r, rest, S)
    PROVE  /\ S # rest => pc'[r] \in {"draining", "failed"}
           /\ pc'[r] = "draining" => r \in suspended'
           /\ \A q \in Requests \ {r} : pc'[q] = pc[q] /\ todo'[q] = todo[q]
           /\ todo'[r] = rest \ S
           /\ suspended \subseteq suspended'
  BY DEF Walk, SyncTypeOK

\* One burst of pushes, on the rows as it leaves them.
LEMMA WalkTold ==
    ASSUME SyncTypeOK, EntryHasCoroutine, ToldInv, UNCHANGED connVars,
           NEW r \in Requests, NEW rest \in SUBSET Nodes,
           NEW S \in SUBSET rest, Walk(r, rest, S),
           \A n \in rest : stored'[n] = r \/ (r \in suspended /\ stored'[n] = stored[n]),
           \A n \in rest : stored'[n] # Unset,
           \A n \in Nodes \ rest : stored'[n] = stored[n],
           \/ pc[r] = "idle"
           \/ pc[r] = "draining" /\ rest = todo[r] /\ stored' = stored
    PROVE  ToldInv'
<1>0. /\ S # rest => pc'[r] \in {"draining", "failed"}
      /\ pc'[r] = "draining" => r \in suspended'
      /\ \A q \in Requests \ {r} : pc'[q] = pc[q] /\ todo'[q] = todo[q]
      /\ todo'[r] = rest \ S
      /\ suspended \subseteq suspended'
  BY WalkStops
<1>1. /\ Pushed(S) \subseteq Sockets
      /\ \A n \in S : Serving(n) => registry[n] \in Pushed(S)
      /\ \A n \in Nodes \ S : IsOnline(n) => registry[n] \notin Pushed(S)
      /\ \A t \in Pushed(S) : Owner[t] \in S
  <2>1. \A t \in Pushed(S) : Owner[t] \in S
    BY DEF Pushed, IsOnline, EntryHasCoroutine
  <2> QED
    BY <2>1, PushedSockets DEF SyncTypeOK
<1>2. \A t \in Sockets : told'[t] = IF t \in Pushed(S) THEN r ELSE told[t]
  BY DEF Walk, Write
<1>3. ToldIsStored'
  <2> SUFFICES ASSUME NEW n \in Nodes, Serving(n)',
                      told'[registry'[n]] # stored'[n],
                      told'[registry'[n]] \notin suspended'
               PROVE  Missed(n)'
    BY DEF ToldIsStored
  <2>1. /\ Serving(n) /\ IsOnline(n)
        /\ registry'[n] = registry[n] /\ registry[n] \in Sockets
    BY DEF Serving, IsOnline, connVars, SyncTypeOK, ConnTypeOK
  <2>2. CASE n \in S
    BY <1>0, <1>1, <1>2, <2>1, <2>2
  <2>3. CASE n \in rest /\ n \notin S
    <3>1. told'[registry[n]] = told[registry[n]]
      BY <1>1, <1>2, <2>1, <2>3
    <3>2. n \in todo'[r] /\ pc'[r] \in {"draining", "failed"}
      BY <1>0, <2>3
    <3>3. CASE stored'[n] = r
      BY <3>2, <3>3 DEF Missed
    <3>4. CASE r \in suspended /\ stored'[n] = stored[n] /\ stored[n] # r
      <4>1. Missed(n)
        BY <1>0, <2>1, <3>1, <3>4 DEF ToldInv, ToldIsStored
      <4> QED
        BY <1>0, <3>4, <4>1 DEF Missed
    <3> QED
      BY <2>3, <3>3, <3>4
  <2>4. CASE n \notin rest
    <3>1. told'[registry[n]] = told[registry[n]] /\ stored'[n] = stored[n]
      BY <1>1, <1>2, <2>1, <2>4
    <3>2. Missed(n)
      BY <1>0, <2>1, <3>1 DEF ToldInv, ToldIsStored
    <3>3. PICK q \in Requests : stored[n] = q /\ pc[q] \in {"draining", "failed"}
                                 /\ n \in todo[q]
      BY <3>2 DEF Missed
    <3>4. q # r
      BY <2>4, <3>3
    <3>5. pc'[q] = pc[q] /\ todo'[q] = todo[q]
      BY <1>0, <3>4
    <3> QED
      BY <3>1, <3>3, <3>5 DEF Missed
  <2> QED
    BY <2>2, <2>3, <2>4
<1>4. \A s \in Sockets : stored'[Owner[s]] = Unset => told'[s] = Unset
  BY <1>1, <1>2, OwnerAssumption DEF ToldInv
<1>5. \A q \in Requests : pc'[q] = "draining" => q \in suspended'
  BY <1>0 DEF ToldInv
<1>6. \A q \in Requests : \A n \in todo'[q] : stored'[n] # Unset
  <2>1. \A n \in Nodes : stored[n] # Unset => stored'[n] # Unset
    OBVIOUS
  <2> QED
    BY <1>0, <2>1 DEF ToldInv, SyncTypeOK
<1> QED
  BY <1>3, <1>4, <1>5, <1>6 DEF ToldInv, connVars

\* Every step keeps ToldInv: the pushes by WalkTold, the greeting because it
\* writes what is stored, the others because they serve no new connection.
LEMMA ToldStep ==
    SyncTypeOK /\ EntryHasCoroutine /\ ToldInv /\ [SyncNext]_vars => ToldInv'
<1> USE OwnerAssumption, UnsetAssumption DEF requestVars, hubVars, nodeVars
<1> SUFFICES ASSUME SyncTypeOK, EntryHasCoroutine, ToldInv, [SyncNext]_vars
             PROVE ToldInv'
  OBVIOUS
<1>1. ASSUME NEW r \in Requests, NEW T \in SUBSET Nodes, NEW S \in SUBSET T,
             Apply(r, T, S)
      PROVE ToldInv'
  <2>1. /\ \A n \in T : stored'[n] = r /\ r # Unset
        /\ \A n \in Nodes \ T : stored'[n] = stored[n]
    BY <1>1 DEF Apply, Policies
  <2>2. Walk(r, T, S) /\ UNCHANGED connVars /\ pc[r] = "idle"
    BY <1>1 DEF Apply
  <2> QED
    BY <2>1, <2>2, WalkTold
<1>2. ASSUME NEW r \in Requests, NEW S \in SUBSET todo[r], Resume(r, S)
      PROVE ToldInv'
  <2>0. todo[r] \in SUBSET Nodes
    BY DEF SyncTypeOK
  <2>1. Walk(r, todo[r], S) /\ UNCHANGED <<connVars, stored>> /\ pc[r] = "draining"
    BY <1>2 DEF Resume
  <2>2. r \in suspended
    BY <2>1 DEF ToldInv
  <2>3. \A n \in todo[r] : stored[n] # Unset
    BY DEF ToldInv
  <2> QED
    BY <2>0, <2>1, <2>2, <2>3, WalkTold
<1>3. ASSUME NEW r \in Requests, SendRaises(r) PROVE ToldInv'
  <2>1. /\ UNCHANGED <<connVars, todo, suspended, stored, told>>
        /\ pc[r] = "draining"
        /\ \A q \in Requests : pc'[q] = IF q = r THEN "failed" ELSE pc[q]
    BY <1>3 DEF SendRaises, SyncTypeOK
  <2>2. \A n \in Nodes : /\ Serving(n)' <=> Serving(n)
                         /\ Missed(n) => Missed(n)'
    BY <2>1 DEF Serving, IsOnline, Missed, connVars
  <2> QED
    BY <2>1, <2>2 DEF ToldInv, ToldIsStored, connVars
<1>4. ASSUME UNCHANGED <<pc, todo, suspended, stored>>,
             \A n \in Nodes : Serving(n)' => Serving(n) /\ registry'[n] = registry[n],
             told' = told
      PROVE ToldInv'
  BY <1>4 DEF ToldInv, ToldIsStored, Missed
<1>5. ASSUME NEW s \in Sockets, Greeted(s) PROVE ToldInv'
  <2> DEFINE p == stored[Owner[s]]
  <2>1. /\ UNCHANGED <<registry, hubOpen, pc, todo, suspended, stored>>
        /\ handler[s] = "greeting"
        /\ \A t \in Sockets : t # s => handler'[t] = handler[t]
        /\ handler'[s] = "serving" => p = Unset \/ s \in hubOpen
    BY <1>5 DEF Greeted, Greet, SyncTypeOK, ConnTypeOK
  <2>2. \A t \in Sockets :
           told'[t] = IF t = s /\ p # Unset /\ s \in hubOpen THEN p ELSE told[t]
    BY <1>5 DEF Greeted, Write
  <2>3. ToldIsStored'
    <3> SUFFICES ASSUME NEW n \in Nodes, Serving(n)'
                 PROVE  \/ told'[registry'[n]] = stored'[n]
                        \/ Missed(n)'
                        \/ told'[registry'[n]] \in suspended'
      BY DEF ToldIsStored
    <3>1. registry[n] \in Sockets /\ Owner[registry[n]] = n /\ registry'[n] = registry[n]
      BY <2>1 DEF Serving, IsOnline, SyncTypeOK, ConnTypeOK, EntryHasCoroutine
    <3>2. CASE registry[n] = s
      <4>1. Owner[s] = n /\ s \in hubOpen
        BY <2>1, <3>1, <3>2 DEF Serving
      <4> QED
        BY <2>1, <2>2, <3>1, <3>2, <4>1 DEF ToldInv
    <3>3. CASE registry[n] # s
      <4>1. Serving(n)
        BY <2>1, <3>1, <3>3 DEF Serving, IsOnline
      <4>2. Missed(n)' <=> Missed(n)
        BY <2>1 DEF Missed
      <4> QED
        BY <2>1, <2>2, <3>1, <3>3, <4>1, <4>2 DEF ToldInv, ToldIsStored
    <3> QED
      BY <3>2, <3>3
  <2> QED
    BY <2>1, <2>2, <2>3 DEF ToldInv
<1>6. ASSUME NEW s \in Sockets, NodeConnects(s) PROVE ToldInv'
  <2>1. \A n \in Nodes : Serving(n)' => Serving(n) /\ registry'[n] = registry[n]
    BY <1>6 DEF NodeConnects, Connect, Serving, IsOnline, SyncTypeOK, ConnTypeOK
  <2> QED
    BY <1>4, <1>6, <2>1 DEF NodeConnects
<1>7. ASSUME NEW s \in Sockets, ConnectionStep(s) PROVE ToldInv'
  <2>1. \A n \in Nodes : Serving(n)' => Serving(n) /\ registry'[n] = registry[n]
    <3>1. CASE NodeLeaves(s) \/ NodeNotices(s) \/ Sever(s) \/ HubNotices(s)
      BY <3>1 DEF NodeLeaves, NodeNotices, Sever, HubNotices, Serving, IsOnline
    <3>2. CASE Register(s)
      BY <3>2 DEF Register, Serving, IsOnline, SyncTypeOK, ConnTypeOK
    <3>3. CASE ServeEnds(s)
      BY <3>3 DEF ServeEnds, Serving, IsOnline, SyncTypeOK, ConnTypeOK
    <3> QED
      BY <1>7, <3>1, <3>2, <3>3 DEF ConnectionStep
  <2> QED
    BY <1>4, <1>7, <2>1 DEF ConnectionStep
<1>8. ASSUME NEW s \in Sockets,
             Take(s) \/ Applied(s) \/ NativeFails(s) \/ LoopEnds(s)
      PROVE ToldInv'
  <2>1. UNCHANGED <<connVars, requestVars, hubVars>>
    BY <1>8 DEF Take, Applied, NativeFails, LoopEnds
  <2> QED
    BY <1>4, <2>1 DEF Serving, IsOnline, connVars
<1>9. ASSUME NEW n \in Nodes, NodeRestart(n) PROVE ToldInv'
  <2>1. UNCHANGED <<registry, handler, hubOpen, requestVars, hubVars>>
    BY <1>9 DEF NodeRestart, NodeLeaves, connVars
  <2> QED
    BY <1>4, <2>1 DEF Serving, IsOnline
<1>10. CASE HubStops
  <2>1. \A n \in Nodes : ~Serving(n)'
    BY <1>10 DEF HubStops, HubRestart, Serving, IsOnline
  <2>2. \A q \in Requests : pc'[q] = "draining" => pc[q] = "draining"
    BY <1>10 DEF HubStops
  <2> QED
    BY <1>10, <2>1, <2>2 DEF HubStops, ToldInv, ToldIsStored
<1>11. CASE UNCHANGED vars
  BY <1>4, <1>11 DEF vars, connVars, Serving, IsOnline
<1> QED
  BY <1>1, <1>2, <1>3, <1>5, <1>6, <1>7, <1>8, <1>9, <1>10, <1>11 DEF SyncNext

\* What a served connection was last told is what is stored for its node, but
\* for the two cases the property names.
THEOREM SyncToldIsStored == SyncSpec => []ToldIsStored
<1>1. SyncInit => ToldInv
  BY OwnerAssumption
  DEF SyncInit, ConnInit, ToldInv, ToldIsStored, Serving, IsOnline
<1>2. SyncSpec => []EntryHasCoroutine
  BY SyncImplementsConnections, ConnEntry, PTL DEF ImplementsConnections
<1>3. SyncSpec => []ToldInv
  BY <1>1, <1>2, SyncTypeCorrect, ToldStep, PTL DEF SyncSpec
<1>4. ToldInv => ToldIsStored
  BY DEF ToldInv
<1> QED
  BY <1>3, <1>4, PTL

-----------------------------------------------------------------------------
(***************************************************************************)
(* The node's two uses of a policy.                                        *)
(***************************************************************************)
\* On a node that is not astray BOINC is being given the holder's policy, by
\* one loop, or has it.
EnginesInv ==
    \A n \in Nodes \ astray :
        /\ \A s, t \in Busy(n) : s = t
        /\ \A s \in Busy(n) : applying[s] = holder[n]
        /\ Busy(n) = {} => native[n] = holder[n]

\* Every step keeps EnginesInv: a policy taken alone starts a call alone, and
\* what fails or overlaps is astray.
LEMMA EnginesStep == SyncTypeOK /\ EnginesInv /\ [SyncNext]_vars => EnginesInv'
<1> USE OwnerAssumption, UnsetAssumption
<1> SUFFICES ASSUME SyncTypeOK, EnginesInv, [SyncNext]_vars PROVE EnginesInv'
  OBVIOUS
<1>1. ASSUME UNCHANGED <<applying, holder, native, astray>> PROVE EnginesInv'
  BY <1>1 DEF EnginesInv, Busy, Mine
<1>2. ASSUME NEW s \in Sockets, Take(s) PROVE EnginesInv'
  <2> DEFINE p == Head(toNode[s])
  <2>1. p \in Policies /\ p # Unset
    BY <1>2 DEF Take, SyncTypeOK, Policies
  <2>2. \A t \in Sockets : applying'[t] = IF t = s THEN p ELSE applying[t]
    BY <1>2 DEF Take, SyncTypeOK
  <2>3. \A n \in Nodes : holder'[n] = IF n = Owner[s] THEN p ELSE holder[n]
    BY <1>2 DEF Take, SyncTypeOK
  <2> SUFFICES ASSUME NEW n \in Nodes \ astray'
               PROVE  /\ \A u, t \in Busy(n)' : u = t
                      /\ \A t \in Busy(n)' : applying'[t] = holder'[n]
                      /\ Busy(n)' = {} => native'[n] = holder'[n]
    BY DEF EnginesInv
  <2>4. CASE n = Owner[s]
    <3>1. Busy(n) = {}
      BY <1>2, <2>4 DEF Take
    <3>2. Busy(n)' = {s}
      BY <2>1, <2>2, <2>4, <3>1 DEF Busy, Mine
    <3> QED
      BY <2>2, <2>3, <2>4, <3>2
  <2>5. CASE n # Owner[s]
    <3>1. Busy(n)' = Busy(n) /\ s \notin Busy(n)
      BY <2>2, <2>5 DEF Busy, Mine
    <3>2. n \notin astray /\ native'[n] = native[n]
      BY <1>2, <2>5 DEF Take
    <3>3. \A t \in Busy(n) : t \in Sockets
      BY DEF Busy, Mine
    <3> QED
      BY <2>2, <2>3, <2>5, <3>1, <3>2, <3>3 DEF EnginesInv
  <2> QED
    BY <2>4, <2>5
<1>3. ASSUME NEW s \in Sockets, Applied(s) PROVE EnginesInv'
  <2>1. \A n \in Nodes : Busy(n)' = Busy(n) \ {s}
    BY <1>3 DEF Applied, SyncTypeOK, Busy, Mine
  <2>2. s \in Busy(Owner[s])
    BY <1>3 DEF Applied, Busy, Mine
  <2>3. \A n \in Nodes : native'[n] = IF n = Owner[s] THEN applying[s] ELSE native[n]
    BY <1>3 DEF Applied, SyncTypeOK
  <2>4. \A n \in Nodes : n # Owner[s] => s \notin Busy(n)
    BY DEF Busy, Mine
  <2>5. \A t \in Sockets \ {s} : applying'[t] = applying[t]
    BY <1>3 DEF Applied, SyncTypeOK
  <2>6. \A n \in Nodes : Busy(n) \subseteq Sockets
    BY DEF Busy, Mine
  <2>7. holder' = holder /\ astray' = astray
    BY <1>3 DEF Applied
  <2> HIDE <1>3
  <2> QED
    BY <2>1, <2>2, <2>3, <2>4, <2>5, <2>6, <2>7 DEF EnginesInv
<1>4. ASSUME NEW s \in Sockets, NativeFails(s) PROVE EnginesInv'
  <2>1. \A n \in Nodes \ {Owner[s]} : Busy(n)' = Busy(n) /\ Busy(n) \subseteq Sockets
    BY <1>4 DEF NativeFails, SyncTypeOK, Busy, Mine
  <2>2. \A n \in Nodes \ {Owner[s]} : \A t \in Busy(n) : applying'[t] = applying[t]
    BY <1>4 DEF NativeFails, SyncTypeOK, Busy, Mine
  <2>3. holder' = holder /\ native' = native /\ astray' = astray \cup {Owner[s]}
    BY <1>4 DEF NativeFails
  <2> QED
    BY <2>1, <2>2, <2>3 DEF EnginesInv
<1>5. ASSUME NEW n \in Nodes, NodeRestart(n) PROVE EnginesInv'
  <2>1. \A m \in Nodes \ {n} : Busy(m)' = Busy(m) /\ Busy(m) \subseteq Sockets
    BY <1>5 DEF NodeRestart, Busy, Mine
  <2>2. \A m \in Nodes \ {n} : \A t \in Busy(m) : applying'[t] = applying[t]
    BY <1>5 DEF NodeRestart, Busy, Mine
  <2>3. \A m \in Nodes \ {n} : holder'[m] = holder[m]
    BY <1>5 DEF NodeRestart, SyncTypeOK
  <2>4. native' = native /\ astray' = astray \cup {n}
    BY <1>5 DEF NodeRestart
  <2> QED
    BY <2>1, <2>2, <2>3, <2>4 DEF EnginesInv
<1>6. ASSUME NEW r \in Requests, NEW T, NEW S,
             Apply(r, T, S) \/ Resume(r, S) \/ SendRaises(r)
      PROVE EnginesInv'
  BY <1>1, <1>6 DEF Apply, Resume, SendRaises, nodeVars
<1>7. ASSUME NEW s \in Sockets,
             Greeted(s) \/ NodeConnects(s) \/ LoopEnds(s) \/ ConnectionStep(s)
      PROVE EnginesInv'
  BY <1>1, <1>7 DEF Greeted, NodeConnects, LoopEnds, ConnectionStep, nodeVars
<1>8. CASE HubStops \/ UNCHANGED vars
  BY <1>1, <1>8 DEF HubStops, vars, nodeVars
<1> QED
  BY <1>2, <1>3, <1>4, <1>5, <1>6, <1>7, <1>8 DEF SyncNext

\* Folding@home and BOINC are held to one policy between calls, but for the
\* failures and overlaps that lead BOINC astray.
THEOREM SyncEnginesHaveOnePolicy == SyncSpec => []EnginesHaveOnePolicy
<1>1. SyncInit => EnginesInv
  BY DEF SyncInit, EnginesInv, Busy, Mine
<1>2. SyncSpec => []EnginesInv
  BY <1>1, SyncTypeCorrect, EnginesStep, PTL DEF SyncSpec
<1>3. EnginesInv => EnginesHaveOnePolicy
  BY DEF EnginesInv, EnginesHaveOnePolicy
<1> QED
  BY <1>2, <1>3, PTL

-----------------------------------------------------------------------------
\* The newest frame on a link that lives is the last policy written to it; a
\* socket nobody has opened carries nothing and has set no holder.
FramesInv ==
    \A s \in Sockets :
        /\ Carries(s) /\ toNode[s] # <<>> => toNode[s][Len(toNode[s])] = told[s]
        /\ Carries(s) /\ toNode[s] = <<>> /\ by[Owner[s]] = s
              => holder[Owner[s]] = told[s]
        /\ handler[s] = "none" => toNode[s] = <<>> /\ by[Owner[s]] # s

\* A write to sockets whose coroutines are running.
LEMMA WriteFrames ==
    ASSUME SyncTypeOK, FramesInv, NEW S \in SUBSET Sockets, NEW p \in Policies,
           Write(S, p), UNCHANGED <<hubOpen, nodeOpen, severed, by, holder>>,
           \A s \in S : handler[s] # "none" /\ s \in hubOpen,
           \A s \in Sockets : handler'[s] = "none" => handler[s] = "none"
    PROVE  FramesInv'
<1>1. \A s \in Sockets : Carries(s)' <=> Carries(s)
  BY DEF Carries
<1>2. SUFFICES ASSUME NEW s \in Sockets
      PROVE  /\ Carries(s) /\ toNode'[s] # <<>>
                    => toNode'[s][Len(toNode'[s])] = told'[s]
             /\ Carries(s) /\ toNode'[s] = <<>> /\ by[Owner[s]] = s
                    => holder[Owner[s]] = told'[s]
             /\ handler'[s] = "none" => toNode'[s] = <<>> /\ by[Owner[s]] # s
  BY <1>1 DEF FramesInv
<1>3. CASE s \in S /\ Carries(s)
  <2>1. toNode'[s] = Append(toNode[s], p) /\ told'[s] = p /\ handler[s] # "none"
    BY <1>3 DEF Write
  <2>2. toNode[s] \in Seq(Policies)
    BY DEF SyncTypeOK
  <2>3. toNode'[s] # <<>> /\ toNode'[s][Len(toNode'[s])] = p
    BY <2>1, <2>2
  <2> QED
    BY <2>1, <2>3
<1>4. CASE ~(s \in S /\ Carries(s))
  <2>1. toNode'[s] = toNode[s] /\ (Carries(s) => told'[s] = told[s])
    BY <1>4 DEF Write
  <2> QED
    BY <2>1 DEF FramesInv
<1> QED
  BY <1>3, <1>4

\* A step that writes and reads no frame, and starts no link.
LEMMA QuietFrames ==
    ASSUME FramesInv, UNCHANGED <<toNode, told, by, holder>>,
           \A s \in Sockets : Carries(s)' => Carries(s),
           \A s \in Sockets : handler'[s] = "none" => handler[s] = "none"
    PROVE  FramesInv'
  BY DEF FramesInv

\* The only frame of a channel is its first and its last.
LEMMA OnlyFrame ==
    ASSUME NEW q \in Seq(Policies), q # <<>>, Tail(q) = <<>>
    PROVE  Head(q) = q[Len(q)]
<1>1. Len(Tail(q)) = 0
  BY EmptySeq, Zenon
<1>2. Len(q) \in Nat /\ Len(Tail(q)) = Len(q) - 1
  BY HeadTailProperties, LenProperties
<1> DEFINE length == Len(q)
<1>3. length \in Nat /\ length - 1 = 0
  BY <1>1, <1>2, Zenon
<1>4. length = 1
  <2> HIDE DEF length
  <2> QED
    BY <1>3
<1>5. Head(q) = q[1]
  OBVIOUS
<1> QED
  BY <1>4, <1>5

\* Every step keeps FramesInv: writes append, one loop takes the head, and only
\* dead links lose frames.
LEMMA FramesStep ==
    SyncTypeOK /\ EntryHasCoroutine /\ FramesInv /\ [SyncNext]_vars => FramesInv'
<1> USE OwnerAssumption, NoSocketAssumption, UnsetAssumption
<1> SUFFICES ASSUME SyncTypeOK, EntryHasCoroutine, FramesInv, [SyncNext]_vars
             PROVE FramesInv'
  OBVIOUS
<1>1. ASSUME NEW r \in Requests, NEW T \in SUBSET Nodes, NEW S \in SUBSET T,
             Apply(r, T, S)
      PROVE FramesInv'
  <2>1. Write(Pushed(S), r) /\ UNCHANGED <<connVars, nodeVars>>
    BY <1>1 DEF Apply, Walk
  <2>2. /\ Pushed(S) \in SUBSET Sockets
        /\ \A t \in Pushed(S) : handler[t] # "none" /\ t \in hubOpen
    BY PushedSockets DEF SyncTypeOK
  <2> QED
    BY <2>1, <2>2, WriteFrames DEF Policies, connVars, nodeVars
<1>2. ASSUME NEW r \in Requests, NEW S \in SUBSET todo[r], Resume(r, S)
      PROVE FramesInv'
  <2>1. Write(Pushed(S), r) /\ UNCHANGED <<connVars, nodeVars>>
    BY <1>2 DEF Resume, Walk
  <2>2. S \in SUBSET Nodes
    BY DEF SyncTypeOK
  <2>3. /\ Pushed(S) \in SUBSET Sockets
        /\ \A t \in Pushed(S) : handler[t] # "none" /\ t \in hubOpen
    BY <2>2, PushedSockets DEF SyncTypeOK
  <2> QED
    BY <2>1, <2>3, WriteFrames DEF Policies, connVars, nodeVars
<1>3. ASSUME NEW s \in Sockets, Greeted(s) PROVE FramesInv'
  <2>1. /\ UNCHANGED <<hubOpen, nodeOpen, severed, by, holder>>
        /\ handler[s] = "greeting"
        /\ \A t \in Sockets : handler'[t] = "none" => handler[t] = "none"
    BY <1>3 DEF Greeted, Greet, nodeVars, SyncTypeOK, ConnTypeOK
  <2>2. CASE stored[Owner[s]] # Unset /\ s \in hubOpen
    <3>1. Write({s}, stored[Owner[s]]) /\ stored[Owner[s]] \in Policies
      BY <1>3, <2>2 DEF Greeted, SyncTypeOK
    <3> QED
      BY <2>1, <2>2, <3>1, WriteFrames
  <2>3. CASE ~(stored[Owner[s]] # Unset /\ s \in hubOpen)
    <3>1. UNCHANGED <<told, toNode>>
      BY <1>3, <2>3 DEF Greeted
    <3> QED
      BY <2>1, <3>1, QuietFrames DEF Carries
  <2> QED
    BY <2>2, <2>3
<1>4. ASSUME NEW s \in Sockets, NodeConnects(s) PROVE FramesInv'
  <2>1. /\ handler[s] = "none"
        /\ UNCHANGED <<told, toNode, by, holder, severed>>
        /\ hubOpen' = hubOpen \cup {s} /\ nodeOpen' = nodeOpen \cup {s}
        /\ \A t \in Sockets \ {s} : handler'[t] = handler[t]
        /\ handler'[s] = "accepted"
    BY <1>4 DEF NodeConnects, Connect, hubVars, SyncTypeOK, ConnTypeOK
  <2>2. toNode[s] = <<>> /\ by[Owner[s]] # s
    BY <2>1 DEF FramesInv
  <2>3. \A t \in Sockets \ {s} : Carries(t)' <=> Carries(t)
    BY <2>1 DEF Carries
  <2> QED
    BY <2>1, <2>2, <2>3 DEF FramesInv
<1>5. ASSUME NEW s \in Sockets, Take(s) PROVE FramesInv'
  <2>1. /\ UNCHANGED <<connVars, told>>
        /\ toNode[s] # <<>> /\ toNode[s] \in Seq(Policies)
        /\ toNode'[s] = Tail(toNode[s])
        /\ \A t \in Sockets \ {s} : toNode'[t] = toNode[t]
        /\ by'[Owner[s]] = s /\ holder'[Owner[s]] = Head(toNode[s])
        /\ \A n \in Nodes \ {Owner[s]} : by'[n] = by[n] /\ holder'[n] = holder[n]
    BY <1>5 DEF Take, hubVars, SyncTypeOK
  <2>2. \A t \in Sockets : Carries(t)' <=> Carries(t)
    BY <2>1 DEF Carries, connVars
  <2>3. handler'= handler /\ told' = told
    BY <2>1 DEF connVars
  <2>4. handler[s] # "none"
    BY <2>1 DEF FramesInv
  <2>5. toNode'[s] # <<>> => toNode'[s][Len(toNode'[s])] = toNode[s][Len(toNode[s])]
    BY <2>1
  <2>6. toNode'[s] = <<>> => Head(toNode[s]) = toNode[s][Len(toNode[s])]
    BY <2>1, OnlyFrame
  <2>7. Carries(s) => toNode[s][Len(toNode[s])] = told[s]
    BY <2>1 DEF FramesInv
  <2>8. ASSUME NEW t \in Sockets \ {s}
        PROVE  /\ Carries(t) /\ toNode'[t] # <<>>
                      => toNode'[t][Len(toNode'[t])] = told[t]
               /\ Carries(t) /\ toNode'[t] = <<>> /\ by'[Owner[t]] = t
                      => holder'[Owner[t]] = told[t]
               /\ handler[t] = "none" => toNode'[t] = <<>> /\ by'[Owner[t]] # t
    <3>1. by'[Owner[t]] = t => by[Owner[t]] = t /\ holder'[Owner[t]] = holder[Owner[t]]
      BY <2>1
    <3> QED
      BY <2>1, <3>1 DEF FramesInv
  <2>9. /\ Carries(s) /\ toNode'[s] # <<>>
              => toNode'[s][Len(toNode'[s])] = told[s]
        /\ Carries(s) /\ toNode'[s] = <<>> /\ by'[Owner[s]] = s
              => holder'[Owner[s]] = told[s]
    BY <2>1, <2>5, <2>6, <2>7
  <2> QED
    BY <2>2, <2>3, <2>4, <2>8, <2>9 DEF FramesInv
<1>6. ASSUME NEW s \in Sockets, Applied(s) \/ NativeFails(s) PROVE FramesInv'
  <2>1. UNCHANGED <<connVars, told, toNode, by, holder>>
    BY <1>6 DEF Applied, NativeFails, hubVars
  <2> QED
    BY <2>1, QuietFrames DEF Carries, connVars
<1>7. ASSUME NEW s \in Sockets, LoopEnds(s) PROVE FramesInv'
  <2>1. /\ UNCHANGED <<connVars, told, by, holder>>
        /\ ~Carries(s) /\ toNode'[s] = <<>>
        /\ \A t \in Sockets \ {s} : toNode'[t] = toNode[t]
    BY <1>7 DEF LoopEnds, hubVars, Carries, SyncTypeOK
  <2>2. \A t \in Sockets : Carries(t)' <=> Carries(t)
    BY <2>1 DEF Carries, connVars
  <2>3. handler' = handler
    BY <2>1 DEF connVars
  <2> QED
    BY <2>1, <2>2, <2>3 DEF FramesInv
<1>8. ASSUME NEW s \in Sockets, ConnectionStep(s) PROVE FramesInv'
  <2>1. UNCHANGED <<told, toNode, by, holder>>
    BY <1>8 DEF ConnectionStep, hubVars, nodeVars
  <2>2. \A t \in Sockets : Carries(t)' => Carries(t)
    BY <1>8 DEF ConnectionStep, NodeLeaves, NodeNotices, Register, ServeEnds,
                HubNotices, Sever, Carries
  <2>3. \A t \in Sockets : handler'[t] = "none" => handler[t] = "none"
    BY <1>8 DEF ConnectionStep, NodeLeaves, NodeNotices, Register, ServeEnds,
                HubNotices, Sever, SyncTypeOK, ConnTypeOK
  <2> QED
    BY <2>1, <2>2, <2>3, QuietFrames
<1>9. ASSUME NEW n \in Nodes, NodeRestart(n) PROVE FramesInv'
  <2>1. /\ UNCHANGED <<handler, hubOpen, severed, told>>
        /\ nodeOpen' \subseteq nodeOpen
    BY <1>9 DEF NodeRestart, NodeLeaves, connVars, hubVars
  <2>2. \A t \in Sockets : /\ Carries(t)' => Carries(t)
                           /\ toNode'[t] = IF Owner[t] = n THEN <<>> ELSE toNode[t]
    BY <1>9, <2>1 DEF NodeRestart, Mine, Carries
  <2>3. \A m \in Nodes : /\ by'[m] = IF m = n THEN NoSocket ELSE by[m]
                         /\ holder'[m] = IF m = n THEN Unset ELSE holder[m]
    BY <1>9 DEF NodeRestart, SyncTypeOK
  <2> QED
    BY <2>1, <2>2, <2>3 DEF FramesInv
<1>10. CASE HubStops
  <2>1. UNCHANGED <<told, toNode, by, holder>>
    BY <1>10 DEF HubStops, hubVars, nodeVars
  <2>2. \A t \in Sockets : ~Carries(t)' /\ (handler'[t] = "none" => handler[t] = "none")
    BY <1>10 DEF HubStops, HubRestart, Carries
  <2> QED
    BY <2>1, <2>2, QuietFrames
<1>11. ASSUME NEW r \in Requests, SendRaises(r) PROVE FramesInv'
  <2>1. UNCHANGED <<connVars, told, toNode, by, holder>>
    BY <1>11 DEF SendRaises, hubVars, nodeVars
  <2> QED
    BY <2>1, QuietFrames DEF Carries, connVars
<1>12. CASE UNCHANGED vars
  <2>1. UNCHANGED <<connVars, told, toNode, by, holder>>
    BY <1>12 DEF vars, hubVars, nodeVars
  <2> QED
    BY <2>1, QuietFrames DEF Carries, connVars
<1> QED
  BY <1>1, <1>2, <1>3, <1>4, <1>5, <1>6, <1>7, <1>8, <1>9, <1>10, <1>11, <1>12
     DEF SyncNext

\* A node whose loop has read everything a live link brought holds the last
\* policy written to it.
THEOREM SyncHolderIsTold == SyncSpec => []HolderIsTold
<1>1. SyncInit => FramesInv
  <2> SUFFICES ASSUME SyncInit PROVE FramesInv
    OBVIOUS
  <2>1. \A s \in Sockets : by[Owner[s]] # s /\ toNode[s] = <<>>
    BY OwnerAssumption, NoSocketAssumption DEF SyncInit
  <2> QED
    BY <2>1 DEF FramesInv
<1>2. SyncSpec => []EntryHasCoroutine
  BY SyncImplementsConnections, ConnEntry, PTL DEF ImplementsConnections
<1>3. SyncSpec => []FramesInv
  BY <1>1, <1>2, SyncTypeCorrect, FramesStep, PTL DEF SyncSpec
<1>4. FramesInv => HolderIsTold
  BY DEF FramesInv, HolderIsTold
<1> QED
  BY <1>3, <1>4, PTL
-----------------------------------------------------------------------------
(***************************************************************************)
(* How a settled node converges.  What Settled asks for is enough: with    *)
(* nothing left to read and no call under way, the node has the policy.    *)
(***************************************************************************)
\* Only a loop that lives has a call under way.
CallsHaveLoop == \A s \in Sockets : applying[s] # Unset => s \in loops

LEMMA CallsStep == SyncTypeOK /\ CallsHaveLoop /\ [SyncNext]_vars => CallsHaveLoop'
<1> SUFFICES ASSUME SyncTypeOK, CallsHaveLoop, [SyncNext]_vars
             PROVE CallsHaveLoop'
  OBVIOUS
<1>1. ASSUME UNCHANGED <<applying, loops>> PROVE CallsHaveLoop'
  BY <1>1 DEF CallsHaveLoop
<1>2. ASSUME NEW s \in Sockets, Take(s) PROVE CallsHaveLoop'
  BY <1>2 DEF Take, CallsHaveLoop, SyncTypeOK
<1>3. ASSUME NEW s \in Sockets, Applied(s) \/ NativeFails(s) PROVE CallsHaveLoop'
  BY <1>3 DEF Applied, NativeFails, CallsHaveLoop, SyncTypeOK
<1>4. ASSUME NEW s \in Sockets, LoopEnds(s) PROVE CallsHaveLoop'
  BY <1>4 DEF LoopEnds, CallsHaveLoop
<1>5. ASSUME NEW s \in Sockets, NodeConnects(s) PROVE CallsHaveLoop'
  BY <1>5 DEF NodeConnects, CallsHaveLoop
<1>6. ASSUME NEW n \in Nodes, NodeRestart(n) PROVE CallsHaveLoop'
  BY <1>6 DEF NodeRestart, CallsHaveLoop
<1>7. ASSUME NEW r \in Requests, NEW T, NEW S,
             Apply(r, T, S) \/ Resume(r, S) \/ SendRaises(r)
      PROVE CallsHaveLoop'
  BY <1>1, <1>7 DEF Apply, Resume, SendRaises, nodeVars
<1>8. ASSUME NEW s \in Sockets, Greeted(s) \/ ConnectionStep(s)
      PROVE CallsHaveLoop'
  BY <1>1, <1>8 DEF Greeted, ConnectionStep, nodeVars
<1>9. CASE HubStops \/ UNCHANGED vars
  BY <1>1, <1>9 DEF HubStops, vars, nodeVars
<1> QED
  BY <1>2, <1>3, <1>4, <1>5, <1>6, <1>7, <1>8, <1>9 DEF SyncNext

\* n's connection has brought nothing its loop has still to take or to give
\* to BOINC.
CaughtUp(n) ==
    LET s == registry[n]
    IN  IsOnline(n) => toNode[s] = <<>> /\ applying[s] = Unset

\* n's two engines have the policy the hub stores for it.
HeldByNode(n) ==
    /\ holder[n] = stored[n]
    /\ native[n] = stored[n] \/ n \in astray

\* A settled node that has caught up has its policy, in every state.
SettledIsHeld == \A n \in Nodes : Settled(n) /\ CaughtUp(n) => HeldByNode(n)

\* The hub's side and the node's meet: what the hub has told a connection that
\* is being served is what the node it ends at holds, and gives to BOINC, once
\* the loop of _command_loop is idle.
THEOREM SyncSettledIsHeld == SyncSpec => []SettledIsHeld
<1>1. SyncInit => CallsHaveLoop
  BY DEF SyncInit, CallsHaveLoop
<1>2. SyncSpec => []CallsHaveLoop
  BY <1>1, SyncTypeCorrect, CallsStep, PTL DEF SyncSpec
<1>3. SyncSpec => []EntryHasCoroutine
  BY SyncImplementsConnections, ConnEntry, PTL DEF ImplementsConnections
<1>4. ASSUME SyncTypeOK, CallsHaveLoop, EntryHasCoroutine, HolderIsTold,
             EnginesHaveOnePolicy
      PROVE  SettledIsHeld
  <2> SUFFICES ASSUME NEW n \in Nodes, Settled(n), CaughtUp(n)
               PROVE  HeldByNode(n)
    BY DEF SettledIsHeld
  <2> DEFINE s == registry[n]
  <2>1. IsOnline(n) /\ Carries(s) /\ told[s] = stored[n]
    BY DEF Settled, Serving
  <2>2. s \in Sockets /\ Owner[s] = n
    BY <1>4, <2>1 DEF IsOnline, EntryHasCoroutine, SyncTypeOK, ConnTypeOK
  <2>3. toNode[s] = <<>> /\ applying[s] = Unset
    BY <2>1 DEF CaughtUp
  <2>4. by[n] = s
    BY <2>3 DEF Settled
  <2>5. holder[n] = stored[n]
    BY <1>4, <2>1, <2>2, <2>3, <2>4 DEF HolderIsTold
  <2>6. Busy(n) = {}
    <3>1. loops \cap Mine(n) \subseteq {s}
      BY DEF Settled
    <3> QED
      BY <1>4, <2>3, <3>1 DEF Busy, Mine, CallsHaveLoop
  <2> QED
    BY <1>4, <2>5, <2>6 DEF EnginesHaveOnePolicy, HeldByNode
<1> QED
  BY <1>2, <1>3, <1>4, SyncTypeCorrect, SyncHolderIsTold,
     SyncEnginesHaveOnePolicy, PTL

-----------------------------------------------------------------------------
(***************************************************************************)
(* A command loop goes on.                                                 *)
(***************************************************************************)
\* What ENABLED is of the loop's two steps, where the proofs below need it.
LoopReady(s) ==
    /\ (s \in loops /\ applying[s] = Unset /\ toNode[s] # <<>>)
          => ENABLED <<Take(s)>>_vars
    /\ applying[s] # Unset => ENABLED <<EndsCall(s)>>_vars

SyncReady == \A s \in Sockets : LoopReady(s)

\* While a loop lives, the oldest frame of its connection stays the oldest
\* until the loop takes it.
LEMMA HeadStays ==
    ASSUME SyncTypeOK, [SyncNext]_vars, NEW s \in Sockets,
           s \in loops', s \in loops, toNode[s] # <<>>, ~Take(s)
    PROVE  toNode'[s] # <<>> /\ Head(toNode'[s]) = Head(toNode[s])
<1> USE OwnerAssumption DEF nodeVars
<1>0. toNode[s] \in Seq(Policies)
  BY DEF SyncTypeOK
<1>1. ASSUME toNode'[s] = toNode[s]
      PROVE  toNode'[s] # <<>> /\ Head(toNode'[s]) = Head(toNode[s])
  BY <1>1
<1>2. ASSUME NEW S, NEW p \in Policies, Write(S, p)
      PROVE  toNode'[s] # <<>> /\ Head(toNode'[s]) = Head(toNode[s])
  <2>1. toNode'[s] = toNode[s] \/ toNode'[s] = Append(toNode[s], p)
    BY <1>2 DEF Write
  <2>2. /\ Append(toNode[s], p) # <<>>
        /\ Head(Append(toNode[s], p)) = Head(toNode[s])
    BY <1>0
  <2> QED
    BY <2>1, <2>2
<1>3. ASSUME NEW r \in Requests, NEW T, NEW S, Apply(r, T, S) \/ Resume(r, S)
      PROVE  toNode'[s] # <<>> /\ Head(toNode'[s]) = Head(toNode[s])
  <2>1. Write(Pushed(S), r)
    BY <1>3 DEF Apply, Resume, Walk
  <2> QED
    BY <1>2, <2>1 DEF Policies
<1>4. ASSUME NEW t \in Sockets, Greeted(t)
      PROVE  toNode'[s] # <<>> /\ Head(toNode'[s]) = Head(toNode[s])
  <2>1. CASE stored[Owner[t]] # Unset /\ t \in hubOpen
    <3>1. Write({t}, stored[Owner[t]]) /\ stored[Owner[t]] \in Policies
      BY <1>4, <2>1 DEF Greeted, SyncTypeOK
    <3> QED
      BY <1>2, <3>1
  <2>2. CASE ~(stored[Owner[t]] # Unset /\ t \in hubOpen)
    BY <1>1, <1>4, <2>2 DEF Greeted
  <2> QED
    BY <2>1, <2>2
<1>5. ASSUME NEW t \in Sockets, Take(t)
      PROVE  toNode'[s] # <<>> /\ Head(toNode'[s]) = Head(toNode[s])
  <2>1. t # s
    BY <1>5
  <2>2. toNode'[s] = toNode[s]
    BY <1>5, <2>1 DEF Take, SyncTypeOK
  <2> QED
    BY <1>1, <2>2
<1>6. ASSUME NEW t \in Sockets, LoopEnds(t)
      PROVE  toNode'[s] # <<>> /\ Head(toNode'[s]) = Head(toNode[s])
  <2>1. t # s
    BY <1>6 DEF LoopEnds
  <2>2. toNode'[s] = toNode[s]
    BY <1>6, <2>1 DEF LoopEnds, SyncTypeOK
  <2> QED
    BY <1>1, <2>2
<1>7. ASSUME NEW n \in Nodes, NodeRestart(n)
      PROVE  toNode'[s] # <<>> /\ Head(toNode'[s]) = Head(toNode[s])
  <2>1. s \notin Mine(n)
    BY <1>7 DEF NodeRestart
  <2>2. toNode'[s] = toNode[s]
    BY <1>7, <2>1 DEF NodeRestart
  <2> QED
    BY <1>1, <2>2
<1>8. ASSUME UNCHANGED toNode
      PROVE  toNode'[s] # <<>> /\ Head(toNode'[s]) = Head(toNode[s])
  BY <1>1, <1>8
<1>9. ASSUME NEW r \in Requests, SendRaises(r) PROVE UNCHANGED toNode
  BY <1>9 DEF SendRaises
<1>10. ASSUME NEW t \in Sockets,
              NodeConnects(t) \/ Applied(t) \/ NativeFails(t) \/ ConnectionStep(t)
       PROVE  UNCHANGED toNode
  BY <1>10 DEF NodeConnects, Applied, NativeFails, ConnectionStep
<1>11. CASE HubStops \/ UNCHANGED vars
  BY <1>8, <1>11 DEF HubStops, vars
<1> QED
  BY <1>3, <1>4, <1>5, <1>6, <1>7, <1>8, <1>9, <1>10, <1>11 DEF SyncNext

\* A frame that has come to a loop is taken next, or the loop is over: the
\* call to BOINC before it ends, and nothing else is read first.
LEMMA FrameTaken ==
    ASSUME NEW s \in Sockets, NEW p \in Policies
    PROVE  SyncSpec /\ []SyncReady =>
             ((s \in loops /\ toNode[s] # <<>> /\ Head(toNode[s]) = p)
                ~> (applying[s] = p \/ s \notin loops))
<1> DEFINE Live == s \in loops
           Idle == applying[s] = Unset
           Next == toNode[s] # <<>> /\ Head(toNode[s]) = p
           Given == applying[s] = p
           Ends == EndsCall(s)
<1>0. p # Unset
  BY UnsetAssumption
<1>1. SyncReady => /\ Live /\ Idle /\ Next => ENABLED <<Take(s)>>_vars
                   /\ ~Idle => ENABLED <<EndsCall(s)>>_vars
  BY DEF SyncReady, LoopReady
<1>2. SyncTypeOK /\ [SyncNext]_vars /\ Live /\ Next /\ Live' /\ ~Take(s) => Next'
  BY HeadStays
<1>3. SyncTypeOK /\ Take(s) /\ Next => Given'
  BY DEF Take, SyncTypeOK
<1>4. SyncTypeOK /\ EndsCall(s) => Idle'
  BY DEF EndsCall, Applied, NativeFails, SyncTypeOK
<1>5. Take(s) => Idle
  BY DEF Take
<1>6. SyncTypeOK /\ [SyncNext]_vars /\ Live /\ Idle /\ ~Take(s) => Idle'
  <2> SUFFICES ASSUME SyncTypeOK, [SyncNext]_vars, Idle, ~Take(s) PROVE Idle'
    OBVIOUS
  <2> USE DEF nodeVars
  <2>1. ASSUME NEW t \in Sockets, Take(t) \/ Applied(t) \/ NativeFails(t)
        PROVE  Idle'
    <3>1. t # s
      BY <2>1 DEF Applied, NativeFails
    <3>2. applying'[s] = applying[s]
      BY <2>1, <3>1 DEF Take, Applied, NativeFails, SyncTypeOK
    <3> QED
      BY <3>2
  <2>2. ASSUME NEW n \in Nodes, NodeRestart(n) PROVE Idle'
    BY <2>2 DEF NodeRestart
  <2>3. ASSUME NEW t \in Sockets,
               \/ Greeted(t)
               \/ NodeConnects(t)
               \/ LoopEnds(t)
               \/ ConnectionStep(t)
        PROVE  Idle'
    BY <2>3 DEF Greeted, NodeConnects, LoopEnds, ConnectionStep
  <2>4. ASSUME NEW r \in Requests, NEW T, NEW S,
               Apply(r, T, S) \/ Resume(r, S) \/ SendRaises(r)
        PROVE  Idle'
    BY <2>4 DEF Apply, Resume, SendRaises
  <2>5. CASE HubStops \/ UNCHANGED vars
    BY <2>5 DEF HubStops, vars
  <2> QED
    BY <2>1, <2>2, <2>3, <2>4, <2>5 DEF SyncNext
<1>7. SyncFairness => FairLoop(s)
  BY DEF SyncFairness
<1>8. /\ (s \in loops /\ toNode[s] # <<>> /\ Head(toNode[s]) = p) <=> Live /\ Next
      /\ (applying[s] = p \/ s \notin loops) <=> Given \/ ~Live
  OBVIOUS
<1> HIDE DEF Live, Idle, Next, Given
<1> QED
  BY <1>1, <1>2, <1>3, <1>4, <1>5, <1>6, <1>7, <1>8, SyncTypeCorrect,
     PTL DEF SyncSpec, FairLoop

\* What a connection has brought its node is taken in the order it came, each
\* policy given to BOINC, for as long as the loop lives.
FramesAreTaken ==
    \A s \in Sockets : \A p \in Policies :
        (s \in loops /\ toNode[s] # <<>> /\ Head(toNode[s]) = p)
            ~> (applying[s] = p \/ s \notin loops)

\* async for raw in ws goes on: no schedule frame stays unread behind a call
\* to BOINC, whatever fails.
THEOREM SyncFramesAreTaken == SyncSpec /\ []SyncReady => FramesAreTaken
  BY FrameTaken DEF FramesAreTaken

\* A call to BOINC ends.
LEMMA CallEnds ==
    ASSUME NEW s \in Sockets
    PROVE  SyncSpec /\ []SyncReady => (applying[s] # Unset ~> applying[s] = Unset)
<1> DEFINE Idle == applying[s] = Unset
<1>1. SyncReady => (~Idle => ENABLED <<EndsCall(s)>>_vars)
  BY DEF SyncReady, LoopReady
<1>2. SyncTypeOK /\ EndsCall(s) => Idle'
  BY DEF EndsCall, Applied, NativeFails, SyncTypeOK
<1>3. SyncFairness => FairLoop(s)
  BY DEF SyncFairness
<1>4. (applying[s] # Unset <=> ~Idle) /\ (applying[s] = Unset <=> Idle)
  OBVIOUS
<1> HIDE DEF Idle
<1> QED
  BY <1>1, <1>2, <1>3, <1>4, SyncTypeCorrect, PTL DEF SyncSpec, FairLoop

\* Every call to BOINC ends, well or badly, and the loop is free again.
CallsEnd == \A s \in Sockets : applying[s] # Unset ~> applying[s] = Unset

\* asyncio.to_thread returns, by the 20 s _run gives boinccmd: the command
\* loop is never stopped for good.
THEOREM SyncCallsEnd == SyncSpec /\ []SyncReady => CallsEnd
  BY CallEnds DEF CallsEnd
=============================================================================
