----------------------- MODULE CommandDispatch_proofs -----------------------
(***************************************************************************)
(* Proofs about CommandDispatch, for any nodes, sockets, requests and      *)
(* failures.                                                               *)
(***************************************************************************)
EXTENDS CommandDispatch, Connections_proofs

\* Every step of the dispatch leaves the connections alone or is one of theirs.
LEMMA DispatchStepIsConnStep ==
    ConnTypeOK /\ [DispatchNext]_vars => [ConnNext]_connVars
<1> SUFFICES ASSUME ConnTypeOK, [DispatchNext]_vars PROVE [ConnNext]_connVars
  OBVIOUS
<1>1. ASSUME NEW r \in Requests, NEW n \in Nodes,
             IssueOne(r, n) \/ Offline(r, n) \/ Dispatch(r, n)
      PROVE UNCHANGED connVars
  BY <1>1 DEF IssueOne, Offline, Dispatch
<1>2. ASSUME NEW r \in Requests, NEW S \in SUBSET Nodes, IssueMany(r, S)
      PROVE UNCHANGED connVars
  BY <1>2 DEF IssueMany
<1>3. ASSUME NEW r \in Requests,
             \/ Sent(r) \/ SendRaises(r) \/ TimerFires(r) \/ GotResult(r)
             \/ TimedOut(r) \/ BatchDone(r) \/ UserDeleted(r)
      PROVE UNCHANGED connVars
  BY <1>3 DEF Sent, SendRaises, TimerFires, GotResult, TimedOut, Finish,
              BatchDone, UserDeleted
<1>4. ASSUME NEW s \in Sockets,
             \/ HubReceives(s) \/ Take(s) \/ LoopEnds(s)
             \/ \E status \in Results : Ran(s, status)
      PROVE UNCHANGED connVars
  BY <1>4 DEF HubReceives, Take, LoopEnds, Ran
<1>5. ASSUME NEW s \in Sockets, HubStopsServing(s) \/ NodeConnects(s)
      PROVE ConnNext
  BY <1>5 DEF HubStopsServing, NodeConnects, ConnNext
<1>6. ASSUME NEW s \in Sockets, ConnectionStep(s) PROVE ConnNext
  <2>1. CASE Greet(s, Owner[s] \in Scheduled)
    BY <2>1, (Owner[s] \in Scheduled) \in BOOLEAN DEF ConnNext
  <2>2. CASE ~Greet(s, Owner[s] \in Scheduled)
    BY <1>6, <2>2 DEF ConnectionStep, ConnNext
  <2> QED
    BY <2>1, <2>2
<1>7. ASSUME NEW n \in Nodes, NodeRestart(n) PROVE [ConnNext]_connVars
  <2>1. CASE current[n] \in nodeOpen
    BY <1>7, <2>1 DEF NodeRestart, ConnNext, ConnTypeOK
  <2>2. CASE current[n] \notin nodeOpen
    BY <1>7, <2>2 DEF NodeRestart
  <2> QED
    BY <2>1, <2>2
<1>8. CASE HubCrash
  BY <1>8 DEF HubCrash, ConnNext
<1>9. CASE UNCHANGED vars
  BY <1>9 DEF vars
<1> QED
  BY <1>1, <1>2, <1>3, <1>4, <1>5, <1>6, <1>7, <1>8, <1>9
  DEF DispatchNext, RequestStep

\* Whatever Connections promises of the registry holds while commands use it.
THEOREM DispatchImplementsConnections == DispatchSpec => ImplementsConnections
<1>1. DispatchInit => ConnInit /\ ConnTypeOK
  BY ConnInitInv DEF DispatchInit, ConnInv
<1>2. ConnTypeOK /\ [DispatchNext]_vars => ConnTypeOK'
  BY DispatchStepIsConnStep, ConnStepType
<1> QED
  BY <1>1, <1>2, DispatchStepIsConnStep, PTL DEF DispatchSpec, ImplementsConnections

\* A connection that is served and open is the one commands are sent to.
THEOREM DispatchServed == DispatchSpec => []ServedIsRegistered
  BY DispatchImplementsConnections, ConnServed, PTL DEF ImplementsConnections

-----------------------------------------------------------------------------
(***************************************************************************)
(* Type correctness.                                                       *)
(***************************************************************************)
\* What a step needs to know of the constants and of CommandLog's sets.
LEMMA LogSets ==
    /\ Log!Results = {"ok", "error"}
    /\ Log!Closed = {"ok", "error", "timeout"}
    /\ Log!Statuses = {"ok", "error", "timeout", "none", "sent"}
    /\ Log!Outcomes = {"ok", "error", "none", "started"}
  BY DEF Log!Results, Log!Closed, Log!Statuses, Log!Outcomes

\* Initially every variable has its type.
LEMMA DispatchInitType == DispatchInit => DispatchTypeOK
<1> SUFFICES ASSUME DispatchInit PROVE DispatchTypeOK
  OBVIOUS
<1>1. ConnTypeOK
  BY ConnInitInv DEF DispatchInit, ConnInv
<1> QED
  BY <1>1, LogSets DEF DispatchInit, DispatchTypeOK, Waiting, Ended, Results

\* Every step keeps the types.
LEMMA DispatchStepType ==
    DispatchTypeOK /\ [DispatchNext]_vars => DispatchTypeOK'
<1> USE OwnerAssumption, NoSocketAssumption, NoCommandAssumption, LogSets
        DEF Waiting, Ended, Results, Commands
<1> SUFFICES ASSUME DispatchTypeOK, [DispatchNext]_vars PROVE DispatchTypeOK'
  OBVIOUS
<1>c. ConnTypeOK'
  BY DispatchStepIsConnStep, ConnStepType DEF DispatchTypeOK
<1> USE <1>c
<1>1. ASSUME NEW r \in Requests, NEW n \in Nodes,
             IssueOne(r, n) \/ Offline(r, n)
      PROVE DispatchTypeOK'
  <2>1. CASE IssueOne(r, n)
    BY <2>1 DEF IssueOne, DispatchTypeOK, hubVars, frameVars, nodeVars
  <2>2. CASE Offline(r, n)
    BY <2>2 DEF Offline, DispatchTypeOK, hubVars, frameVars, nodeVars
  <2> QED
    BY <1>1, <2>1, <2>2
<1>2. ASSUME NEW r \in Requests, NEW S \in SUBSET Nodes, IssueMany(r, S)
      PROVE DispatchTypeOK'
  BY <1>2 DEF IssueMany, DispatchTypeOK, hubVars, frameVars, nodeVars
<1>3. ASSUME NEW r \in Requests, NEW n \in Nodes, Dispatch(r, n)
      PROVE DispatchTypeOK'
  <2>1. registry[n] \in Sockets
    BY <1>3 DEF Dispatch, IsOnline, DispatchTypeOK, ConnTypeOK
  <2>2. toNode' \in [Sockets -> Seq(Commands)]
    BY <1>3, <2>1 DEF Dispatch, DispatchTypeOK
  <2> QED
    BY <1>3, <2>1, <2>2 DEF Dispatch, DispatchTypeOK, nodeVars
<1>4. ASSUME NEW r \in Requests,
             \/ Sent(r) \/ SendRaises(r) \/ BatchDone(r) \/ UserDeleted(r)
      PROVE DispatchTypeOK'
  <2>1. CASE Sent(r)
    BY <2>1 DEF Sent, DispatchTypeOK, hubVars, frameVars, nodeVars
  <2>4. CASE SendRaises(r)
    BY <2>4 DEF SendRaises, DispatchTypeOK, hubVars, frameVars, nodeVars
  <2>2. CASE BatchDone(r)
    BY <2>2 DEF BatchDone, DispatchTypeOK, hubVars, frameVars, nodeVars
  <2>3. CASE UserDeleted(r)
    BY <2>3 DEF UserDeleted, DispatchTypeOK, requestVars, frameVars, nodeVars
  <2> QED
    BY <1>4, <2>1, <2>2, <2>3, <2>4
<1>5. ASSUME NEW r \in Requests, TimerFires(r)
      PROVE DispatchTypeOK'
  BY <1>5 DEF TimerFires, DispatchTypeOK, frameVars, nodeVars
<1>6. ASSUME NEW r \in Requests, NEW status \in Log!Closed, Finish(r, status),
             pc[r] \in Waiting, pending' \subseteq pending
      PROVE DispatchTypeOK'
  BY <1>6 DEF Finish, DispatchTypeOK, frameVars, nodeVars
<1>7. ASSUME NEW r \in Requests, GotResult(r) \/ TimedOut(r)
      PROVE DispatchTypeOK'
  BY <1>6, <1>7 DEF GotResult, TimedOut
<1>8. ASSUME NEW s \in Sockets, HubReceives(s)
      PROVE DispatchTypeOK'
  <2>1. /\ Head(toHub[s]) \in Commands \X Results
        /\ toHub' \in [Sockets -> Seq(Commands \X Results)]
    BY <1>8 DEF HubReceives, DispatchTypeOK
  <2> QED
    BY <1>8, <2>1
    DEF HubReceives, ResolvePending, DispatchTypeOK, requestVars, nodeVars
<1>9. ASSUME NEW s \in Sockets, HubStopsServing(s) \/ NodeConnects(s)
      PROVE DispatchTypeOK'
  <2>1. CASE HubStopsServing(s)
    BY <2>1 DEF HubStopsServing, DispatchTypeOK, requestVars, hubVars, nodeVars
  <2>2. CASE NodeConnects(s)
    BY <2>2 DEF NodeConnects, DispatchTypeOK, requestVars, hubVars, frameVars
  <2> QED
    BY <1>9, <2>1, <2>2
<1>10. ASSUME NEW s \in Sockets, Take(s)
       PROVE DispatchTypeOK'
  <2>1. /\ Head(toNode[s]) \in Commands
        /\ toNode' \in [Sockets -> Seq(Commands)]
    BY <1>10 DEF Take, DispatchTypeOK
  <2> QED
    BY <1>10, <2>1 DEF Take, DispatchTypeOK, requestVars, hubVars
<1>11. ASSUME NEW s \in Sockets, NEW status \in Results, Ran(s, status)
       PROVE DispatchTypeOK'
  <2>1. busy[s] \in Commands
    BY <1>11 DEF Ran, DispatchTypeOK
  <2>2. toHub' \in [Sockets -> Seq(Commands \X Results)]
    BY <1>11, <2>1 DEF Ran, DispatchTypeOK
  <2>3. toNode' \in [Sockets -> Seq(Commands)]
    BY <1>11 DEF Ran, DispatchTypeOK
  <2> QED
    BY <1>11, <2>1, <2>2, <2>3 DEF Ran, DispatchTypeOK, requestVars, hubVars
<1>12. ASSUME NEW s \in Sockets, LoopEnds(s)
       PROVE DispatchTypeOK'
  BY <1>12 DEF LoopEnds, DispatchTypeOK, requestVars, hubVars
<1>13. ASSUME NEW s \in Sockets, ConnectionStep(s)
       PROVE DispatchTypeOK'
  BY <1>13 DEF ConnectionStep, DispatchTypeOK, requestVars, hubVars,
               frameVars, nodeVars
<1>14. ASSUME NEW n \in Nodes, NodeRestart(n)
       PROVE DispatchTypeOK'
  <2>1. /\ toNode \in [Sockets -> Seq(Commands)]
        /\ <<>> \in Seq(Commands)
    BY DEF DispatchTypeOK
  <2>2. toNode' \in [Sockets -> Seq(Commands)]
    BY <1>14, <2>1 DEF NodeRestart
  <2>3. busy' \in [Sockets -> Commands \cup {NoCommand}]
    BY <1>14 DEF NodeRestart, DispatchTypeOK
  <2> QED
    BY <1>14, <2>2, <2>3 DEF NodeRestart, DispatchTypeOK, requestVars, hubVars
<1>15. CASE HubCrash
  <2>1. <<>> \in Seq(Commands \X Results)
    OBVIOUS
  <2>2. toHub' = [s \in Sockets |-> <<>>]
    BY <1>15 DEF HubCrash
  <2>3. toHub' \in [Sockets -> Seq(Commands \X Results)]
    BY <2>1, <2>2
  <2> QED
    BY <1>15, <2>3 DEF HubCrash, DispatchTypeOK, nodeVars
<1>16. CASE UNCHANGED vars
  BY <1>16 DEF vars, DispatchTypeOK, requestVars, hubVars, frameVars, nodeVars
<1> QED
  BY <1>1, <1>2, <1>3, <1>4, <1>5, <1>7, <1>8, <1>9, <1>10, <1>11, <1>12,
     <1>13, <1>14, <1>15, <1>16
  DEF DispatchNext, RequestStep

\* Type correctness of the dispatch, its frames and its rows.
THEOREM DispatchTypeCorrect == DispatchSpec => []DispatchTypeOK
  BY DispatchInitType, DispatchStepType, PTL DEF DispatchSpec

-----------------------------------------------------------------------------
(***************************************************************************)
(* The inductive invariant, in three groups.  Each lemma has a step for    *)
(* every action that touches what its conjuncts speak of.                  *)
(***************************************************************************)
\* The request's side: its rows, its audit entries, its pending future.
RequestsInv ==
    /\ NothingForgotten
    /\ AnsweredIsRecorded
    /\ UnsentHasNoRow
    /\ WrittenIsSettled

\* A command is a pair of a request and a node.
LEMMA CommandParts ==
    ASSUME NEW c \in Commands
    PROVE  c[1] \in Requests /\ c[2] \in Nodes /\ c = <<c[1], c[2]>>
  BY DEF Commands

\* The requests' side is kept by every step.
LEMMA RequestsStep ==
    DispatchInv /\ [DispatchNext]_vars => RequestsInv'
<1> USE CommandParts, LogSets DEF Waiting, Ended, Results
<1> SUFFICES ASSUME DispatchInv, [DispatchNext]_vars PROVE RequestsInv'
  OBVIOUS
<1>t. /\ DispatchTypeOK /\ RequestsInv /\ PendingHasNoResult
  BY DEF DispatchInv, RequestsInv
<1> USE <1>t DEF DispatchTypeOK
<1> USE DEF NothingForgotten, AnsweredIsRecorded, UnsentHasNoRow,
            WrittenIsSettled, InFlight, RequestsInv
<1>a. WrittenIsSettled' /\ UnsentHasNoRow' => AnsweredIsRecorded'
  OBVIOUS
<1>0. ASSUME UNCHANGED <<pc, todo, cur, pending, row, audit>>
      PROVE RequestsInv'
  BY <1>0
<1>1. ASSUME NEW r \in Requests, NEW n \in Nodes, IssueOne(r, n)
      PROVE RequestsInv'
  BY <1>1 DEF IssueOne, hubVars
<1>2. ASSUME NEW r \in Requests, NEW S \in SUBSET Nodes, IssueMany(r, S)
      PROVE RequestsInv'
  BY <1>2 DEF IssueMany, hubVars
<1>3. ASSUME NEW r \in Requests, NEW n \in Nodes, Offline(r, n)
      PROVE RequestsInv'
  BY <1>3 DEF Offline, hubVars
<1>4. ASSUME NEW r \in Requests, NEW n \in Nodes, Dispatch(r, n)
      PROVE RequestsInv'
  <2>1. <<r, n>> \in Commands
    BY DEF Commands
  <2>2. NothingForgotten'
    BY <1>4, <2>1 DEF Dispatch
  <2>3. UnsentHasNoRow'
    BY <1>4, <2>1 DEF Dispatch
  <2>4. WrittenIsSettled'
    BY <1>4, <2>1 DEF Dispatch
  <2> QED
    BY <2>2, <2>3, <2>4, <1>a
<1>5. ASSUME NEW r \in Requests, Sent(r)
      PROVE RequestsInv'
  BY <1>5 DEF Sent, hubVars
<1>6. ASSUME NEW r \in Requests, SendRaises(r)
      PROVE RequestsInv'
  BY <1>6 DEF SendRaises, hubVars
<1>7. ASSUME NEW r \in Requests, TimerFires(r)
      PROVE RequestsInv'
  BY <1>7 DEF TimerFires
<1>8. ASSUME NEW r \in Requests, NEW status \in Log!Closed, Finish(r, status),
             pc[r] \in Waiting, pending' = pending \ {cur[r]}
      PROVE RequestsInv'
  <2>1. cur[r] \in Commands /\ cur[r] = <<r, cur[r][2]>>
    BY <1>8 DEF Commands
  <2>2. NothingForgotten'
    BY <1>8, <2>1 DEF Finish
  <2>3. UnsentHasNoRow'
    BY <1>8, <2>1 DEF Finish
  <2>4. WrittenIsSettled'
    <3>1. ASSUME NEW q \in Requests, pc'[q] \in Waiting
          PROVE row'[cur'[q]] = "sent"
      BY <1>8, <2>1, <3>1 DEF Finish
    <3>2. ASSUME NEW q \in Requests, NEW n \in Nodes,
                 pc'[q] \in Waiting \cup {"next", "returned"}
          PROVE \/ row'[<<q, n>>] = "none"
                \/ row'[<<q, n>>] \in Log!Closed /\ <<q, n>> \in audit'
                \/ pc'[q] \in Waiting /\ cur'[q] = <<q, n>>
      <4>1. <<q, n>> \in Commands
        BY DEF Commands
      <4>2. CASE q = r /\ <<q, n>> = cur[r]
        BY <1>8, <3>2, <4>1, <4>2 DEF Finish
      <4>3. CASE q = r /\ <<q, n>> # cur[r]
        BY <1>8, <3>2, <4>1, <4>3 DEF Finish
      <4>4. CASE q # r
        BY <1>8, <2>1, <3>2, <4>1, <4>4 DEF Finish
      <4> QED
        BY <4>2, <4>3, <4>4
    <3> QED
      BY <3>1, <3>2
  <2> QED
    BY <2>2, <2>3, <2>4, <1>a
<1>9. ASSUME NEW r \in Requests, GotResult(r)
      PROVE RequestsInv'
  <2>1. cur[r] \notin pending
    BY <1>9 DEF GotResult, PendingHasNoResult
  <2>2. /\ pending' = pending \ {cur[r]}
        /\ fut[cur[r]] \in Log!Closed
        /\ pc[r] \in Waiting
        /\ Finish(r, fut[cur[r]])
    BY <1>9, <2>1 DEF GotResult
  <2> HIDE DEF RequestsInv
  <2> QED
    BY <1>8, <2>2
<1>10. ASSUME NEW r \in Requests, TimedOut(r)
      PROVE RequestsInv'
  BY <1>8, <1>10 DEF TimedOut
<1>11. ASSUME NEW r \in Requests, BatchDone(r)
       PROVE RequestsInv'
  BY <1>11 DEF BatchDone, hubVars
<1>12. ASSUME NEW s \in Sockets, HubReceives(s)
       PROVE RequestsInv'
  BY <1>12 DEF HubReceives, ResolvePending, requestVars
<1>13. CASE HubCrash
  BY <1>13 DEF HubCrash
<1>14. ASSUME NEW r \in Requests, UserDeleted(r)
       PROVE RequestsInv'
  BY <1>0, <1>14 DEF UserDeleted, requestVars
<1>15. ASSUME NEW s \in Sockets,
             \/ HubStopsServing(s) \/ NodeConnects(s) \/ Take(s)
             \/ (\E status \in Results : Ran(s, status))
             \/ LoopEnds(s) \/ ConnectionStep(s)
       PROVE RequestsInv'
  <2>1. UNCHANGED <<requestVars, hubVars>>
    BY <1>15 DEF HubStopsServing, NodeConnects, Take, Ran, LoopEnds,
                 ConnectionStep
  <2> QED
    BY <1>0, <2>1 DEF requestVars, hubVars
<1>16. ASSUME NEW n \in Nodes, NodeRestart(n)
       PROVE RequestsInv'
  BY <1>0, <1>16 DEF NodeRestart, requestVars, hubVars
<1>17. CASE UNCHANGED vars
  BY <1>0, <1>17 DEF vars, requestVars, hubVars
<1> QED
  BY <1>1, <1>2, <1>3, <1>4, <1>5, <1>6, <1>7, <1>9, <1>10, <1>11, <1>12,
     <1>13, <1>14, <1>15, <1>16, <1>17
  DEF DispatchNext, RequestStep

\* A command stays in at most one place on the node's side.
LEMMA PlaceStep ==
    DispatchInv /\ [DispatchNext]_vars => CommandInOnePlace'
<1> USE LogSets, NoCommandAssumption DEF Results
<1> SUFFICES ASSUME DispatchInv, [DispatchNext]_vars
             PROVE CommandInOnePlace'
  OBVIOUS
<1>t. /\ DispatchTypeOK /\ UnsentHasNoRow /\ NoRowNothing
      /\ FramesUnstarted /\ FramesDistinct /\ LoopsStarted /\ LoopsDistinct
  BY DEF DispatchInv, CommandInOnePlace
<1>y. /\ toNode \in [Sockets -> Seq(Commands)]
      /\ busy \in [Sockets -> Commands \cup {NoCommand}]
      /\ outcome \in [Commands -> Log!Outcomes]
      /\ row \in [Commands -> Log!Statuses]
  BY <1>t DEF DispatchTypeOK
<1> USE <1>t, <1>y
<1>0. ASSUME UNCHANGED <<toNode, busy, outcome>>,
             \A c \in Commands : row[c] # "none" => row'[c] # "none"
      PROVE CommandInOnePlace'
  <2>1. \A s \in Sockets : \A i \in 1..Len(toNode[s]) : toNode[s][i] \in Commands
    OBVIOUS
  <2>2. FramesUnstarted' /\ FramesDistinct'
    BY <1>0, <2>1 DEF FramesUnstarted, FramesDistinct
  <2>3. LoopsStarted' /\ LoopsDistinct'
    BY <1>0 DEF LoopsStarted, LoopsDistinct
  <2> QED
    BY <2>2, <2>3 DEF CommandInOnePlace
<1>1. ASSUME NEW r \in Requests, NEW n \in Nodes, Dispatch(r, n)
      PROVE CommandInOnePlace'
  <2> DEFINE c == <<r, n>>
  <2> DEFINE u == registry[n]
  <2>1. /\ c \in Commands
        /\ row[c] = "none"
        /\ outcome[c] = "none"
        /\ u \in Sockets
    BY <1>1 DEF Dispatch, IsOnline, ConnTypeOK, DispatchTypeOK, Commands,
                UnsentHasNoRow, NoRowNothing
  <2>2. /\ \A d \in Commands : row[d] # "none" => row'[d] # "none"
        /\ row'[c] # "none"
        /\ UNCHANGED <<busy, outcome>>
    BY <1>1, <2>1 DEF Dispatch, nodeVars
  <2>3. CASE Carries(u)
    <3>1. /\ \A s \in Sockets : s # u => toNode'[s] = toNode[s]
          /\ Len(toNode'[u]) = Len(toNode[u]) + 1
          /\ \A i \in 1..Len(toNode[u]) : toNode'[u][i] = toNode[u][i]
          /\ toNode'[u][Len(toNode[u]) + 1] = c
      BY <1>1, <2>1, <2>3 DEF Dispatch
    <3>2. \A s \in Sockets : \A i \in 1..Len(toNode[s]) : toNode[s][i] # c
      <4> HIDE DEF c
      <4> QED
        BY <2>1 DEF FramesUnstarted
    <3>3. \A s \in Sockets : \A i \in 1..Len(toNode'[s]) :
            \/ s = u /\ i = Len(toNode[u]) + 1
            \/ i \in 1..Len(toNode[s]) /\ toNode'[s][i] = toNode[s][i]
      BY <2>1, <3>1
    <3>4. \A s \in Sockets : \A i \in 1..Len(toNode[s]) :
            toNode[s][i] \in Commands
      OBVIOUS
    <3>5. FramesUnstarted'
      <4> SUFFICES ASSUME NEW s \in Sockets, NEW i \in 1..Len(toNode'[s])
                   PROVE /\ row'[toNode'[s][i]] # "none"
                         /\ outcome'[toNode'[s][i]] = "none"
        BY DEF FramesUnstarted
      <4>1. CASE s = u /\ i = Len(toNode[u]) + 1
        BY <2>1, <2>2, <3>1, <4>1
      <4>2. CASE i \in 1..Len(toNode[s]) /\ toNode'[s][i] = toNode[s][i]
        BY <2>2, <3>4, <4>2 DEF FramesUnstarted
      <4> QED
        BY <3>3, <4>1, <4>2
    <3>6. FramesDistinct'
      <4> SUFFICES ASSUME NEW s \in Sockets, NEW w \in Sockets,
                          NEW i \in 1..Len(toNode'[s]),
                          NEW j \in 1..Len(toNode'[w]),
                          toNode'[s][i] = toNode'[w][j]
                   PROVE s = w /\ i = j
        BY DEF FramesDistinct
      <4>1. CASE /\ s = u /\ i = Len(toNode[u]) + 1
                 /\ w = u /\ j = Len(toNode[u]) + 1
        BY <4>1
      <4>2. CASE /\ i \in 1..Len(toNode[s]) /\ toNode'[s][i] = toNode[s][i]
                 /\ w = u /\ j = Len(toNode[u]) + 1
        BY <3>1, <3>2, <4>2
      <4>3. CASE /\ s = u /\ i = Len(toNode[u]) + 1
                 /\ j \in 1..Len(toNode[w]) /\ toNode'[w][j] = toNode[w][j]
        BY <3>1, <3>2, <4>3
      <4>4. CASE /\ i \in 1..Len(toNode[s]) /\ toNode'[s][i] = toNode[s][i]
                 /\ j \in 1..Len(toNode[w]) /\ toNode'[w][j] = toNode[w][j]
        <5>1. toNode[s][i] = toNode[w][j]
          BY <4>4
        <5> QED
          BY <4>4, <5>1 DEF FramesDistinct
      <4> QED
        BY <3>3, <4>1, <4>2, <4>3, <4>4
    <3>7. LoopsStarted' /\ LoopsDistinct'
      BY <2>2 DEF LoopsStarted, LoopsDistinct
    <3> QED
      BY <3>5, <3>6, <3>7 DEF CommandInOnePlace
  <2>4. CASE ~Carries(u)
    <3>1. toNode' = toNode
      BY <1>1, <2>4 DEF Dispatch
    <3> QED
      BY <1>0, <2>2, <3>1
  <2> QED
    BY <2>3, <2>4
<1>2. ASSUME NEW r \in Requests, NEW status \in Log!Closed, Finish(r, status)
      PROVE CommandInOnePlace'
  BY <1>0, <1>2 DEF Finish, frameVars, nodeVars
<1>3. ASSUME NEW r \in Requests, NEW n \in Nodes,
             IssueOne(r, n) \/ Offline(r, n)
      PROVE CommandInOnePlace'
  <2>1. UNCHANGED <<hubVars, frameVars, nodeVars>>
    BY <1>3 DEF IssueOne, Offline
  <2> QED
    BY <1>0, <2>1 DEF hubVars, frameVars, nodeVars
<1>4. ASSUME NEW r \in Requests, NEW S \in SUBSET Nodes, IssueMany(r, S)
      PROVE CommandInOnePlace'
  BY <1>0, <1>4 DEF IssueMany, hubVars, frameVars, nodeVars
<1>5. ASSUME NEW r \in Requests,
             \/ Sent(r) \/ SendRaises(r) \/ BatchDone(r) \/ UserDeleted(r)
             \/ TimerFires(r)
      PROVE CommandInOnePlace'
  <2>1. UNCHANGED <<row, frameVars, nodeVars>>
    BY <1>5 DEF Sent, SendRaises, BatchDone, UserDeleted, TimerFires, hubVars
  <2> QED
    BY <1>0, <2>1 DEF frameVars, nodeVars
<1>6. ASSUME NEW r \in Requests, GotResult(r) \/ TimedOut(r)
      PROVE CommandInOnePlace'
  BY <1>2, <1>6 DEF GotResult, TimedOut
<1>7. ASSUME NEW s \in Sockets,
             \/ HubReceives(s) \/ HubStopsServing(s) \/ NodeConnects(s)
             \/ ConnectionStep(s)
      PROVE CommandInOnePlace'
  <2>1. UNCHANGED <<row, toNode, busy, outcome>>
    BY <1>7 DEF HubReceives, HubStopsServing, NodeConnects, ConnectionStep,
                hubVars, frameVars, nodeVars
  <2> QED
    BY <1>0, <2>1
<1>8. CASE HubCrash
  BY <1>0, <1>8 DEF HubCrash, nodeVars
<1>9. ASSUME NEW s \in Sockets, Take(s)
      PROVE CommandInOnePlace'
  <2> DEFINE c == Head(toNode[s])
  <2>1. /\ s \in Sockets /\ busy[s] = NoCommand
        /\ Len(toNode[s]) \in Nat /\ Len(toNode[s]) > 0
        /\ c = toNode[s][1] /\ c \in Commands
        /\ row[c] # "none" /\ outcome[c] = "none"
    BY <1>9 DEF Take, FramesUnstarted
  <2>2. /\ \A w \in Sockets : w # s => toNode'[w] = toNode[w]
        /\ Len(toNode'[s]) = Len(toNode[s]) - 1
        /\ \A i \in 1..Len(toNode'[s]) : toNode'[s][i] = toNode[s][i + 1]
    BY <1>9, <2>1 DEF Take
  <2>3. /\ UNCHANGED row
        /\ busy' = [busy EXCEPT ![s] = c]
        /\ outcome' = [outcome EXCEPT ![c] = "started"]
    BY <1>9 DEF Take, hubVars
  \* A frame still unread is one unread before, and not the one taken.
  <2>4. \A w \in Sockets : \A i \in 1..Len(toNode'[w]) :
          \E j \in 1..Len(toNode[w]) :
             /\ toNode'[w][i] = toNode[w][j]
             /\ j = (IF w = s THEN i + 1 ELSE i)
             /\ toNode[w][j] # c
             /\ toNode[w][j] \in Commands
    <3> SUFFICES ASSUME NEW w \in Sockets, NEW i \in 1..Len(toNode'[w])
                 PROVE \E j \in 1..Len(toNode[w]) :
                         /\ toNode'[w][i] = toNode[w][j]
                         /\ j = (IF w = s THEN i + 1 ELSE i)
                         /\ toNode[w][j] # c
                         /\ toNode[w][j] \in Commands
      OBVIOUS
    <3>0. Len(toNode[w]) \in Nat
      OBVIOUS
    <3>1. CASE w = s
      <4>1. i + 1 \in 1..Len(toNode[s]) /\ 1 \in 1..Len(toNode[s])
        BY <2>1, <2>2, <3>1
      <4>2. toNode[s][i + 1] # c
        BY <2>1, <4>1, <3>1 DEF FramesDistinct
      <4> QED
        BY <2>2, <3>1, <4>1, <4>2
    <3>2. CASE w # s
      <4>1. i \in 1..Len(toNode[w]) /\ 1 \in 1..Len(toNode[s])
        BY <2>1, <2>2, <3>2
      <4>2. toNode[w][i] # c
        BY <2>1, <4>1, <3>2 DEF FramesDistinct
      <4> QED
        BY <2>2, <3>2, <4>1, <4>2
    <3> QED
      BY <3>1, <3>2
  <2>5. FramesUnstarted'
    <3> SUFFICES ASSUME NEW w \in Sockets, NEW i \in 1..Len(toNode'[w])
                 PROVE /\ row'[toNode'[w][i]] # "none"
                       /\ outcome'[toNode'[w][i]] = "none"
      BY DEF FramesUnstarted
    <3>1. PICK j \in 1..Len(toNode[w]) :
             /\ toNode'[w][i] = toNode[w][j]
             /\ toNode[w][j] # c
             /\ toNode[w][j] \in Commands
      BY <2>4
    <3> QED
      BY <2>3, <3>1 DEF FramesUnstarted
  <2>6. FramesDistinct'
    <3> SUFFICES ASSUME NEW w \in Sockets, NEW v \in Sockets,
                        NEW i \in 1..Len(toNode'[w]),
                        NEW j \in 1..Len(toNode'[v]),
                        toNode'[w][i] = toNode'[v][j]
                 PROVE w = v /\ i = j
      BY DEF FramesDistinct
    <3>1. PICK k \in 1..Len(toNode[w]) :
             toNode'[w][i] = toNode[w][k] /\ k = (IF w = s THEN i + 1 ELSE i)
      BY <2>4
    <3>2. PICK l \in 1..Len(toNode[v]) :
             toNode'[v][j] = toNode[v][l] /\ l = (IF v = s THEN j + 1 ELSE j)
      BY <2>4
    <3>3. toNode[w][k] = toNode[v][l]
      BY <3>1, <3>2
    <3>4. w = v /\ k = l
      BY <3>3 DEF FramesDistinct
    <3>5. k \in Nat /\ l \in Nat /\ i \in Nat /\ j \in Nat
      OBVIOUS
    <3> QED
      BY <3>1, <3>2, <3>4, <3>5
  <2>7. LoopsStarted'
    BY <2>1, <2>3 DEF LoopsStarted
  <2>8. LoopsDistinct'
    BY <2>1, <2>3 DEF LoopsStarted, LoopsDistinct
  <2> QED
    BY <2>5, <2>6, <2>7, <2>8 DEF CommandInOnePlace
<1>10. ASSUME NEW s \in Sockets, NEW status \in Results, Ran(s, status)
       PROVE CommandInOnePlace'
  <2>1. /\ busy[s] \in Commands
        /\ outcome[busy[s]] = "started"
        /\ UNCHANGED row
        /\ busy' = [busy EXCEPT ![s] = NoCommand]
        /\ outcome' = [outcome EXCEPT ![busy[s]] = status]
    BY <1>10 DEF Ran, LoopsStarted, hubVars
  <2>2. \A w \in Sockets : toNode'[w] = toNode[w] \/ toNode'[w] = <<>>
    BY <1>10 DEF Ran
  <2>3. \A w \in Sockets : \A i \in 1..Len(toNode'[w]) :
          toNode'[w] = toNode[w] /\ i \in 1..Len(toNode[w])
    BY <2>2
  <2>4. FramesUnstarted'
    <3>1. \A w \in Sockets : \A i \in 1..Len(toNode[w]) :
             toNode[w][i] \in Commands /\ toNode[w][i] # busy[s]
      BY <2>1 DEF FramesUnstarted
    <3> QED
      BY <2>1, <2>3, <3>1 DEF FramesUnstarted
  <2>5. FramesDistinct'
    BY <2>3 DEF FramesDistinct
  <2>6. LoopsStarted'
    BY <2>1 DEF LoopsStarted, LoopsDistinct
  <2>7. LoopsDistinct'
    BY <2>1 DEF LoopsDistinct
  <2> QED
    BY <2>4, <2>5, <2>6, <2>7 DEF CommandInOnePlace
<1>11. ASSUME NEW s \in Sockets, LoopEnds(s)
       PROVE CommandInOnePlace'
  <2>1. UNCHANGED <<row, busy, outcome>>
    BY <1>11 DEF LoopEnds, hubVars
  <2>2. \A w \in Sockets : toNode'[w] = toNode[w] \/ toNode'[w] = <<>>
    BY <1>11 DEF LoopEnds
  <2>3. \A w \in Sockets : \A i \in 1..Len(toNode'[w]) :
          toNode'[w] = toNode[w] /\ i \in 1..Len(toNode[w])
    BY <2>2
  <2>4. FramesUnstarted' /\ FramesDistinct'
    BY <2>1, <2>3 DEF FramesUnstarted, FramesDistinct
  <2>5. LoopsStarted' /\ LoopsDistinct'
    BY <2>1 DEF LoopsStarted, LoopsDistinct
  <2> QED
    BY <2>4, <2>5 DEF CommandInOnePlace
<1>12. ASSUME NEW n \in Nodes, NodeRestart(n)
       PROVE CommandInOnePlace'
  <2>1. UNCHANGED <<row, outcome>>
    BY <1>12 DEF NodeRestart, hubVars
  <2>2. \A w \in Sockets : toNode'[w] = toNode[w] \/ toNode'[w] = <<>>
    BY <1>12 DEF NodeRestart
  <2>2b. \A w \in Sockets : busy'[w] = busy[w] \/ busy'[w] = NoCommand
    BY <1>12 DEF NodeRestart
  <2>3. \A w \in Sockets : \A i \in 1..Len(toNode'[w]) :
          toNode'[w] = toNode[w] /\ i \in 1..Len(toNode[w])
    BY <2>2
  <2>4. FramesUnstarted' /\ FramesDistinct'
    BY <2>1, <2>3 DEF FramesUnstarted, FramesDistinct
  <2>5. LoopsStarted' /\ LoopsDistinct'
    BY <2>1, <2>2b DEF LoopsStarted, LoopsDistinct
  <2> QED
    BY <2>4, <2>5 DEF CommandInOnePlace
<1>13. CASE UNCHANGED vars
  BY <1>0, <1>13 DEF vars, hubVars, frameVars, nodeVars
<1> QED
  BY <1>1, <1>3, <1>4, <1>5, <1>6, <1>7, <1>8, <1>9, <1>10, <1>11, <1>12,
     <1>13
  DEF DispatchNext, RequestStep

\* On its way back, an answer stays the one the handler gave.
AnswersInv == AnswerIsTheNodes /\ NoRowNothing /\ PendingHasNoResult

\* Answers stay the handlers' at every step.
LEMMA AnswersStep ==
    DispatchInv /\ [DispatchNext]_vars => AnswersInv'
<1> USE LogSets, NoCommandAssumption DEF Results
<1> SUFFICES ASSUME DispatchInv, [DispatchNext]_vars
             PROVE AnswersInv'
  OBVIOUS
<1>t. /\ DispatchTypeOK /\ NoRowNothing /\ PendingHasNoResult
      /\ AnswerIsTheNodes /\ FramesUnstarted /\ LoopsStarted
      /\ WrittenIsSettled
  BY DEF DispatchInv, CommandInOnePlace
<1>y. /\ toNode \in [Sockets -> Seq(Commands)]
      /\ toHub \in [Sockets -> Seq(Commands \X Results)]
      /\ busy \in [Sockets -> Commands \cup {NoCommand}]
      /\ outcome \in [Commands -> Log!Outcomes]
      /\ fut \in [Commands -> Results \cup {"none", "open", "cancelled"}]
      /\ row \in [Commands -> Log!Statuses]
      /\ pending \subseteq Commands
      /\ \A r \in Requests : pc[r] \in Waiting => cur[r] \in Commands
  BY <1>t, CommandParts DEF DispatchTypeOK, Commands
<1> USE <1>t, <1>y
\* Frames not appended to keep their answers, if no outcome in them changes.
<1>f. ASSUME NEW s \in Sockets, NEW i \in 1..Len(toHub[s])
      PROVE  /\ toHub[s][i] \in Commands \X Results
             /\ toHub[s][i][1] \in Commands
             /\ toHub[s][i][2] \in Results
             /\ outcome[toHub[s][i][1]] = toHub[s][i][2]
  BY DEF AnswerIsTheNodes
<1>0. ASSUME UNCHANGED <<outcome, fut, row, pending>>,
             \A s \in Sockets : toHub'[s] = toHub[s] \/ toHub'[s] = <<>>
      PROVE AnswersInv'
  <2>1. \A s \in Sockets : \A i \in 1..Len(toHub'[s]) :
          toHub'[s] = toHub[s] /\ i \in 1..Len(toHub[s])
    BY <1>0
  <2>2. \A s \in Sockets : \A i \in 1..Len(toHub'[s]) :
          outcome'[toHub'[s][i][1]] = toHub'[s][i][2]
    BY <1>0, <1>f, <2>1
  <2> QED
    BY <1>0, <2>2 DEF AnswersInv, AnswerIsTheNodes, NoRowNothing,
                      PendingHasNoResult
<1>1. ASSUME NEW r \in Requests, NEW n \in Nodes, Dispatch(r, n)
      PROVE AnswersInv'
  <2> DEFINE c == <<r, n>>
  <2>1. c \in Commands
    BY DEF Commands
  <2>2. /\ row' = [row EXCEPT ![c] = "sent"]
        /\ fut' = [fut EXCEPT ![c] = "open"]
        /\ pending' = pending \cup {c}
        /\ UNCHANGED <<toHub, outcome>>
    BY <1>1 DEF Dispatch, nodeVars
  <2> HIDE DEF c
  <2>3. AnswerIsTheNodes'
    BY <1>f, <2>1, <2>2 DEF AnswerIsTheNodes
  <2>4. NoRowNothing' /\ PendingHasNoResult'
    BY <2>1, <2>2 DEF NoRowNothing, PendingHasNoResult
  <2> QED
    BY <2>3, <2>4 DEF AnswersInv
<1>2. ASSUME NEW r \in Requests, NEW status \in Log!Closed, Finish(r, status),
             pc[r] \in Waiting, pending' \subseteq pending,
             status \in Results => outcome[cur[r]] = status
      PROVE AnswersInv'
  <2>1. /\ cur[r] \in Commands
        /\ row' = [row EXCEPT ![cur[r]] = status]
        /\ fut' = [fut EXCEPT ![cur[r]] = "none"]
        /\ UNCHANGED <<toHub, outcome>>
    BY <1>2 DEF Finish, frameVars, nodeVars
  <2> QED
    BY <1>2, <2>1 DEF AnswersInv, AnswerIsTheNodes, NoRowNothing,
                      PendingHasNoResult
<1>3. ASSUME NEW r \in Requests, GotResult(r) \/ TimedOut(r)
      PROVE AnswersInv'
  <2>1. CASE GotResult(r)
    <3>1. /\ pc[r] \in Waiting /\ fut[cur[r]] \in Log!Closed
          /\ Finish(r, fut[cur[r]]) /\ pending' \subseteq pending
      BY <2>1 DEF GotResult, Waiting
    <3>2. outcome[cur[r]] = fut[cur[r]]
      BY <2>1, <3>1 DEF GotResult, AnswerIsTheNodes
    <3> QED
      BY <1>2, <3>1, <3>2
  <2>2. CASE TimedOut(r)
    BY <1>2, <2>2 DEF TimedOut, Waiting
  <2> QED
    BY <1>3, <2>1, <2>2
<1>4. ASSUME NEW r \in Requests, TimerFires(r)
      PROVE AnswersInv'
  <2>1. /\ cur[r] \in Commands
        /\ fut' = [fut EXCEPT ![cur[r]] = IF @ = "open" THEN "cancelled"
                                                        ELSE @]
        /\ UNCHANGED <<toHub, outcome, row, pending>>
    BY <1>4 DEF TimerFires, Waiting, frameVars, nodeVars
  <2>2. \A c \in Commands : \/ fut'[c] = fut[c]
                            \/ fut[c] = "open" /\ fut'[c] = "cancelled"
    BY <2>1
  <2>3. "open" \notin Results /\ "cancelled" \notin Results
    OBVIOUS
  <2>4. AnswerIsTheNodes'
    BY <2>1, <2>2, <2>3 DEF AnswerIsTheNodes
  <2>5. NoRowNothing' /\ PendingHasNoResult'
    BY <2>1, <2>2, <2>3 DEF NoRowNothing, PendingHasNoResult
  <2> QED
    BY <2>4, <2>5 DEF AnswersInv
<1>5. ASSUME NEW s \in Sockets, HubReceives(s)
      PROVE AnswersInv'
  <2> DEFINE c == Head(toHub[s])[1]
  <2> DEFINE st == Head(toHub[s])[2]
  <2>1. /\ Len(toHub[s]) \in Nat /\ 1 \in 1..Len(toHub[s])
        /\ Head(toHub[s]) = toHub[s][1]
    BY <1>5 DEF HubReceives
  <2>2. c \in Commands /\ st \in Results /\ outcome[c] = st
    <3>1. /\ toHub[s][1][1] \in Commands /\ toHub[s][1][2] \in Results
          /\ outcome[toHub[s][1][1]] = toHub[s][1][2]
      BY <1>f, <2>1
    <3> QED
      BY <2>1, <3>1
  <2>3. /\ toHub' = [toHub EXCEPT ![s] = Tail(@)]
        /\ UNCHANGED <<row, outcome>>
        /\ pending' = pending \ {c}
        /\ fut' = IF c \in pending /\ fut[c] = "open"
                  THEN [fut EXCEPT ![c] = st] ELSE fut
    BY <1>5 DEF HubReceives, ResolvePending, nodeVars
  <2>4. ASSUME NEW w \in Sockets, NEW i \in 1..Len(toHub'[w])
        PROVE  outcome'[toHub'[w][i][1]] = toHub'[w][i][2]
    <3>1. CASE w = s
      <4>1. /\ i + 1 \in 1..Len(toHub[s])
            /\ toHub'[s][i] = toHub[s][i + 1]
        BY <2>1, <2>3, <3>1
      <4> QED
        BY <1>f, <2>3, <3>1, <4>1
    <3>2. CASE w # s
      <4>1. toHub'[w] = toHub[w]
        BY <2>3, <3>2
      <4> QED
        BY <1>f, <2>3, <4>1
    <3> QED
      BY <3>1, <3>2
  <2> HIDE DEF c, st
  <2> QED
    BY <2>2, <2>3, <2>4 DEF AnswersInv, AnswerIsTheNodes, NoRowNothing,
                            PendingHasNoResult
<1>6. ASSUME NEW s \in Sockets, Take(s)
      PROVE AnswersInv'
  <2> DEFINE c == Head(toNode[s])
  <2>1. /\ Len(toNode[s]) \in Nat /\ 1 \in 1..Len(toNode[s])
        /\ c = toNode[s][1]
    BY <1>6 DEF Take
  <2>2. c \in Commands /\ row[c] # "none" /\ outcome[c] = "none"
    BY <2>1 DEF FramesUnstarted
  <2>3. /\ outcome' = [outcome EXCEPT ![c] = "started"]
        /\ UNCHANGED <<toHub, fut, row, pending>>
    BY <1>6 DEF Take, hubVars
  <2> HIDE DEF c
  <2>4. ASSUME NEW w \in Sockets, NEW i \in 1..Len(toHub'[w])
        PROVE  outcome'[toHub'[w][i][1]] = toHub'[w][i][2]
    <3>1. toHub'[w] = toHub[w] /\ i \in 1..Len(toHub[w])
      BY <2>3
    <3> DEFINE d == toHub[w][i][1]
    <3>2. d \in Commands /\ outcome[d] = toHub[w][i][2] /\ outcome[d] \in Results
      BY <1>f, <3>1
    <3> HIDE DEF d
    <3>3. d \in Commands /\ d # c /\ outcome[d] = toHub[w][i][2]
      BY <2>2, <3>2
    <3>4. outcome'[d] = outcome[d]
      BY <2>3, <3>3
    <3>5. toHub'[w][i][1] = d /\ toHub'[w][i][2] = toHub[w][i][2]
      BY <3>1 DEF d
    <3> QED
      BY <3>3, <3>4, <3>5
  <2> QED
    BY <2>2, <2>3, <2>4 DEF AnswersInv, AnswerIsTheNodes, NoRowNothing,
                            PendingHasNoResult
<1>7. ASSUME NEW s \in Sockets, NEW status \in Results, Ran(s, status)
      PROVE AnswersInv'
  <2> DEFINE c == busy[s]
  <2>1. c \in Commands /\ row[c] # "none" /\ outcome[c] = "started"
    BY <1>7 DEF Ran, LoopsStarted
  <2>2. /\ outcome' = [outcome EXCEPT ![c] = status]
        /\ UNCHANGED <<fut, row, pending>>
        /\ toHub' = IF Carries(s)
                    THEN [toHub EXCEPT ![s] = Append(@, <<c, status>>)]
                    ELSE toHub
    BY <1>7 DEF Ran, hubVars
  <2> HIDE DEF c
  <2>3. ASSUME NEW w \in Sockets, NEW i \in 1..Len(toHub[w])
        PROVE  outcome'[toHub[w][i][1]] = toHub[w][i][2]
    BY <1>f, <2>1, <2>2
  <2>4. ASSUME NEW w \in Sockets, NEW i \in 1..Len(toHub'[w])
        PROVE  outcome'[toHub'[w][i][1]] = toHub'[w][i][2]
    <3>1. CASE w = s /\ Carries(s)
      <4>1. /\ Len(toHub[s]) \in Nat
            /\ toHub'[s] = Append(toHub[s], <<c, status>>)
        BY <2>2, <3>1
      <4>2. CASE i = Len(toHub[s]) + 1
        BY <2>1, <2>2, <3>1, <4>1, <4>2
      <4>3. CASE i # Len(toHub[s]) + 1
        <5>1. i \in 1..Len(toHub[s]) /\ toHub'[s][i] = toHub[s][i]
          BY <3>1, <4>1, <4>3
        <5> QED
          BY <2>3, <3>1, <5>1
      <4> QED
        BY <4>2, <4>3
    <3>2. CASE w # s \/ ~Carries(s)
      <4>1. toHub'[w] = toHub[w]
        BY <2>2, <3>2
      <4> QED
        BY <2>3, <4>1
    <3> QED
      BY <3>1, <3>2
  <2> QED
    BY <2>1, <2>2, <2>4 DEF AnswersInv, AnswerIsTheNodes, NoRowNothing,
                            PendingHasNoResult
<1>8. CASE HubCrash
  <2>1. /\ pending' = {} /\ fut' = [c \in Commands |-> "none"]
        /\ \A s \in Sockets : toHub'[s] = <<>>
        /\ UNCHANGED <<row, outcome>>
    BY <1>8 DEF HubCrash, nodeVars
  <2>2. \A s \in Sockets : 1..Len(toHub'[s]) = {}
    BY <2>1
  <2> QED
    BY <2>1, <2>2 DEF AnswersInv, AnswerIsTheNodes, NoRowNothing,
                      PendingHasNoResult
<1>9. ASSUME NEW r \in Requests,
             \/ (\E n \in Nodes : IssueOne(r, n) \/ Offline(r, n))
             \/ (\E S \in SUBSET Nodes : IssueMany(r, S))
             \/ Sent(r) \/ SendRaises(r) \/ BatchDone(r) \/ UserDeleted(r)
      PROVE AnswersInv'
  <2>1. UNCHANGED <<outcome, fut, row, pending, toHub>>
    BY <1>9 DEF IssueOne, Offline, IssueMany, Sent, SendRaises, BatchDone,
                UserDeleted, hubVars, frameVars, nodeVars
  <2> QED
    BY <1>0, <2>1
<1>10. ASSUME NEW s \in Sockets,
              \/ HubStopsServing(s) \/ NodeConnects(s) \/ LoopEnds(s)
              \/ ConnectionStep(s)
       PROVE AnswersInv'
  <2>1. UNCHANGED <<outcome, fut, row, pending>>
    BY <1>10 DEF HubStopsServing, NodeConnects, LoopEnds, ConnectionStep,
                 hubVars, nodeVars
  <2>2. \A w \in Sockets : toHub'[w] = toHub[w] \/ toHub'[w] = <<>>
    BY <1>10 DEF HubStopsServing, NodeConnects, LoopEnds, ConnectionStep,
                 frameVars
  <2> QED
    BY <1>0, <2>1, <2>2
<1>11. ASSUME NEW n \in Nodes, NodeRestart(n)
       PROVE AnswersInv'
  BY <1>0, <1>11 DEF NodeRestart, hubVars
<1>12. CASE UNCHANGED vars
  BY <1>0, <1>12 DEF vars, hubVars, frameVars, nodeVars
<1> QED
  BY <1>1, <1>3, <1>4, <1>5, <1>6, <1>7, <1>8, <1>9, <1>10, <1>11, <1>12
  DEF DispatchNext, RequestStep

\* Initially the invariant holds: there is no row, frame, loop or future.
LEMMA DispatchInitInv == DispatchInit => DispatchInv
<1> USE LogSets, CommandParts DEF Waiting, Ended, Results
<1> SUFFICES ASSUME DispatchInit PROVE DispatchInv
  OBVIOUS
<1>1. DispatchTypeOK
  BY DispatchInitType
<1>2. /\ pc = [r \in Requests |-> "idle"]
      /\ pending = {}
      /\ fut = [c \in Commands |-> "none"]
      /\ row = [c \in Commands |-> "none"]
      /\ toNode = [s \in Sockets |-> <<>>]
      /\ toHub = [s \in Sockets |-> <<>>]
      /\ busy = [s \in Sockets |-> NoCommand]
      /\ outcome = [c \in Commands |-> "none"]
  BY DEF DispatchInit
<1>3. \A r \in Requests, n \in Nodes : row[<<r, n>>] = "none"
  BY <1>2 DEF Commands
<1>4. NothingForgotten /\ AnsweredIsRecorded
  BY <1>2, <1>3 DEF NothingForgotten, AnsweredIsRecorded
<1>5. \A s \in Sockets : 1..Len(toNode[s]) = {} /\ 1..Len(toHub[s]) = {}
  BY <1>2
<1>6. AnswerIsTheNodes /\ NoRowNothing /\ PendingHasNoResult
  BY <1>2, <1>5 DEF AnswerIsTheNodes, NoRowNothing, PendingHasNoResult
<1>7. CommandInOnePlace
  BY <1>2, <1>5 DEF CommandInOnePlace, FramesUnstarted, FramesDistinct,
                    LoopsStarted, LoopsDistinct
<1>8. UnsentHasNoRow /\ WrittenIsSettled
  BY <1>2, <1>3 DEF UnsentHasNoRow, WrittenIsSettled
<1> QED
  BY <1>1, <1>4, <1>6, <1>7, <1>8 DEF DispatchInv

\* The invariant is inductive.
THEOREM DispatchInvariant == DispatchSpec => []DispatchInv
<1>1. DispatchInv /\ [DispatchNext]_vars => DispatchInv'
  <2> SUFFICES ASSUME DispatchInv, [DispatchNext]_vars PROVE DispatchInv'
    OBVIOUS
  <2>1. DispatchTypeOK'
    BY DispatchStepType DEF DispatchInv
  <2>2. RequestsInv' /\ CommandInOnePlace' /\ AnswersInv'
    BY RequestsStep, PlaceStep, AnswersStep
  <2> QED
    BY <2>1, <2>2 DEF DispatchInv, RequestsInv, AnswersInv
<1> QED
  BY <1>1, DispatchInitInv, PTL DEF DispatchSpec

\* No pending future and no row "sent" is left without the coroutine that
\* settles it, except by a send that raised or a hub that stopped.
THEOREM DispatchNothingForgotten == DispatchSpec => []NothingForgotten
<1>1. DispatchInv => NothingForgotten
  BY DEF DispatchInv
<1> QED
  BY <1>1, DispatchInvariant, PTL

\* A request that answers has closed and audited all it sent.
THEOREM DispatchAnsweredIsRecorded == DispatchSpec => []AnsweredIsRecorded
<1>1. DispatchInv => AnsweredIsRecorded
  BY DEF DispatchInv
<1> QED
  BY <1>1, DispatchInvariant, PTL

\* An answer, in a frame, a future or a row, is the one the handler gave.
THEOREM DispatchAnswerIsTheNodes == DispatchSpec => []AnswerIsTheNodes
<1>1. DispatchInv => AnswerIsTheNodes
  BY DEF DispatchInv
<1> QED
  BY <1>1, DispatchInvariant, PTL

\* A command is in one unread frame or in one loop's thread, never in two.
THEOREM DispatchInOnePlace == DispatchSpec => []CommandInOnePlace
<1>1. DispatchInv => CommandInOnePlace
  BY DEF DispatchInv
<1> QED
  BY <1>1, DispatchInvariant, PTL

-----------------------------------------------------------------------------
\* A settled future is never settled again.
THEOREM DispatchFutureSettledOnce == DispatchSpec => FutureSettledOnce
<1> DEFINE Kept(c) == fut[c] \in Results \cup {"cancelled"}
                         => fut'[c] \in {fut[c], "none"}
<1>1. DispatchInv /\ [DispatchNext]_vars
        => [\A c \in Commands : Kept(c)]_vars
  <2> USE LogSets, CommandParts DEF Results
  <2> SUFFICES ASSUME DispatchInv, DispatchNext, NEW c \in Commands
               PROVE Kept(c)
    OBVIOUS
  <2>t. /\ fut \in [Commands -> Results \cup {"none", "open", "cancelled"}]
        /\ UnsentHasNoRow /\ NoRowNothing
    BY DEF DispatchInv, DispatchTypeOK
  <2>0. CASE UNCHANGED fut
    BY <2>0
  <2>1. ASSUME NEW r \in Requests, NEW n \in Nodes, Dispatch(r, n)
        PROVE Kept(c)
    <3>1. <<r, n>> \in Commands
      BY DEF Commands
    <3>2. fut[<<r, n>>] = "none"
      BY <2>1, <2>t, <3>1 DEF Dispatch, UnsentHasNoRow, NoRowNothing
    <3>3. fut' = [fut EXCEPT ![<<r, n>>] = "open"]
      BY <2>1 DEF Dispatch
    <3> QED
      BY <2>t, <3>1, <3>2, <3>3
  <2>2. ASSUME NEW r \in Requests, TimerFires(r) PROVE Kept(c)
    BY <2>t, <2>2 DEF TimerFires
  <2>3. ASSUME NEW r \in Requests, NEW status \in Log!Closed, Finish(r, status)
        PROVE Kept(c)
    BY <2>t, <2>3 DEF Finish
  <2>4. ASSUME NEW r \in Requests, GotResult(r) \/ TimedOut(r) PROVE Kept(c)
    BY <2>3, <2>4 DEF GotResult, TimedOut
  <2>5. ASSUME NEW s \in Sockets, HubReceives(s) PROVE Kept(c)
    BY <2>t, <2>5 DEF HubReceives, ResolvePending
  <2>6. CASE HubCrash
    BY <2>6 DEF HubCrash
  <2>7. ASSUME NEW r \in Requests,
               \/ (\E n \in Nodes : IssueOne(r, n) \/ Offline(r, n))
               \/ (\E S \in SUBSET Nodes : IssueMany(r, S))
               \/ Sent(r) \/ SendRaises(r) \/ BatchDone(r) \/ UserDeleted(r)
        PROVE Kept(c)
    BY <2>0, <2>7 DEF IssueOne, Offline, IssueMany, Sent, SendRaises,
                      BatchDone, UserDeleted, hubVars
  <2>8. ASSUME NEW s \in Sockets,
               \/ HubStopsServing(s) \/ NodeConnects(s) \/ LoopEnds(s)
               \/ ConnectionStep(s) \/ Take(s)
               \/ (\E status \in Results : Ran(s, status))
        PROVE Kept(c)
    BY <2>0, <2>8 DEF HubStopsServing, NodeConnects, LoopEnds,
                      ConnectionStep, Take, Ran, hubVars
  <2>9. ASSUME NEW n \in Nodes, NodeRestart(n) PROVE Kept(c)
    BY <2>0, <2>9 DEF NodeRestart, hubVars
  <2> QED
    BY <2>1, <2>2, <2>4, <2>5, <2>6, <2>7, <2>8, <2>9
    DEF DispatchNext, RequestStep
<1> QED
  BY <1>1, DispatchInvariant, PTL DEF DispatchSpec, FutureSettledOnce

-----------------------------------------------------------------------------
\* The hub's record of every command follows CommandLog: a row is opened once,
\* the handler runs at most once and only afterwards, and the row is closed at
\* most once and with nothing the handler did not say.
THEOREM DispatchImplementsLog == DispatchSpec => ImplementsCommandLog
<1>1. DispatchInit => Log!LogInit
  BY DEF DispatchInit, Log!LogInit
<1>2. DispatchInv /\ [DispatchNext]_vars => [Log!LogNext]_(Log!logVars)
  <2> USE LogSets DEF Results
  <2> SUFFICES ASSUME DispatchInv, [DispatchNext]_vars
               PROVE [Log!LogNext]_(Log!logVars)
    OBVIOUS
  <2>t. /\ DispatchTypeOK /\ UnsentHasNoRow /\ NoRowNothing
        /\ AnswerIsTheNodes /\ FramesUnstarted /\ LoopsStarted
        /\ WrittenIsSettled
    BY DEF DispatchInv, CommandInOnePlace
  <2>y. /\ toNode \in [Sockets -> Seq(Commands)]
        /\ busy \in [Sockets -> Commands \cup {NoCommand}]
        /\ \A r \in Requests : pc[r] \in Waiting => cur[r] \in Commands
    BY <2>t, CommandParts DEF DispatchTypeOK, Commands
  <2>0. CASE UNCHANGED <<row, outcome, audit>>
    BY <2>0 DEF Log!logVars
  <2>1. ASSUME NEW r \in Requests, NEW n \in Nodes, Dispatch(r, n)
        PROVE Log!LogNext
    <3>1. <<r, n>> \in Commands
      BY DEF Commands
    <3>2. Log!Open(<<r, n>>)
      BY <2>t, <2>1 DEF Dispatch, UnsentHasNoRow, Log!Open, nodeVars
    <3> QED
      BY <3>1, <3>2 DEF Log!LogNext
  <2>2. ASSUME NEW r \in Requests, NEW status \in Log!Closed, Finish(r, status),
               pc[r] \in Waiting, status \in Results => outcome[cur[r]] = status
        PROVE Log!LogNext
    <3>1. cur[r] \in Commands /\ row[cur[r]] = "sent"
      BY <2>t, <2>y, <2>2 DEF WrittenIsSettled
    <3>2. Log!Close(cur[r])
      BY <2>2, <3>1 DEF Finish, Log!Close, nodeVars
    <3> QED
      BY <3>1, <3>2 DEF Log!LogNext
  <2>3. ASSUME NEW r \in Requests, GotResult(r) \/ TimedOut(r)
        PROVE Log!LogNext
    <3>1. CASE GotResult(r)
      <4>1. cur[r] \in Commands /\ pc[r] \in Waiting
        BY <2>y, <3>1 DEF GotResult, Waiting
      <4>2. fut[cur[r]] \in Log!Closed /\ outcome[cur[r]] = fut[cur[r]]
        BY <2>t, <3>1, <4>1 DEF GotResult, AnswerIsTheNodes
      <4> QED
        BY <2>2, <3>1, <4>1, <4>2 DEF GotResult
    <3>2. CASE TimedOut(r)
      BY <2>2, <3>2 DEF TimedOut, Waiting
    <3> QED
      BY <2>3, <3>1, <3>2
  <2>4. ASSUME NEW s \in Sockets, Take(s) PROVE Log!LogNext
    <3> DEFINE c == Head(toNode[s])
    <3>1. 1 \in 1..Len(toNode[s]) /\ c = toNode[s][1]
      BY <2>y, <2>4 DEF Take
    <3>2. c \in Commands /\ row[c] # "none" /\ outcome[c] = "none"
      BY <2>t, <2>y, <3>1 DEF FramesUnstarted
    <3>3. Log!Start(c)
      BY <2>4, <3>2 DEF Take, Log!Start, hubVars
    <3> QED
      BY <3>2, <3>3 DEF Log!LogNext
  <2>5. ASSUME NEW s \in Sockets, NEW status \in Results, Ran(s, status)
        PROVE Log!LogNext
    <3>1. busy[s] \in Commands /\ outcome[busy[s]] = "started"
      BY <2>t, <2>y, <2>5 DEF Ran, LoopsStarted
    <3>2. Log!Finish(busy[s])
      BY <2>5, <3>1 DEF Ran, Log!Finish, hubVars
    <3> QED
      BY <3>1, <3>2 DEF Log!LogNext
  <2>6. ASSUME NEW r \in Requests,
               \/ (\E n \in Nodes : IssueOne(r, n) \/ Offline(r, n))
               \/ (\E S \in SUBSET Nodes : IssueMany(r, S))
               \/ Sent(r) \/ SendRaises(r) \/ BatchDone(r) \/ UserDeleted(r)
               \/ TimerFires(r)
        PROVE UNCHANGED Log!logVars
    BY <2>6 DEF IssueOne, Offline, IssueMany, Sent, SendRaises, BatchDone,
                UserDeleted, TimerFires, hubVars, nodeVars, Log!logVars
  <2>7. ASSUME NEW s \in Sockets,
               \/ HubReceives(s) \/ HubStopsServing(s) \/ NodeConnects(s)
               \/ LoopEnds(s) \/ ConnectionStep(s)
        PROVE UNCHANGED Log!logVars
    BY <2>7 DEF HubReceives, HubStopsServing, NodeConnects, LoopEnds,
                ConnectionStep, hubVars, nodeVars, Log!logVars
  <2>8. ASSUME NEW n \in Nodes, NodeRestart(n) PROVE UNCHANGED Log!logVars
    BY <2>8 DEF NodeRestart, hubVars, Log!logVars
  <2>9. CASE HubCrash \/ UNCHANGED vars
    BY <2>9 DEF HubCrash, vars, hubVars, nodeVars, Log!logVars
  <2> QED
    BY <2>1, <2>3, <2>4, <2>5, <2>6, <2>7, <2>8, <2>9
    DEF DispatchNext, RequestStep
<1> QED
  BY <1>1, <1>2, DispatchInvariant, PTL
  DEF DispatchSpec, ImplementsCommandLog, Log!LogSpec

-----------------------------------------------------------------------------
(***************************************************************************)
(* What the refinement brings: promises that CommandLog keeps hold of the  *)
(* hub's table, whatever happens to connections and requests.              *)
(***************************************************************************)
\* A closed row has no handler's word but the one in it, an audit entry is
\* about a closed row, and nothing runs without a row.
RecordInv ==
    /\ row \in [Commands -> Log!Statuses]
    /\ outcome \in [Commands -> Log!Outcomes]
    /\ \A c \in Commands :
          /\ row[c] \in Results => outcome[c] = row[c]
          /\ c \in audit => row[c] \in Log!Closed
          /\ row[c] = "none" => outcome[c] = "none"

\* A closed row never changes, nor does what the node's handler said; and what
\* has an audit entry keeps it.
RecordStays ==
    \A c \in Commands :
        /\ row[c] \in Log!Closed => row'[c] = row[c]
        /\ outcome[c] \in Results => outcome'[c] = outcome[c]
        /\ c \in audit => c \in audit'

LEMMA LogInitRecord == Log!LogInit => RecordInv
  BY LogSets DEF Log!LogInit, RecordInv, Results

LEMMA LogStepRecord ==
    RecordInv /\ [Log!LogNext]_(Log!logVars) => RecordInv' /\ RecordStays
<1> USE LogSets DEF Results, RecordInv, RecordStays
<1> SUFFICES ASSUME RecordInv, [Log!LogNext]_(Log!logVars)
             PROVE  RecordInv' /\ RecordStays
  OBVIOUS
<1>1. ASSUME NEW c \in Commands, Log!Open(c) PROVE RecordInv' /\ RecordStays
  BY <1>1 DEF Log!Open
<1>2. ASSUME NEW c \in Commands, Log!Start(c) PROVE RecordInv' /\ RecordStays
  BY <1>2 DEF Log!Start
<1>3. ASSUME NEW c \in Commands, Log!Finish(c) PROVE RecordInv' /\ RecordStays
  BY <1>3 DEF Log!Finish
<1>4. ASSUME NEW c \in Commands, Log!Close(c) PROVE RecordInv' /\ RecordStays
  BY <1>4 DEF Log!Close
<1>5. CASE UNCHANGED Log!logVars
  BY <1>5 DEF Log!logVars
<1> QED
  BY <1>1, <1>2, <1>3, <1>4, <1>5 DEF Log!LogNext

\* A row closed with an answer says what the handler said, an audit entry is
\* about a closed row, and no handler runs without a row (dispatch_command
\* writes the row first and record_audit last).
THEOREM DispatchRecord == DispatchSpec => []RecordInv
<1>1. Log!LogSpec => []RecordInv
  BY LogInitRecord, LogStepRecord, PTL DEF Log!LogSpec
<1> QED
  BY <1>1, DispatchImplementsLog, PTL DEF ImplementsCommandLog

\* What GET /api/nodes/{node_id}/commands/{command_id} shows of a closed
\* command is final, and so is its audit entry: no late result, retry or
\* restart changes either.
THEOREM DispatchRecordStays == DispatchSpec => [][RecordStays]_(Log!logVars)
<1>1. Log!LogSpec => [][RecordStays]_(Log!logVars)
  BY LogInitRecord, LogStepRecord, PTL DEF Log!LogSpec
<1> QED
  BY <1>1, DispatchImplementsLog, PTL DEF ImplementsCommandLog

-----------------------------------------------------------------------------
(***************************************************************************)
(* How requests end.  The prover has no rule for ENABLED, so what WF needs *)
(* to know of it is a premise, which TLC checks on an instance: a request  *)
(* under way can take its next step.                                       *)
(***************************************************************************)
RequestReady ==
    \A r \in Requests : pc[r] \in Waiting \cup {"next"} =>
        ENABLED <<RequestStep(r)>>_vars

\* What is not a step of r's own coroutine leaves a begun request where it is,
\* or loses it with the hub.
LEMMA OthersLeaveRequest ==
    ASSUME NEW r \in Requests, DispatchTypeOK, [DispatchNext]_vars,
           pc[r] # "idle", ~RequestStep(r)
    PROVE  \/ pc'[r] = pc[r] /\ todo'[r] = todo[r]
           \/ pc'[r] = "lost"
<1> USE DEF DispatchTypeOK
<1>1. ASSUME NEW q \in Requests, NEW n \in Nodes, IssueOne(q, n)
      PROVE  pc'[r] = pc[r] /\ todo'[r] = todo[r]
  BY <1>1 DEF IssueOne
<1>2. ASSUME NEW q \in Requests, NEW S \in SUBSET Nodes, IssueMany(q, S)
      PROVE  pc'[r] = pc[r] /\ todo'[r] = todo[r]
  BY <1>2 DEF IssueMany
<1>3. ASSUME NEW q \in Requests, RequestStep(q)
      PROVE  pc'[r] = pc[r] /\ todo'[r] = todo[r]
  <2>1. q # r
    BY <1>3
  <2>2. ASSUME NEW n \in Nodes, Offline(q, n)
        PROVE  pc'[r] = pc[r] /\ todo'[r] = todo[r]
    BY <2>1, <2>2 DEF Offline
  <2>3. ASSUME NEW n \in Nodes, Dispatch(q, n)
        PROVE  pc'[r] = pc[r] /\ todo'[r] = todo[r]
    BY <2>1, <2>3 DEF Dispatch
  <2>4. CASE Sent(q) \/ SendRaises(q) \/ TimerFires(q) \/ BatchDone(q)
    BY <2>1, <2>4 DEF Sent, SendRaises, TimerFires, BatchDone
  <2>5. CASE GotResult(q)
    BY <2>1, <2>5 DEF GotResult, Finish
  <2>6. CASE TimedOut(q)
    BY <2>1, <2>6 DEF TimedOut, Finish
  <2> QED
    BY <1>3, <2>2, <2>3, <2>4, <2>5, <2>6 DEF RequestStep
<1>4. ASSUME NEW q \in Requests, UserDeleted(q) PROVE UNCHANGED requestVars
  BY <1>4 DEF UserDeleted
<1>5. ASSUME NEW s \in Sockets,
             \/ HubReceives(s) \/ HubStopsServing(s) \/ NodeConnects(s)
             \/ Take(s) \/ LoopEnds(s) \/ ConnectionStep(s)
      PROVE UNCHANGED requestVars
  BY <1>5 DEF HubReceives, HubStopsServing, NodeConnects, Take, LoopEnds,
              ConnectionStep
<1>6. ASSUME NEW s \in Sockets, NEW status \in Results, Ran(s, status)
      PROVE UNCHANGED requestVars
  BY <1>6 DEF Ran
<1>7. ASSUME NEW n \in Nodes, NodeRestart(n) PROVE UNCHANGED requestVars
  BY <1>7 DEF NodeRestart
<1>8. ASSUME HubCrash
      PROVE  \/ pc'[r] = pc[r] /\ todo'[r] = todo[r]
             \/ pc'[r] = "lost"
  BY <1>8 DEF HubCrash
<1>9. ASSUME UNCHANGED vars PROVE UNCHANGED requestVars
  BY <1>9 DEF vars
<1>10. UNCHANGED requestVars => pc'[r] = pc[r] /\ todo'[r] = todo[r]
  BY DEF requestVars
<1> QED
  BY <1>1, <1>2, <1>3, <1>4, <1>5, <1>6, <1>7, <1>8, <1>9, <1>10
  DEF DispatchNext

\* A step of a coroutine takes it forward: to a node less, from the send to
\* the wait, from the wait to its time-out, or out.  Of one that has no batch,
\* every way back leads out.
LEMMA RequestStepsForward ==
    ASSUME NEW r \in Requests, DispatchTypeOK, RequestStep(r)
    PROVE  /\ \/ /\ pc[r] = "next"
                 /\ pc'[r] \in {"next", "sending", "refused", "failed"}
                 /\ \E n \in todo[r] : todo'[r] = todo[r] \ {n}
              \/ pc[r] = "next" /\ pc'[r] = "returned"
              \/ /\ pc[r] = "sending" /\ pc'[r] \in {"waiting", "failed"}
                 /\ todo'[r] = todo[r]
              \/ /\ pc[r] = "waiting"
                 /\ pc'[r] \in {"expired", "next", "returned", "failed"}
                 /\ todo'[r] = todo[r]
              \/ /\ pc[r] = "expired"
                 /\ pc'[r] \in {"next", "returned", "failed"}
                 /\ todo'[r] = todo[r]
           /\ pc'[r] = "next" => r \in Batches
<1> USE DEF DispatchTypeOK
<1>1. ASSUME NEW n \in Nodes, Offline(r, n)
      PROVE  /\ pc[r] = "next" /\ n \in todo[r] /\ todo'[r] = todo[r] \ {n}
             /\ pc'[r] \in {"next", "refused"} /\ (pc'[r] = "next" => r \in Batches)
  BY <1>1 DEF Offline
<1>2. ASSUME NEW n \in Nodes, Dispatch(r, n)
      PROVE  /\ pc[r] = "next" /\ n \in todo[r] /\ todo'[r] = todo[r] \ {n}
             /\ pc'[r] \in {"sending", "failed"}
  BY <1>2 DEF Dispatch
<1>3. ASSUME Sent(r) \/ SendRaises(r)
      PROVE  /\ pc[r] = "sending" /\ todo'[r] = todo[r]
             /\ pc'[r] \in {"waiting", "failed"}
  BY <1>3 DEF Sent, SendRaises
<1>4. ASSUME TimerFires(r)
      PROVE  pc[r] = "waiting" /\ todo'[r] = todo[r] /\ pc'[r] = "expired"
  BY <1>4 DEF TimerFires
<1>5. ASSUME NEW status, Finish(r, status)
      PROVE  /\ todo'[r] = todo[r] /\ pc'[r] \in {"next", "returned", "failed"}
             /\ pc'[r] = "next" => r \in Batches
  BY <1>5 DEF Finish
<1>6. ASSUME GotResult(r)
      PROVE  /\ pc[r] = "waiting" /\ todo'[r] = todo[r]
             /\ pc'[r] \in {"next", "returned", "failed"}
             /\ pc'[r] = "next" => r \in Batches
  BY <1>5, <1>6 DEF GotResult
<1>7. ASSUME TimedOut(r)
      PROVE  /\ pc[r] = "expired" /\ todo'[r] = todo[r]
             /\ pc'[r] \in {"next", "returned", "failed"}
             /\ pc'[r] = "next" => r \in Batches
  BY <1>5, <1>7 DEF TimedOut
<1>8. ASSUME BatchDone(r) PROVE pc[r] = "next" /\ pc'[r] = "returned"
  BY <1>8 DEF BatchDone
<1> QED
  BY <1>1, <1>2, <1>3, <1>4, <1>6, <1>7, <1>8, Zenon DEF RequestStep

\* A batch that has nodes left, or none, ends or comes back with fewer: it is
\* never held up by one of them.  (nodes.py, dispatch_command_to_nodes.)
BatchMovesOn ==
    \A r \in Requests, T \in SUBSET Nodes :
        (pc[r] = "next" /\ todo[r] = T)
            ~> \/ pc[r] \in Ended
               \/ pc[r] = "next" /\ todo[r] \subseteq T /\ todo[r] # T

\* RequestEnds for the requests that send one command.
SingleRequestEnds ==
    \A r \in Requests \ Batches : pc[r] = "next" ~> pc[r] \in Ended

LEMMA BatchMoves ==
    ASSUME NEW r \in Requests, NEW T \in SUBSET Nodes
    PROVE  DispatchSpec /\ []RequestReady
               => ((pc[r] = "next" /\ todo[r] = T)
                      ~> \/ pc[r] \in Ended
                         \/ pc[r] = "next" /\ todo[r] \subseteq T /\ todo[r] # T)
<1> DEFINE Fewer   == todo[r] \subseteq T /\ todo[r] # T
           Chooses == pc[r] = "next" /\ todo[r] = T
           Sends   == pc[r] = "sending" /\ Fewer
           Awaits  == pc[r] = "waiting" /\ Fewer
           Expires == pc[r] = "expired" /\ Fewer
           Done    == pc[r] \in Ended \/ (pc[r] = "next" /\ Fewer)
<1>1. DispatchTypeOK /\ [DispatchNext]_vars /\ ~RequestStep(r)
        => /\ Chooses => Chooses' \/ Done'
           /\ Sends => Sends' \/ Done'
           /\ Awaits => Awaits' \/ Done'
           /\ Expires => Expires' \/ Done'
  <2> SUFFICES ASSUME DispatchTypeOK, [DispatchNext]_vars, ~RequestStep(r),
                      pc[r] # "idle"
               PROVE  \/ pc'[r] = pc[r] /\ todo'[r] = todo[r]
                      \/ pc'[r] \in Ended
    BY DEF Ended
  <2> QED
    BY OthersLeaveRequest DEF Ended
<1>2. DispatchTypeOK /\ RequestStep(r)
        => /\ Chooses => Sends' \/ Done'
           /\ Sends => Awaits' \/ Done'
           /\ Awaits => Expires' \/ Done'
           /\ Expires => Done'
  <2> SUFFICES ASSUME DispatchTypeOK, RequestStep(r)
               PROVE  /\ Chooses => Sends' \/ Done'
                      /\ Sends => Awaits' \/ Done'
                      /\ Awaits => Expires' \/ Done'
                      /\ Expires => Done'
    OBVIOUS
  <2>1. Chooses => Sends' \/ Done'
    BY RequestStepsForward DEF Ended
  <2>2. Sends => Awaits' \/ Done'
    BY RequestStepsForward DEF Ended
  <2>3. Awaits => Expires' \/ Done'
    BY RequestStepsForward DEF Ended
  <2>4. Expires => Done'
    BY RequestStepsForward DEF Ended
  <2> QED
    BY <2>1, <2>2, <2>3, <2>4
<1>3. RequestReady => (Chooses \/ Sends \/ Awaits \/ Expires
                           => ENABLED <<RequestStep(r)>>_vars)
  BY DEF RequestReady, Waiting
<1>4. DispatchFairness => FairRequest(r)
  BY DEF DispatchFairness
<1>5. /\ Chooses <=> pc[r] = "next" /\ todo[r] = T
      /\ Done <=> \/ pc[r] \in Ended
                  \/ pc[r] = "next" /\ todo[r] \subseteq T /\ todo[r] # T
  OBVIOUS
<1> HIDE DEF Fewer, Chooses, Sends, Awaits, Expires, Done
<1>6. DispatchSpec /\ []RequestReady => (Chooses ~> Done)
  BY <1>1, <1>2, <1>3, <1>4, DispatchTypeCorrect, PTL
  DEF DispatchSpec, FairRequest
<1> QED
  BY <1>5, <1>6, PTL

\* A batch never gets stuck at a node, whatever the nodes and the network do.
THEOREM DispatchBatchMovesOn ==
    DispatchSpec /\ []RequestReady => BatchMovesOn
  BY BatchMoves DEF BatchMovesOn

LEMMA SingleEnds ==
    ASSUME NEW r \in Requests \ Batches
    PROVE  DispatchSpec /\ []RequestReady => (pc[r] = "next" ~> pc[r] \in Ended)
<1> DEFINE Chooses == pc[r] = "next"
           Sends   == pc[r] = "sending"
           Awaits  == pc[r] = "waiting"
           Expires == pc[r] = "expired"
           Done    == pc[r] \in Ended
<1>1. DispatchTypeOK /\ [DispatchNext]_vars /\ ~RequestStep(r)
        => /\ Chooses => Chooses' \/ Done'
           /\ Sends => Sends' \/ Done'
           /\ Awaits => Awaits' \/ Done'
           /\ Expires => Expires' \/ Done'
  BY OthersLeaveRequest DEF Ended
<1>2. DispatchTypeOK /\ RequestStep(r)
        => /\ Chooses => Sends' \/ Done'
           /\ Sends => Awaits' \/ Done'
           /\ Awaits => Expires' \/ Done'
           /\ Expires => Done'
  BY RequestStepsForward DEF Ended
<1>3. RequestReady => (Chooses \/ Sends \/ Awaits \/ Expires
                           => ENABLED <<RequestStep(r)>>_vars)
  BY DEF RequestReady, Waiting
<1>4. DispatchFairness => FairRequest(r)
  BY DEF DispatchFairness
<1>5. (Chooses <=> pc[r] = "next") /\ (Done <=> pc[r] \in Ended)
  OBVIOUS
<1> HIDE DEF Chooses, Sends, Awaits, Expires, Done
<1>6. DispatchSpec /\ []RequestReady => (Chooses ~> Done)
  BY <1>1, <1>2, <1>3, <1>4, DispatchTypeCorrect, PTL
  DEF DispatchSpec, FairRequest
<1> QED
  BY <1>5, <1>6, PTL

\* A request for one node ends, whatever the node and the network do.
THEOREM DispatchSingleEnds ==
    DispatchSpec /\ []RequestReady => SingleRequestEnds
  BY SingleEnds DEF SingleRequestEnds
=============================================================================
