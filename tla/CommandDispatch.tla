--------------------------- MODULE CommandDispatch ---------------------------
(***************************************************************************)
(* Commands from the REST layer to the nodes and back: dispatch_command    *)
(* and its two callers (one node; tolerant fan-out over a group), the      *)
(* pending futures, the frames on each socket, the node's _command_loop    *)
(* and the database rows.  Extends Connections, whose actions move here    *)
(* together with the frames and loops they affect.                         *)
(*                                                                         *)
(* A command is <<request, node>>: a request sends a node one command.     *)
(***************************************************************************)
EXTENDS Connections, Sequences

CONSTANTS
    Requests,   \* HTTP requests that issue commands
    Batches,    \* those that go through dispatch_command_to_nodes
    Scheduled,  \* nodes with a stored schedule (greeted on connect)
    NoCommand,  \* "no command"
    Faults      \* bound: which of the failures below an instance includes

Commands == Requests \X Nodes

ASSUME BatchesAssumption == Batches \subseteq Requests
ASSUME ScheduledAssumption == Scheduled \subseteq Nodes
ASSUME NoCommandAssumption == NoCommand \notin Commands
ASSUME FaultsAssumption ==
    Faults \subseteq {"sever", "node restart", "hub crash", "user deleted"}

VARIABLES
    pc,         \* where each request's coroutine is
    todo,       \* nodes the request has not come to yet
    cur,        \* the command the request is waiting for
    via,        \* the socket send_text is writing that command to
    pending,    \* keys of ConnectionRegistry._pending
    fut,        \* the future of each command
    row,        \* commands table: status column
    audit,      \* commands with an audit_log entry
    orphaned,   \* requests whose user has been deleted
    toNode,     \* command frames written to a socket, not yet read
    toHub,      \* result frames written to a socket, not yet read
    loops,      \* sockets with a live _command_loop
    busy,       \* the command each loop has in asyncio.to_thread
    outcome     \* what the node's handler did with each command

requestVars == <<pc, todo, cur, via>>
hubVars     == <<pending, fut, row, audit, orphaned>>
nodeVars    == <<loops, busy, outcome>>
frameVars   == <<toNode, toHub>>
vars == <<connVars, requestVars, hubVars, frameVars, nodeVars>>

Log == INSTANCE CommandLog

Waiting == {"sending", "waiting", "expired"}
\* "failed": HTTP 500; "lost": the hub stopped under it; "refused": HTTP 409.
Ended == {"returned", "refused", "failed", "lost"}
Results == Log!Results

DispatchTypeOK ==
    /\ ConnTypeOK
    /\ pc \in [Requests -> Waiting \cup Ended \cup {"idle", "next"}]
    /\ todo \in [Requests -> SUBSET Nodes]
    /\ cur \in [Requests -> Commands \cup {NoCommand}]
    /\ \A r \in Requests : pc[r] \in Waiting => cur[r] \in {r} \X Nodes
    /\ via \in [Requests -> Sockets \cup {NoSocket}]
    /\ pending \subseteq Commands
    /\ fut \in [Commands -> Results \cup {"none", "open", "cancelled"}]
    /\ row \in [Commands -> Log!Statuses]
    /\ audit \subseteq Commands
    /\ orphaned \subseteq Requests
    /\ toNode \in [Sockets -> Seq(Commands)]
    /\ toHub \in [Sockets -> Seq(Commands \X Results)]
    /\ loops \subseteq Sockets
    /\ busy \in [Sockets -> Commands \cup {NoCommand}]
    /\ outcome \in [Commands -> Log!Outcomes]

DispatchInit ==
    /\ ConnInit
    /\ pc = [r \in Requests |-> "idle"]
    /\ todo = [r \in Requests |-> {}]
    /\ cur = [r \in Requests |-> NoCommand]
    /\ via = [r \in Requests |-> NoSocket]
    /\ pending = {}
    /\ fut = [c \in Commands |-> "none"]
    /\ row = [c \in Commands |-> "none"]
    /\ audit = {}
    /\ orphaned = {}
    /\ toNode = [s \in Sockets |-> <<>>]
    /\ toHub = [s \in Sockets |-> <<>>]
    /\ loops = {}
    /\ busy = [s \in Sockets |-> NoCommand]
    /\ outcome = [c \in Commands |-> "none"]

-----------------------------------------------------------------------------
(***************************************************************************)
(* One plausible slip each, to show that the properties below would notice *)
(* it; no action of DispatchNext uses them.                                *)
(***************************************************************************)
\* A send that fails is retried on the node's new connection.
MutSendRaisesRetries(r) ==
    LET s == registry[cur[r][2]]
    IN  /\ pc[r] = "sending"
        /\ via[r] \notin hubOpen
        /\ Carries(s)
        /\ toNode' = [toNode EXCEPT ![s] = Append(@, cur[r])]
        /\ via' = [via EXCEPT ![r] = s]
        /\ UNCHANGED <<connVars, pc, todo, cur, hubVars, toHub, nodeVars>>

\* The timeout counts only while the node is online.
MutTimerFiresIfOnline(r) ==
    /\ pc[r] = "waiting"
    /\ IsOnline(cur[r][2])
    /\ pc' = [pc EXCEPT ![r] = "expired"]
    /\ fut' = [fut EXCEPT ![cur[r]] = IF @ = "open" THEN "cancelled" ELSE @]
    /\ UNCHANGED <<connVars, todo, cur, via, pending, row, audit,
                   orphaned, frameVars, nodeVars>>

\* Only answered commands are audited.
MutFinishAuditsAnswers(r, status) ==
    /\ row' = [row EXCEPT ![cur[r]] = status]
    /\ fut' = [fut EXCEPT ![cur[r]] = "none"]
    /\ audit' = IF r \in orphaned \/ status = "timeout" THEN audit
                                                       ELSE audit \cup {cur[r]}
    /\ pc' = [pc EXCEPT ![r] = IF r \in orphaned THEN "failed"
                               ELSE IF r \in Batches THEN "next"
                               ELSE "returned"]
    /\ UNCHANGED <<connVars, todo, cur, via, orphaned, frameVars,
                   nodeVars>>

(***************************************************************************)
(* The request coroutines.                                                 *)
(***************************************************************************)
IssueOne(r, n) ==
    /\ r \notin Batches
    /\ pc[r] = "idle"
    /\ pc' = [pc EXCEPT ![r] = "next"]
    /\ todo' = [todo EXCEPT ![r] = {n}]
    /\ UNCHANGED <<connVars, cur, via, hubVars, frameVars, nodeVars>>

\* All nodes, or those of a group, as the query finds them.
IssueMany(r, S) ==
    /\ r \in Batches
    /\ pc[r] = "idle"
    /\ pc' = [pc EXCEPT ![r] = "next"]
    /\ todo' = [todo EXCEPT ![r] = S]
    /\ UNCHANGED <<connVars, cur, via, hubVars, frameVars, nodeVars>>

\* The node is offline: 409 for a single command, "skipped" in a batch.
Offline(r, n) ==
    /\ pc[r] = "next"
    /\ n \in todo[r]
    /\ ~IsOnline(n)
    /\ todo' = [todo EXCEPT ![r] = @ \ {n}]
    /\ pc' = [pc EXCEPT ![r] = IF r \in Batches THEN "next" ELSE "refused"]
    /\ UNCHANGED <<connVars, cur, via, hubVars, frameVars, nodeVars>>

\* The online check, the row, the future and the write of the frame are one
\* step: the first await that can suspend is inside send_text.  (So send_frame
\* never finds the registry entry gone: its "return False", and the "error"
\* row dispatch_command would then write, cannot be reached.)
Dispatch(r, n) ==
    LET c == <<r, n>>
        s == registry[n]
    IN  /\ pc[r] = "next"
        /\ n \in todo[r]
        /\ IsOnline(n)
        /\ row' = [row EXCEPT ![c] = "sent"]
        /\ pending' = pending \cup {c}
        /\ fut' = [fut EXCEPT ![c] = "open"]
        /\ todo' = [todo EXCEPT ![r] = @ \ {n}]
        /\ cur' = [cur EXCEPT ![r] = c]
        /\ via' = [via EXCEPT ![r] = IF s \in hubOpen THEN s ELSE NoSocket]
        \* send_text raises on a socket known to be closed.
        /\ pc' = [pc EXCEPT ![r] = IF s \in hubOpen THEN "sending"
                                                    ELSE "failed"]
        /\ toNode' = IF Carries(s)
                     THEN [toNode EXCEPT ![s] = Append(@, c)]
                     ELSE toNode
        /\ UNCHANGED <<connVars, audit, orphaned, toHub, nodeVars>>

\* send_text returns once the write buffer drains, and wait_for starts.
Sent(r) ==
    /\ pc[r] = "sending"
    /\ pc' = [pc EXCEPT ![r] = "waiting"]
    /\ via' = [via EXCEPT ![r] = NoSocket]
    /\ UNCHANGED <<connVars, todo, cur, hubVars, frameVars,
                   nodeVars>>

\* ... or raises, if the socket closes while it waits to drain.
SendRaises(r) ==
    /\ pc[r] = "sending"
    /\ via[r] \notin hubOpen
    /\ pc' = [pc EXCEPT ![r] = "failed"]
    /\ via' = [via EXCEPT ![r] = NoSocket]
    /\ UNCHANGED <<connVars, todo, cur, hubVars, frameVars,
                   nodeVars>>

\* wait_for's 15 s are over: it cancels the future it waits on, which does
\* nothing to one that already has its result.  The timeout stands either way.
TimerFires(r) ==
    /\ pc[r] = "waiting"
    /\ pc' = [pc EXCEPT ![r] = "expired"]
    /\ fut' = [fut EXCEPT ![cur[r]] = IF @ = "open" THEN "cancelled" ELSE @]
    /\ UNCHANGED <<connVars, todo, cur, via, pending, row, audit,
                   orphaned, frameVars, nodeVars>>

\* The rest of dispatch_command, with no await: close the row, commit, audit.
\* record_audit reads the user, expired by the commit, and raises if the
\* account has been deleted meanwhile.
Finish(r, status) ==
    /\ row' = [row EXCEPT ![cur[r]] = status]
    /\ fut' = [fut EXCEPT ![cur[r]] = "none"]
    /\ audit' = IF r \in orphaned THEN audit ELSE audit \cup {cur[r]}
    /\ pc' = [pc EXCEPT ![r] = IF r \in orphaned THEN "failed"
                               ELSE IF r \in Batches THEN "next"
                               ELSE "returned"]
    /\ UNCHANGED <<connVars, todo, cur, via, orphaned, frameVars,
                   nodeVars>>

GotResult(r) ==
    /\ pc[r] = "waiting"
    /\ fut[cur[r]] \in Results
    /\ Finish(r, fut[cur[r]])
    /\ UNCHANGED pending

\* Slip: the timeout leaves the command pending.
MutTimedOutKeepsPending(r) ==
    /\ pc[r] = "expired"
    /\ Finish(r, "timeout")
    /\ UNCHANGED pending

TimedOut(r) ==
    /\ pc[r] = "expired"
    /\ pending' = pending \ {cur[r]}
    /\ Finish(r, "timeout")

BatchDone(r) ==
    /\ pc[r] = "next"
    /\ todo[r] = {}
    /\ pc' = [pc EXCEPT ![r] = "returned"]
    /\ UNCHANGED <<connVars, todo, cur, via, hubVars, frameVars,
                   nodeVars>>

\* users.py delete_user, in a worker thread at any time (before the request
\* begins or after it ends it changes nothing here).
UserDeleted(r) ==
    /\ "user deleted" \in Faults
    /\ pc[r] \in Waiting \cup {"next"}
    /\ r \notin orphaned
    /\ orphaned' = orphaned \cup {r}
    /\ UNCHANGED <<connVars, requestVars, pending, fut, row, audit,
                   frameVars, nodeVars>>

-----------------------------------------------------------------------------
(***************************************************************************)
(* The hub's receive loop: a result frame resolves its pending future.     *)
(* Frames still buffered when the socket closes may or may not be read.    *)
(***************************************************************************)
\* Slip: no check that the future is still open.
MutResolveUnchecked(c, status) ==
    /\ pending' = pending \ {c}
    /\ fut' = IF c \in pending THEN [fut EXCEPT ![c] = status] ELSE fut

ResolvePending(c, status) ==
    /\ pending' = pending \ {c}
    /\ fut' = IF c \in pending /\ fut[c] = "open"
              THEN [fut EXCEPT ![c] = status]
              ELSE fut

\* Slip: an answer goes to whichever command is pending.
MutReceiveAnyPending(s) ==
    /\ handler[s] = "serving"
    /\ toHub[s] # <<>>
    /\ toHub' = [toHub EXCEPT ![s] = Tail(@)]
    /\ \E c \in pending : ResolvePending(c, Head(toHub[s])[2])
    /\ UNCHANGED <<connVars, requestVars, row, audit, orphaned, toNode,
                   nodeVars>>

\* Slip: the receive loop writes the row as well.
MutReceiveWritesRow(s) ==
    /\ handler[s] = "serving"
    /\ toHub[s] # <<>>
    /\ toHub' = [toHub EXCEPT ![s] = Tail(@)]
    /\ ResolvePending(Head(toHub[s])[1], Head(toHub[s])[2])
    /\ row' = [row EXCEPT ![Head(toHub[s])[1]] = Head(toHub[s])[2]]
    /\ UNCHANGED <<connVars, requestVars, audit, orphaned, toNode, nodeVars>>

HubReceives(s) ==
    /\ handler[s] = "serving"
    /\ toHub[s] # <<>>
    /\ toHub' = [toHub EXCEPT ![s] = Tail(@)]
    /\ ResolvePending(Head(toHub[s])[1], Head(toHub[s])[2])
    /\ UNCHANGED <<connVars, requestVars, row, audit, orphaned, toNode,
                   nodeVars>>

HubStopsServing(s) ==
    /\ ServeEnds(s)
    /\ toHub' = [toHub EXCEPT ![s] = <<>>]
    /\ UNCHANGED <<requestVars, hubVars, toNode, nodeVars>>

\* Everything in memory goes; rows and audit entries stay.
HubCrash ==
    /\ "hub crash" \in Faults
    /\ HubRestart
    /\ pc' = [r \in Requests |->
                 IF pc[r] \in Waiting \cup {"next"} THEN "lost" ELSE pc[r]]
    /\ pending' = {}
    /\ fut' = [c \in Commands |-> "none"]
    /\ toHub' = [s \in Sockets |-> <<>>]
    /\ UNCHANGED <<todo, cur, via, row, audit, orphaned, toNode,
                   nodeVars>>

-----------------------------------------------------------------------------
(***************************************************************************)
(* The node.  gather() does not cancel the other loop when one of the two  *)
(* raises, so a socket's command loop can outlive the socket: it finishes  *)
(* the command in its thread, or takes a frame already received, while the *)
(* next connection has a loop of its own.                                  *)
(***************************************************************************)
NodeConnects(s) ==
    /\ Connect(s)
    /\ loops' = loops \cup {s}
    /\ UNCHANGED <<requestVars, hubVars, frameVars, busy, outcome>>

Take(s) ==
    /\ s \in loops
    /\ busy[s] = NoCommand
    /\ toNode[s] # <<>>
    /\ toNode' = [toNode EXCEPT ![s] = Tail(@)]
    /\ busy' = [busy EXCEPT ![s] = Head(toNode[s])]
    /\ outcome' = [outcome EXCEPT ![Head(toNode[s])] = "started"]
    /\ UNCHANGED <<connVars, requestVars, hubVars, toHub, loops>>

\* Slip: the fields of the result frame swapped.
MutRanSwapped(s, status) ==
    /\ s \in loops
    /\ busy[s] # NoCommand
    /\ outcome' = [outcome EXCEPT ![busy[s]] = status]
    /\ busy' = [busy EXCEPT ![s] = NoCommand]
    /\ toHub' = [toHub EXCEPT ![s] = Append(@, <<status, busy[s]>>)]
    /\ UNCHANGED <<connVars, requestVars, hubVars, loops, toNode>>

\* The handler returns or raises; the result goes out on the loop's own
\* socket, whose send raises and ends the loop if the node knows it closed.
Ran(s, status) ==
    /\ s \in loops
    /\ busy[s] # NoCommand
    /\ outcome' = [outcome EXCEPT ![busy[s]] = status]
    /\ busy' = [busy EXCEPT ![s] = NoCommand]
    /\ loops' = IF s \in nodeOpen THEN loops ELSE loops \ {s}
    /\ toHub' = IF Carries(s)
                THEN [toHub EXCEPT ![s] = Append(@, <<busy[s], status>>)]
                ELSE toHub
    /\ toNode' = IF s \in nodeOpen THEN toNode
                                   ELSE [toNode EXCEPT ![s] = <<>>]
    /\ UNCHANGED <<connVars, requestVars, hubVars>>

\* "async for raw in ws" ends; frames that never arrived are lost.
LoopEnds(s) ==
    /\ s \in loops
    /\ busy[s] = NoCommand
    /\ s \notin nodeOpen
    /\ loops' = loops \ {s}
    /\ toNode' = [toNode EXCEPT ![s] = <<>>]
    /\ UNCHANGED <<connVars, requestVars, hubVars, toHub, busy, outcome>>

\* The node process stops: its connection and every loop of it.
NodeRestart(n) ==
    LET mine == {s \in Sockets : Owner[s] = n}
    IN  /\ "node restart" \in Faults
        /\ loops \cap mine # {}
        /\ IF current[n] \in nodeOpen THEN NodeLeaves(current[n])
                                      ELSE UNCHANGED connVars
        /\ loops' = loops \ mine
        /\ busy' = [s \in Sockets |-> IF s \in mine THEN NoCommand
                                                    ELSE busy[s]]
        /\ toNode' = [s \in Sockets |-> IF s \in mine THEN <<>>
                                                      ELSE toNode[s]]
        /\ UNCHANGED <<requestVars, hubVars, toHub, outcome>>

-----------------------------------------------------------------------------
\* Steps of Connections that touch no frame, loop or request.
ConnectionStep(s) ==
    /\ \/ NodeLeaves(s)
       \/ NodeNotices(s)
       \/ Register(s)
       \/ Greet(s, Owner[s] \in Scheduled)
       \/ HubNotices(s)
       \/ "sever" \in Faults /\ Sever(s)
    /\ UNCHANGED <<requestVars, hubVars, frameVars, nodeVars>>

RequestStep(r) ==
    \/ \E n \in Nodes : Offline(r, n) \/ Dispatch(r, n)
    \/ Sent(r)
    \/ SendRaises(r)
    \/ TimerFires(r)
    \/ GotResult(r)
    \/ TimedOut(r)
    \/ BatchDone(r)

DispatchNext ==
    \/ \E r \in Requests :
          \/ \E n \in Nodes : IssueOne(r, n)
          \/ \E S \in SUBSET Nodes : IssueMany(r, S)
          \/ RequestStep(r)
          \/ UserDeleted(r)
    \/ \E s \in Sockets :
          \/ HubReceives(s)
          \/ HubStopsServing(s)
          \/ NodeConnects(s)
          \/ Take(s)
          \/ \E status \in Results : Ran(s, status)
          \/ LoopEnds(s)
          \/ ConnectionStep(s)
    \/ \E n \in Nodes : NodeRestart(n)
    \/ HubCrash

(***************************************************************************)
(* Fairness: the event loop runs a ready coroutine, a timer fires, and the *)
(* protocol layers find a dead peer.  The node owes nothing: it may never  *)
(* take a command, finish it or come back.                                 *)
(***************************************************************************)
FairRequest(r) == WF_vars(RequestStep(r))
FairReader(s) == WF_vars(HubReceives(s) \/ HubStopsServing(s))

DispatchFairness ==
    /\ \A r \in Requests : FairRequest(r)
    /\ \A s \in Sockets : FairReader(s)

DispatchSpec == DispatchInit /\ [][DispatchNext]_vars /\ DispatchFairness

-----------------------------------------------------------------------------
(***************************************************************************)
(* Properties.                                                             *)
(***************************************************************************)
\* The command r is waiting for: a row "sent" with a coroutine to close it.
InFlight(c) == pc[c[1]] \in Waiting /\ cur[c[1]] = c

\* Every pending future has a coroutine that will drop it, and every row left
\* "sent" one that will close it, unless that request failed in send_text or
\* was lost with the hub.
NothingForgotten ==
    \A c \in Commands :
        /\ c \in pending => InFlight(c) \/ pc[c[1]] = "failed"
        /\ row[c] = "sent" => InFlight(c) \/ pc[c[1]] \in {"failed", "lost"}

\* A request that answered normally left every command it sent closed and
\* audited, and one refused with 409 wrote nothing.
AnsweredIsRecorded ==
    \A r \in Requests, n \in Nodes :
        LET c == <<r, n>>
        IN  /\ pc[r] \in {"next", "returned"} /\ row[c] # "none"
                   => row[c] \in Log!Closed /\ c \in audit
            /\ pc[r] = "refused" => row[c] = "none"

\* Wherever it is on its way back, an answer is the one the node's handler
\* gave: in a frame, in a future, in the row.  Reconnects, late answers and
\* overlapping command loops never attach it to another command.
AnswerIsTheNodes ==
    /\ \A s \in Sockets : \A i \in 1..Len(toHub[s]) :
          outcome[toHub[s][i][1]] = toHub[s][i][2]
    /\ \A c \in Commands : fut[c] \in Results => fut[c] = outcome[c]
    /\ \A c \in Commands : row[c] \in Results => row[c] = outcome[c]

\* Each command is in at most one place on the node's side: still in a frame
\* (and never started) or in one loop's thread.  So no command runs twice,
\* though two loops of one node may run at once.
FramesUnstarted ==
    \A s \in Sockets : \A i \in 1..Len(toNode[s]) :
        row[toNode[s][i]] # "none" /\ outcome[toNode[s][i]] = "none"

FramesDistinct ==
    \A s, t \in Sockets : \A i \in 1..Len(toNode[s]), j \in 1..Len(toNode[t]) :
        toNode[s][i] = toNode[t][j] => s = t /\ i = j

LoopsStarted ==
    \A s \in Sockets : busy[s] # NoCommand =>
        row[busy[s]] # "none" /\ outcome[busy[s]] = "started"

LoopsDistinct ==
    \A s, t \in Sockets : busy[s] = busy[t] /\ busy[s] # NoCommand => s = t

CommandInOnePlace ==
    FramesUnstarted /\ FramesDistinct /\ LoopsStarted /\ LoopsDistinct

(***************************************************************************)
(* What keeps the four invariants above true: the inductive invariant      *)
(* proved in CommandDispatch_proofs.                                       *)
(***************************************************************************)
\* Rows a request has not come to are unwritten.
UnsentHasNoRow ==
    \A r \in Requests, n \in Nodes :
        pc[r] \in {"idle", "refused"} \/ n \in todo[r]
        \/ (r \notin Batches /\ pc[r] = "next")
            => row[<<r, n>>] = "none"

\* A command without a row has nothing else either.
NoRowNothing ==
    \A c \in Commands :
        row[c] = "none" => outcome[c] = "none" /\ fut[c] = "none"

\* A request that is still going, or has answered, has closed and audited
\* every row it wrote but the one it is waiting on, which is "sent".
WrittenIsSettled ==
    \A r \in Requests :
        /\ pc[r] \in Waiting => row[cur[r]] = "sent"
        /\ pc[r] \in Waiting \cup {"next", "returned"} =>
              \A n \in Nodes :
                 \/ row[<<r, n>>] = "none"
                 \/ row[<<r, n>>] \in Log!Closed /\ <<r, n>> \in audit
                 \/ pc[r] \in Waiting /\ cur[r] = <<r, n>>

\* A pending command's future has no result yet.
PendingHasNoResult == \A c \in pending : fut[c] \notin Results

DispatchInv ==
    /\ DispatchTypeOK
    /\ NothingForgotten
    /\ AnsweredIsRecorded
    /\ AnswerIsTheNodes
    /\ CommandInOnePlace
    /\ UnsentHasNoRow
    /\ NoRowNothing
    /\ WrittenIsSettled
    /\ PendingHasNoResult

\* A future gets a result or is cancelled once; setting it again raises in
\* asyncio, and would take the node's receive loop down.  (It disappears when
\* its request is done with it or the hub restarts.)
FutureSettledOnce ==
    [][\A c \in Commands :
          fut[c] \in Results \cup {"cancelled"}
              => fut'[c] \in {fut[c], "none"}]_vars

\* The hub's record of every command follows CommandLog.
ImplementsCommandLog == Log!LogSpec

\* Commands leave the registry and the connections to Connections.
ImplementsConnections == ConnInit /\ [][ConnNext]_connVars

\* A request that has begun ends, whatever the nodes and the network do.
RequestEnds ==
    \A r \in Requests : pc[r] = "next" ~> pc[r] \in Ended

\* dispatch_command_to_nodes, nodes.py:191: "Tolerant fan-out over several
\* nodes at once: an offline node is reported `skipped` rather than aborting
\* the whole batch".  So a batch fails for no reason of a node's.
BatchIsTolerant ==
    \A r \in Batches : pc[r] = "failed" => r \in orphaned

=============================================================================
