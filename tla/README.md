# GridKeeper: verification project

GridKeeper manages a school's or lab's machines that donate cycles to BOINC and
Folding@home. A *hub* (FastAPI, SQLite, one asyncio event loop) holds the
accounts, the database and one WebSocket per connected *node*; a node daemon on
each machine runs the hub's commands against its backends and enforces the
schedule policy the hub sends it. This directory holds TLA+ models of the parts
of that system whose correctness depends on order, overlap and failure, the TLC
configurations that check them, and TLAPS proofs of their safety properties and
of part of their liveness. `PROJECT.json` maps every definition to the lines it models.

To check a run: `tlc -config <cfg> <MC module>`; to check the proofs:
`tlapm <module>_proofs.tla`.

## 1. Inventory

| Component | State it keeps | Operations | Interacts with |
|---|---|---|---|
| Connection registry (`hub/app/connections.py`) | node -> socket; pending futures | connect, disconnect, is_online, send_frame, register/resolve/drop_pending | node_ws, dispatch, schedule pushes |
| `node_ws` (`hub/app/main.py`) | one coroutine per socket | accept, token check, register, greeting, receive loop, finally | registry, database, metrics store, capabilities |
| Command dispatch (`hub/app/api/nodes.py`, `audit.py`) | `commands` rows, `audit_log` | dispatch_command, single command, tolerant fan-out | registry, node command loop |
| Schedule distribution (`hub/app/api/schedule.py`) | `nodes.schedule_json` | PUT one node, apply-group, apply-all, greeting | registry, node |
| Node daemon (`node/grid_node/daemon.py`) | current socket, loops, PolicyHolder | reconnect with backoff, command loop, status loop, schedule loop | hub, backends |
| Schedule enforcement (`node/grid_node/schedule.py`, `backends/fah.py`) | policy, wake-up event, last mode | should_run, wait_for_change, pause/unpause | FAHClient, logind, clock |
| BOINC backend (`backends/boinc.py`) | BOINC's own preferences and projects | apply_schedule, attach/suspend/resume by subprocess | BOINC |
| Token enrollment (`api/pairing.py`, `enrollment.py`, `__main__.py`, `config.py`) | `pairing_tokens`, node's config file | mint, redeem, save | database, node |
| LAN discovery and pairing (`api/discovery.py`, `discovery.py`, `node/.../pairing.py`) | mDNS registry, one PairingSession per unpaired node | verify code, complete, regenerate, batch | database, node |
| Accounts, sessions, scopes (`auth.py`, `api/auth.py`, `api/users.py`) | `users`, `sessions` | login, create, change role, delete, access checks | every endpoint |
| Saved credentials (`api/credentials.py`, `crypto.py`) | `credentials` rows | create, delete, apply to node/group/all | dispatch |
| Capability registry (`api/backends.py`) | `backend_capabilities` | upsert on status frame | node_ws, credentials |
| Metrics window (`metrics_store.py`) | bounded deque per node | record, history | node_ws, API worker threads |
| Schema and migration (`db.py`) | SQLite schema | create, migrate | hub start |
| Plugins (`grid-node-gimps`, `grid-node-watch`) | pid file, process table | start, stop, status | command loop |
| Local page, schemas, dashboard | nothing others depend on | | |

### What is hard here

* **Overlapping connections.** A node that reconnects has two `node_ws`
  coroutines at the hub until the old socket's end is noticed, and on the node
  `asyncio.gather` does not cancel the command loop when the status loop raises:
  two command loops may run at once.
* **State read before an await, used after it.** Timers race answers, pushes
  race other requests, accounts are deleted under running requests.
* **Failure in the middle.** `send_text` raises on a socket that is closed but
  still registered; the hub or a node stops between two steps; FAHClient or
  boinccmd does not answer.
* **Half-open links.** A dead peer is noticed by pings only.
* **Two engines for one rule.** BOINC gets a policy as preferences, Folding@home
  is paused by a loop. They may differ in what counts as idle, as
  `REQUIREMENTS.md` section 7 says, and in nothing else.
* **Worker threads.** Synchronous endpoints (enrollment, accounts) run in
  threads with SQLite sessions of their own; backends run in the node's threads.

### What makes each component correct

* *Registry:* the connection being served is the one commands go to; a stale
  connection's end never removes a live one; every entry has somebody to remove
  it.
* *Dispatch:* a command runs at most once, its row is opened before and closed
  at most once, with the node's own answer or a time-out; no future or row is
  left without the coroutine that settles it; every request ends.
* *Schedule distribution:* a connected node has been told the policy stored for
  it; nodes converge to it; a node's two engines have one policy.
* *Schedule enforcement:* no change is missed; FAHClient does what the rule says
  once the rule holds still; BOINC's preferences mean the same rule but for the
  test of idleness; hours are the window the bounds say.
* *Enrollment and pairing:* one node per token; only the code on the screen
  opens a session; an enrollment answered plainly is known at both ends or at
  neither; the hub's list shows sessions that are there.
* *Accounts:* an admin remains; a user sees exactly the nodes the user may open;
  every change has its audit entry.
* *Credentials:* a secret never lands in the commands table; an upgrade keeps
  the credentials saved before it.
* *Plugins:* a program or project is started once; stop signals no other
  process; a program's end is noticed.

## 2. The modules

| Module | Models | Extends / uses |
|---|---|---|
| `Connections` | registry, `node_ws` life cycle, the node's reconnects, the link | |
| `CommandLog` | the abstract promise of command dispatch | |
| `CommandDispatch` | dispatch_command and its callers, futures, rows, frames, the node's command loop | `Connections`, refines `CommandLog` |
| `ScheduleSync` | stored policies, pushes, greeting, the node's holder and BOINC's copy | `Connections` |
| `ScheduleEnforcement` | PolicyHolder, `_fah_schedule_loop`, should_run, apply_schedule's conversion | |
| `Handover` | the abstract promise of enrolling a machine | |
| `Enrollment` | pairing tokens, POST /api/enroll, `grid-node enroll`, config.toml | |
| `LanPairing` | pairing sessions, `_pair_one`, the mDNS registry | `Enrollment`, refines `Handover` |
| `Accounts` | users, roles, scopes, groups, the first admin | |
| `Credentials` | saved credentials, the audit entry, the capability registry, redaction, the migration | `Accounts` |
| `ProcessControl` | GIMPS and process-watch start and stop, BOINC's attach | |
| `*_proofs` | the TLAPS proofs | their module |
| `MC*` | constants for TLC | their module |

**Actions and awaits.** The hub and the node are each one asyncio event loop, so
an action is what one coroutine does between two awaits that can suspend. An
`async def` called without a suspension inside (the registry's lock is never
contended) is part of its caller's action. Threads (`asyncio.to_thread`) are two
actions: the call starts, the call ends. The network, the protocol layers of
uvicorn and websockets, FAHClient, BOINC, logind and the clock are environment
actions.

**Connections.** A socket is used once; `Owner[s]` is the node that opens it.
`handler[s]` is the program counter of its `node_ws` coroutine, `hubOpen` and
`nodeOpen` what the two protocol layers believe, `severed` the links that carry
nothing. `Register` is `connect()`: it swaps the entry and closes the stale
socket. `Greet` is the commit and the greeting's send, which lies outside the
`try` whose `finally` calls `disconnect()`; when it raises the coroutine ends as
`"raised"`. `ServeEnds` is that `finally`, with its `is ws` test.

**CommandDispatch.** A command is `<<request, node>>`. `Dispatch` is everything
from the online check to the write of the frame (row, future, frame: no await
between); `Sent`/`SendRaises`, `TimerFires`, `GotResult`, `TimedOut` are the
resumptions. `TimerFires` is separate from `TimedOut` because an answer may come
between the timer and the coroutine's next step. `UserDeleted` makes
`record_audit` raise, as it does on an expired user whose row is gone. On the
node `Take` starts the handler's thread and `Ran` ends it; a loop lives until it
finds its socket closed, which may be after the next connection's loop started.

**ScheduleSync.** A policy is named by the request that sets it. `Walk` is one
burst of pushes: from the commit (`Apply`) or from a send that had to wait
(`Resume`) to the end, to a send that raises or to one whose buffer is full
(nodes in `Slow`). `told` is the last policy written to a socket. On the node
`Take` sets the holder and starts the BOINC call, `Applied` and `NativeFails` end
it. `by` (whose loop set the holder last), `suspended` and `astray` are history
variables: no guard reads them.

**ScheduleEnforcement.** The loop's program counter separates the check (no
await), the call, the moment the command reaches FAHClient, and the wait.
`Wakes` covers both the event and the 60 s time-out, because `wait_for_change`
clears the event in its `finally` either way and no await follows before the next
check. `overruled` (history) says that FAHClient's mode was set by somebody else,
or left wrong by a failed call, since the loop last set it. A policy's
fields are all kept; BOINC's XML is not. Folding@home's idleness is logind's answer
about the seats (`InUse`), which ignores the policy's threshold and fails open;
BOINC's is the time since the last input, any of `IdleTimes`, against the threshold
it was given (`BoincRuns`). The two are independent of each other.

**Enrollment and LanPairing.** A request makes at most one node, so it names the
node. `ReadToken`, `CheckName` and `CommitEnroll` are the three moments at which
a worker thread touches the database; SQLAlchemy's SELECTs hold nothing, so other
requests come in between, and the column's UNIQUE constraint fails the commit of a
name taken meanwhile. `SaveConfig` is the answer's arrival, `GivesUp` its loss.
The other way, `_pair_one` is an `async def`: `Dial`, `Accepted`, `Rejected`,
`CommitPairing` and `HttpFails` lie between its awaits. A call is a slot of its own
(`call`), because the machine may handle it after the hub has stopped waiting.
`Verify` and `Complete` are the two handlers, each under the session's lock.
`create_node` only adds to the database session, so the row appears at the commit
(`NewNode`). A code is its generation, which is what a guess is compared with; a
wrong one is 0. A batch is its pairs, dialled one after the other, so its
behaviours are among those of independent requests. `Handover` keeps who knows a
node id and in which order; `Ended` maps to it the requests answered plainly.
`contested` and `overtaken` are history variables.

**Accounts and Credentials.** A request in a worker thread is three steps: it
reads, it commits its change, it commits its audit entry. An ORM commit expires
the rows, so what the entry says is read again, and a row that has gone meanwhile
raises: the asker's, that of the user just made or changed, that of the credential
just made (`AuditRowGone`). So does a command's send on a closed socket, after the
command's row was committed (`SendRaises`, `unsent`). `CommitUpdate` writes only columns that differ from what was read,
as SQLAlchemy does. Applying a credential runs on the event loop: from the lookup
to the first send is one step (`StartApply`), then one per answer. `Migrate`,
`AddColumn` and `CopyRows` are `init_db`, whose ALTER TABLEs SQLite commits one by
one. A scope is a set whose member `Empty` stands for an empty part between
commas. What a capability says is reduced to the name of the secret's field.

**ProcessControl.** One backend per behaviour (`active`): they share the shape,
not the state. Each command is a look and an act in a thread of the node; `late`
marks a loop whose look is not the whole truth any more, `blind` that something
was started on such a look. A pid may be free, ours (with mprime, before and
after it has written its file), a zombie or somebody else's, and is reused.
`NodeRestart` leaves the programs running, as `start_new_session` does, and turns
them over to init. `shows` says where the scan of the process-watch plugin sees the
target's name: in a running process, in a zombie too (the process's own name), or
nowhere, which is the gap its docstring and README name (`python3 -m mymodule`).
The plugin takes every process whose name contains its `match` for the target, and
so does the model. `copies` (history) are the programs the machine's user started
while one was running.

Definitions named `Mut...` are plausible slips, one beside the definition it
would replace; no specification uses them. They show that each property would
notice such a slip.

## 3. What is checked

| Run | Question | Bounds |
|---|---|---|
| `connections` | Do three successive connections, severed links and hub restarts leave the registry right, and live connections registered? | 1 node, 3 sockets |
| `ghost_entry` (violated) | Has every entry a coroutine to remove it? | 1 node, 2 sockets |
| `dispatch_faults` | Does every request end, with nothing forgotten, under every failure? | 1 command, 2 sockets, all faults |
| `dispatch_overlap` | Do racing requests, connections and loops keep answers apart, and follow `CommandLog`? | 2 requests, 2 sockets |
| `batch_tolerant` (violated) | Does a batch survive one bad node? | 2 nodes, 1 batch |
| `schedule_push` | Do overlapping schedule requests leave every connected node told? | 2 nodes (one slow), 2 requests |
| `schedule_held` | Does the node end up with its policy, in both engines? | 1 node, 2 sockets, 2 requests, all faults |
| `enforcement` | Does FAHClient follow policy, clock and sessions, and BOINC the same rule but for idleness? | 4-hour day, 5 policies, idle times around 3 thresholds, 2 users, all faults |
| `enforced_always` (violated) | Does it even after one failed call? | as above, failing calls only |
| `pairing` | Do hub and machine agree after any enrollment? | 2 requests, 1 token, 1 machine, 2 sessions, 2 codes each, 2 names, 1 wrong code allowed |
| `hub_access` | Do overlapping requests keep an admin, the audit log and the secrets? | 2 users, 2 nodes, 1 group, 2 requests, 1 credential, 2 backend versions |
| `processes` | Is a program started once and no other process signalled? | 3 pids, 2 loops, 2 project entries |

The properties, by module:

* `Connections`: `ServedIsRegistered`, `EntryHasCoroutine`, `OnlyClosedLeave`
  (action property), `StableGetsRegistered` and `OfflineIsNoticed` (liveness).
* `CommandDispatch`: `NothingForgotten`, `AnsweredIsRecorded`,
  `AnswerIsTheNodes`, `CommandInOnePlace`, `FutureSettledOnce` (action property),
  `ImplementsCommandLog` (refinement), `RequestEnds` (liveness).
* `ScheduleSync`: `ToldIsStored`, `HolderIsTold`, `EnginesHaveOnePolicy`,
  `Converges` (liveness).
* `ScheduleEnforcement`: `NoLostWakeup`, `LastIsDone`,
  `EnginesDifferOnlyOnIdle`, `HoursAreWindow`, `Enforced` (liveness).
* `Enrollment`, `LanPairing`: `TokenMakesOneNode`, `VerifiedByCurrentCode`,
  `ListedIsThere`, `ImplementsHandover` (refinement).
* `Accounts`, `Credentials`: `AdminRemains`, `ChangesAudited`,
  `VisibleIsReadable`, `SecretsRedacted`, `UpgradeKeepsCredentials`.
* `ProcessControl`: `StartedOnce`, `StopHitsOurs`, `ExitIsNoticed` (liveness).

**Why the bounds are enough.** Nodes share nothing in `Connections`; three
sockets give an old, a current and a next connection. Two sockets and two
requests give every pair of overlapping loops, late answers and racing pushes;
two nodes are what a walk needs to stop half way with one left. A day of four
hours has windows inside a day, over midnight, empty and at both ends. Two
requests are what it takes to race for a token, a name or a session, or for one
request to be overtaken by the deletion of its asker; two codes make an old one
and a new one, and `MaxAttempts` 1 reaches the limit at the second wrong code. The
machine's second session is the one after a crash or a completed pairing. Two of
the three pids are what it takes to run twice; the third is another process. An
mDNS record of an open session is taken to be renewed in time, and user ids are
never used twice. Every
bound is a constant of the configuration: the sets, `Hours`, and `Faults`, which
names the failures an instance includes (the run with all of them has the
smaller sets). `CHECK_DEADLOCK` is
off only in `dispatch_overlap`, `batch_tolerant` and `schedule_push`, whose
instances have no restarts: once the requests have ended and the sockets are used
up, nothing is left to happen.

### Where code and documents differ

* `ghost_entry`: the greeting is sent before the `try`, so a socket that closes
  at that moment leaves an entry nobody removes until the node connects again
  (`main.py:104`). `ServedIsRegistered` still holds, and `OfflineIsNoticed` names
  this exception.
* `batch_tolerant`: an exception of `send_frame` ends the whole "tolerant"
  fan-out (`api/nodes.py:202`).
* `enforced_always`: `last_should_run` is set even when the call to FAHClient
  raised, so it is not tried again until the wanted mode has changed
  (`daemon.py:169`).

Further weaknesses are named in the properties that hold in spite of them: a
schedule request that fails or waits half way leaves nodes told an older policy
until they reconnect (`ToldIsStored`); an older connection's command loop can set
the holder again after the new greeting (`Converges` asks that no such loop is left,
and that it was not the last to set the holder); a failed or overlapping boinccmd
call leaves BOINC with another policy than Folding@home until the next schedule
frame (`astray`). An enrollment whose answer is lost, or whose commit fails after
the machine has taken the credentials, leaves one end alone (`Handover`'s unended
enrollments). An admin may demote the last admin, himself; and a deletion that an
admin has begun is committed even if he is no admin any more (`AdminRemains`).
Besides a stop of the hub, an audit entry is lost when the command's send raises,
and when the asker, or the user or credential just made or changed, is deleted
before the entry is written (`ChangesAudited`). Deleting a credential while it is
being applied makes the answer an error although the command has run (`Answer`). Two
starts at a time, or two attaches, run twice (`blind`); a program whose name the
scan does not see is started again by every start (`StartedOnce` promises nothing of
it, nor of copies the user adds); and a pid file mprime has left behind makes stop
signal whoever has the pid (`stale`).

The exceptions in such a property are the outcomes of a hazard, so the property does
not catch that hazard: it says that there is no other way. Some of these outcomes
are against a document, without a run of their own; each is a history variable, and
TLC shows its behaviour as a counterexample to the property without the exception:

* `data-model.md` says the columns of a token enforce single use: two enrollments may
  both use one token if both read it before either commits (`contested`,
  `api/pairing.py:48`);
* `discovery.py` says a paired node drops out of the list: a lookup that ends after
  its session's goodbye puts it back, to stay (`overtaken`, `discovery.py:63`);
* `users-and-roles.md` and `audit.py` say the audit entry is written in the caller's
  own transaction: it is a commit of its own (`stopped`, `audit.py:27`);
* `data-model.md` calls the migration idempotent: it looks at the first of its three
  new columns only, so one cut off after that is never finished (`cutOff`,
  `db.py:156`);
* `nodes.py` says a secret never lands in the commands table: a batch keeps the
  secret's field as it was when it began, and each command is redacted by what is
  registered then (`shifted`, `api/nodes.py:30`).

### Fairness

* `Connections`, `CommandDispatch`: weak fairness of the hub's coroutines (the
  event loop runs what is ready), of the wait_for timer, and of noticing a dead
  peer (both protocol layers ping). A node owes nothing: it may never connect,
  answer or come back.
* `ScheduleSync`: weak fairness of reading a frame that has arrived and of ending
  a BOINC call (`_run` gives boinccmd 20 s).
* `ScheduleEnforcement`: weak fairness of the first check, of the wake-up (a
  timer) and of the return of a call that has landed; strong fairness of the
  landing alone, because a restart may cut a call off again and again, but not
  every time, and a call attempted again and again is assumed to succeed once. A
  *single* failed call stays allowed, and `overruled` records it. (The proof of
  `EnforcementEnforced` uses exactly these.)
* `ProcessControl`: weak fairness of the reaper threads only: `proc.wait()`
  returns once the child has ended. The enrollment and account modules state
  safety properties and assume no fairness: nobody owes an answer.

## 4. What is proved

All theorems hold for every value of the constants under the named assumptions
(`Owner` maps sockets to nodes, `NoSocket`, `NoCommand` and `Unset` lie outside
the sets they mark, fault and slow sets are subsets, `Hours` is a positive
natural, policies are well typed and the default is not enabled, idle
times are naturals; bounds on codes
and attempts are naturals, grants are roles with scopes of groups and nodes).

* **Connections_proofs.** `ConnTypeCorrect`, `ConnServed`, `ConnEntry`,
  `ConnOnlyClosedLeave`. `ServedIsRegistered` is inductive with the types;
  `EntryHasCoroutine` carries its own strengthening (an entry is its node's
  socket).
* **CommandDispatch_proofs.** `DispatchImplementsConnections` maps every step to
  a step of `Connections` or a stutter, which makes the connection theorems
  available. `DispatchInvariant` proves `DispatchInv`: the four safety
  invariants, which are not inductive alone, with `UnsentHasNoRow` (a request
  has written nothing for nodes it has not come to, so `Dispatch` opens a fresh
  row), `NoRowNothing`, `WrittenIsSettled` (what a request left behind is closed
  and audited) and `PendingHasNoResult` (so `resolve_pending` settles open
  futures only). `DispatchFutureSettledOnce` and `DispatchImplementsLog` follow
  from it step by step. What `CommandLog` promises is proved once of `CommandLog`
  and inherited through the refinement: `DispatchRecord` (a row closed with an
  answer says what the handler said, an audit entry is about a closed row, no
  handler runs without a row) and `DispatchRecordStays` (none of the three is ever
  taken back).
* **ScheduleSync_proofs.** `SyncImplementsConnections`, as above.
  `SyncToldIsStored`: `ToldInv` adds that a node without a stored policy has been
  told none and is on no request's list, and that a waiting request is in
  `suspended`; the burst lemma `WalkTold` splits nodes into those pushed to,
  those the walk has not come to, and those it does not concern.
  `SyncHolderIsTold`: `FramesInv` says that the newest frame of a live link is
  the last policy written, so that taking the only frame brings the holder up to
  date. `SyncEnginesHaveOnePolicy`: `EnginesInv` says that a node that is not
  astray has at most one BOINC call under way, with the holder's policy.
  `SyncSettledIsHeld` joins the three: a settled node that has read and applied
  everything holds the stored policy, because it has been told it, its own loop
  was the last to set the holder, and no other loop can have a call under way
  (`CallsHaveLoop`).
* **ScheduleEnforcement_proofs.** `EnforcementNoLostWakeup` and
  `EnforcementLastIsDone` from `LoopInv` (from the check on, the loop's policy is
  the holder's or the event is set; from the call on, FAHClient is in the mode it
  was called to, or overruled). `EnforcementHoursAreWindow` and
  `EnforcementEnginesDifferOnlyOnIdle` are facts of arithmetic: the window is
  rewritten with `HoursApart`, the distance of two hours modulo the day, and what
  is left of the engines' difference is the test of idleness.
* **ProcessControl_proofs.** `ProcessTypeCorrect`, `ProcessStopHitsOurs` and
  `ProcessStartedOnce`, under `ProcessAssumption` (`NoPid` is no pid,
  `MaxEntries` a natural number) and for any number of pids and command loops.
  `SignalInv` is `StopHitsOurs` made inductive: only a loop about to signal has a
  pid, a pid file that is not stale names a running mprime, and a look that is not
  late found the program itself, alive or a zombie; `Frees` makes the look late
  when the pid is given back.
  `SeenInv` says what a loop that is about to act knows: unless something was
  started blindly, a loop that is not late about a launch (an attach) acts on no
  program (no entry and no pending attach) at all, and a running mprime is the one
  its pid file names, so that `StartLooks` sees every running program (`SeenAll`):
  of the watch plugin's targets, every one whose name shows, which is the condition
  of the theorem.
* **LanPairing_proofs.** `PairingTypeCorrect` rests on `PhaseOK`, what the hub's
  phase and the call under way say of the request, the nodes table and the machine
  (an answer "complete_yes" means the machine has saved the id, a row exists in the
  two phases after a commit only). `PairingTokenMakesOneNode`: `TokenInv` extends
  the property to requests that are between reading the token and committing, and
  says that a committed one has marked it, so a later reader is refused.
  `PairingVerifiedByCurrentCode` is inductive with the types, since a request dials
  once. `PairingListedIsThere` adds the same of the lookups under way.
  `PairingImplementsHandover` maps every step to one of `Handover` about the same
  request, or to a stutter: `PhaseOK` says which end already has the id when the
  other gets it, and that a request answered plainly is at both ends or at neither.
  `PairingInOrder` and `PairingStaysSettled` are proved of `Handover` and inherited:
  which end may have an id alone, and that a settled enrollment stays as it is.
* **Credentials_proofs** (about `Accounts` too). `AccessTypeCorrect` types what a
  request carries from its checks to its commit. `FreshInv` says that an id nobody
  has had is no account's and at most one request's. With it: `AccessAdminRemains`
  (a deletion by somebody who still is an admin leaves that one, because nobody
  deletes himself), `AccessChangesAudited` (`AuditInv`: a change without an entry
  is still at its request, was cut off, was not sent, or its request failed on a row
  that is gone, and a row that is gone never comes back: user ids because nobody
  gets one twice, and for credentials `CredFresh`: one being made is not there yet).
  `AccessUpgradeKeepsCredentials` from `UpgradeInv` (unless it was cut off, the
  migration has done nothing or everything whenever it is not at work),
  `AccessSecretsRedacted` from `SecretInv` (the field a waiting request masks is
  today's, or the request is in `shifted`); `AccessVisibleIsReadable` compares two
  functions of the same rows.

### Liveness

These liveness properties are proved from the specifications' own fairness;
`Converges`, and `RequestEnds` for batches, are not proved (below). Each
proof names the phases a socket, request, loop or pid goes through, shows that no
other step leads out of a phase but forwards, and lets the temporal prover combine
that with `WF` and `SF`. What the prover does not know is `ENABLED`: it treats
`ENABLED <<A>>_v` as an unknown formula. So each of these theorems has one premise
that says where the fair actions are enabled, and nothing else: `ConnReady`,
`RequestReady`, `SyncReady`, `LoopReady`, `ReaperReady`. They are facts about the
actions' guards, not about the environment. TLC evaluates `ENABLED`, and has found
each to be an invariant: make a module that extends the MC module and the proof
module and add, for instance, `INVARIANT ConnReady` to the run's configuration
(`connections`, `dispatch_faults`, `batch_tolerant`, `schedule_push`,
`schedule_held`, `enforcement`, `processes`).

| Theorem | Property | Argument |
|---|---|---|
| `ConnStableGetsRegistered` | `StableGetsRegistered` | an open socket has a coroutine (`ConnOpen`); unregistered, it is at `connect()` |
| `ConnOfflineIsNoticed` | `OfflineIsNoticed` | the hub's side closes, the coroutine gets past the greeting, `finally` runs |
| `DispatchSingleEnds` | `RequestEnds` of single commands | sent, answered or timed out, recorded; the hub's stop and the user's deletion end it sooner |
| `DispatchBatchMovesOn` | | a batch of any size ends or comes back with fewer nodes left |
| `SyncFramesAreTaken`, `SyncCallsEnd` | | the oldest frame stays oldest until the loop takes it (`HeadStays`); every call ends |
| `EnforcementEnforced` | `Enforced` | a mode that is owed is called for by the next check (`OwedStep`), and the call lands |
| `ProcessExitIsNoticed` | `ExitIsNoticed` | every zombie has its reaper thread (`ProcessChildrenAwaited`) |

### Only model-checked

* That a fair action is enabled (the five premises above).
* `RequestEnds` for batches, of which `DispatchBatchMovesOn` is the step: what is
  left is an induction on the number of nodes, over a temporal formula, for which
  neither the provers nor the library have a rule.
* `Converges`. Its safety half is proved (`SyncSettledIsHeld`: a settled node that
  has read and applied everything holds the stored policy), and so is the step
  towards reading everything (`SyncFramesAreTaken`, `SyncCallsEnd`). What is left is
  an induction on the length of the queue, as above; and with requests without end a
  node may be behind for ever, so the instance, where requests are few, is part of
  the claim.
* The three violations.

## 5. What is not modelled

Not modelled at all: the dashboard, the node's local page, request schemas,
plugin loading (no state others depend on); encryption, hashing and the parsing
of BOINC's and FAHClient's output (libraries and formats); the token check of
`node_ws` (a connection that fails it never reaches the registry); login, logout
and the expiry of sessions (any existing user may have a session, which allows
more than the code does); the metrics window, which one polled page reads and
whose only hazard, a dictionary that grows under its reader, fails one poll;
what a token or a pairing hands to the new node besides its credentials (group,
schedule); BOINC's suspend and resume, one subprocess call each. Nothing in the
code deletes a node, so no module does.

`ScheduleSync` and `ScheduleEnforcement` are not composed. They meet in one
variable, the node's PolicyHolder: the one shows which policy it ends up with, the
other what the node does with any sequence of policies it is given, so a product
would multiply their states and add no interaction.
