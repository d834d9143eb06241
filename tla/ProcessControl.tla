---------------------------- MODULE ProcessControl ----------------------------
(***************************************************************************)
(* Starting and stopping what a node runs: mprime by its pid file (the     *)
(* GIMPS plugin), any program by its name (the process-watch plugin), and  *)
(* a project of the BOINC client by its URL.  Each looks first and acts    *)
(* then; what it acts on changes in between and, with mprime and BOINC,    *)
(* shows up only some time after the act.  The backends share nothing, so  *)
(* a behaviour has one of them; "the program" is mprime or the target.     *)
(*                                                                         *)
(* A node has one command loop per connection, and for a while that of the *)
(* connection before, so two commands may run at a time.                   *)
(***************************************************************************)
EXTENDS Naturals

CONSTANTS
    Pids,
    Loops,      \* the node's command loops
    MaxEntries, \* bound: entries and pending attaches of the BOINC project
    NoPid

ASSUME ProcessAssumption == NoPid \notin Pids /\ MaxEntries \in Nat

VARIABLES
    active,     \* the backend of this behaviour
    shows,      \* what the target is when the plugin's scan sees its name
    proc,       \* what each pid is; "starting": mprime, its file not written
    children,   \* pids whose parent is the node's process
    reapers,    \* pids a thread of the node waits for
    copies,     \* history: programs the user started while there was one
    pidFile,    \* mprime.pid
    stale,      \* history: the mprime that wrote pidFile died and left it
    loop,       \* what each command loop is about to do
    entries, pending,   \* the project in BOINC's list; attaches it works on
    blind       \* history: something was started past something unseen

givenVars   == <<active, shows>>
osVars      == <<proc, children, reapers, copies>>
fileVars    == <<pidFile, stale>>
boincVars   == <<entries, pending>>
processVars == <<givenVars, osVars, fileVars, loop, boincVars, blind>>

\* late: what the loop looked at is no longer, or never was, the whole truth.
Idle == [pc |-> "idle", pid |-> NoPid, late |-> FALSE]

ProcessTypeOK ==
    /\ active \in {"gimps", "watch", "boinc"}
    /\ shows \subseteq {"running", "zombie"}
    /\ proc \in [Pids -> {"free", "starting", "running", "zombie", "other"}]
    /\ reapers \subseteq children
    /\ children \subseteq {p \in Pids : proc[p] \in {"starting", "running", "zombie"}}
    /\ copies \subseteq {p \in Pids : proc[p] = "running"} \ children
    /\ pidFile \in Pids \cup {NoPid}
    /\ loop \in [Loops -> [pc : {"idle", "launch", "signal", "attach"},
                           pid : Pids \cup {NoPid}, late : BOOLEAN]]
    /\ entries \in 0..MaxEntries /\ pending \in 0..MaxEntries
    /\ stale \in BOOLEAN /\ blind \in BOOLEAN

\* A target's name may be the process's own, or be in its argv[0] or [1]
\* only, which a zombie has not; or in neither (`python3 -m mymodule`), where
\* the scan does not look.
ProcessInit ==
    /\ active \in {"gimps", "watch", "boinc"}
    /\ shows \in {{}} \cup {s \in {{"running"}, {"running", "zombie"}} : active = "watch"}
    /\ proc = [p \in Pids |-> "free"]
    /\ children = {} /\ reapers = {} /\ copies = {}
    /\ pidFile = NoPid /\ stale = FALSE
    /\ loop = [k \in Loops |-> Idle]
    /\ entries = 0 /\ pending = 0
    /\ blind = FALSE

Programs == {p \in Pids : proc[p] \in {"starting", "running"}}

\* The pid in mprime.pid, if kill(pid, 0) finds a process there: anybody's,
\* a zombie too.
PidAlive == {p \in Pids : p = pidFile /\ proc[p] # "free"}

\* The processes the target's name shows in.
FindProcess == {p \in Pids : proc[p] \in shows}

\* Slip: a process counts as the target's if its command line mentions it.
MutReported ==
    IF active = "gimps" THEN PidAlive
    ELSE {p \in Pids : proc[p] \in shows \cup {"other"}}

Reported == IF active = "gimps" THEN PidAlive ELSE FindProcess

\* Loops that have looked and not acted yet are late now.
Overtaken(pc, pid) ==
    [k \in Loops |-> IF loop[k].pc = pc /\ loop[k].pid = pid
                     THEN [loop[k] EXCEPT !.late = TRUE] ELSE loop[k]]

-----------------------------------------------------------------------------
\* start(): nothing is running.  (Otherwise "already_running" is all.)
StartLooks(k) ==
    /\ active \in {"gimps", "watch"}
    /\ loop[k].pc = "idle"
    /\ Reported = {}
    /\ loop' = [loop EXCEPT ![k] = [pc |-> "launch", pid |-> NoPid,
                                    late |-> \E p \in Pids : proc[p] = "starting"]]
    /\ UNCHANGED <<givenVars, osVars, fileVars, boincVars, blind>>

\* Slip: the child is launched and never waited for.
MutLaunchUnreaped(k) ==
    /\ loop[k].pc = "launch"
    /\ \E p \in Pids :
          /\ proc[p] = "free"
          /\ proc' = [proc EXCEPT ![p] = IF active = "gimps" THEN "starting" ELSE "running"]
          /\ children' = children \cup {p}
    /\ loop' = [Overtaken("launch", NoPid) EXCEPT ![k] = Idle]
    /\ blind' = (blind \/ loop[k].late)
    /\ UNCHANGED <<givenVars, reapers, copies, fileVars, boincVars>>

\* ... Popen, and the thread that reaps the child when it ends.
Launch(k) ==
    /\ loop[k].pc = "launch"
    /\ \E p \in Pids :
          /\ proc[p] = "free"
          /\ proc' = [proc EXCEPT ![p] = IF active = "gimps" THEN "starting" ELSE "running"]
          /\ children' = children \cup {p}
          /\ reapers' = reapers \cup {p}
    /\ loop' = [Overtaken("launch", NoPid) EXCEPT ![k] = Idle]
    /\ blind' = (blind \/ loop[k].late)
    /\ UNCHANGED <<givenVars, copies, fileVars, boincVars>>

\* stop(): a pid to signal.
StopLooks(k) ==
    /\ active \in {"gimps", "watch"}
    /\ loop[k].pc = "idle"
    /\ \E p \in Reported :
          loop' = [loop EXCEPT ![k] = [pc |-> "signal", pid |-> p, late |-> stale]]
    /\ UNCHANGED <<givenVars, osVars, fileVars, boincVars, blind>>

\* ... os.kill: the process may end from now on (it may anyway), and with no
\* process there the command fails.
Signal(k) ==
    /\ loop[k].pc = "signal"
    /\ loop' = [loop EXCEPT ![k] = Idle]
    /\ UNCHANGED <<givenVars, osVars, fileVars, boincVars, blind>>

-----------------------------------------------------------------------------
\* mprime writes its pid file.
WritesPidFile(p) ==
    /\ active = "gimps" /\ proc[p] = "starting"
    /\ proc' = [proc EXCEPT ![p] = "running"]
    /\ pidFile' = p
    /\ stale' = FALSE
    /\ UNCHANGED <<givenVars, children, reapers, copies, loop, boincVars, blind>>

\* A pid is free again: whoever was about to signal it is late.
Frees(p) ==
    /\ proc' = [proc EXCEPT ![p] = "free"]
    /\ children' = children \ {p}
    /\ reapers' = reapers \ {p}
    /\ copies' = copies \ {p}
    /\ loop' = Overtaken("signal", p)

\* The program ends, by a signal or by itself.  mprime removes the pid file,
\* unless it is killed or crashes.
Exits(p) ==
    /\ p \in Programs
    /\ IF p \in children
       THEN /\ proc' = [proc EXCEPT ![p] = "zombie"]
            /\ UNCHANGED <<children, reapers, copies, loop>>
       ELSE Frees(p)
    /\ \/ pidFile' = NoPid /\ stale' = FALSE
       \/ UNCHANGED pidFile /\ stale' = (stale \/ pidFile = p)
    /\ UNCHANGED <<givenVars, boincVars, blind>>

\* Slip: the thread's entry is kept when its child is gone.
MutReapKeeps(p) ==
    /\ p \in reapers /\ proc[p] = "zombie"
    /\ proc' = [proc EXCEPT ![p] = "free"]
    /\ children' = children \ {p}
    /\ loop' = Overtaken("signal", p)
    /\ UNCHANGED <<givenVars, reapers, copies, fileVars, boincVars, blind>>

\* proc.wait() in the reaper thread.
Reap(p) ==
    /\ p \in reapers /\ proc[p] = "zombie"
    /\ Frees(p)
    /\ UNCHANGED <<givenVars, fileVars, boincVars, blind>>

\* Somebody else's process takes a free pid, and ends.
OtherStarts(p) ==
    /\ active # "boinc" /\ proc[p] = "free"
    /\ proc' = [proc EXCEPT ![p] = "other"]
    /\ UNCHANGED <<givenVars, children, reapers, copies, fileVars, loop, boincVars, blind>>

OtherEnds(p) ==
    /\ proc[p] = "other"
    /\ Frees(p)
    /\ UNCHANGED <<givenVars, fileVars, boincVars, blind>>

\* The machine's user starts the target by hand, a second copy of it, or
\* another program whose name contains `match`: the plugin takes it for the
\* target, and so does the model.
UserStarts(p) ==
    /\ active = "watch" /\ proc[p] = "free"
    /\ copies' = IF Programs = {} THEN copies ELSE copies \cup {p}
    /\ proc' = [proc EXCEPT ![p] = "running"]
    /\ loop' = Overtaken("launch", NoPid)
    /\ UNCHANGED <<givenVars, children, reapers, fileVars, boincVars, blind>>

\* The node's process ends and is started again.  The programs go on (they
\* have sessions of their own); init adopts them and reaps the dead.
NodeRestart ==
    /\ loop' = [k \in Loops |-> Idle]
    /\ children' = {} /\ reapers' = {} /\ UNCHANGED copies
    /\ proc' = [p \in Pids |-> IF proc[p] = "zombie" THEN "free" ELSE proc[p]]
    /\ UNCHANGED <<givenVars, fileVars, boincVars, blind>>

-----------------------------------------------------------------------------
\* Slip: it leaves it to BOINC to refuse a second attach.
MutAttachLooks(k, canonical) ==
    /\ active = "boinc"
    /\ loop[k].pc = "idle"
    /\ loop' = [loop EXCEPT ![k] = [pc |-> "attach", pid |-> NoPid,
                                    late |-> pending > 0 \/ (~canonical /\ entries > 0)]]
    /\ UNCHANGED <<givenVars, osVars, fileVars, boincVars, blind>>

\* attach_project: BOINC's list does not have this very URL.  It lists a
\* project by its master URL, which need not be the URL asked for.
AttachLooks(k, canonical) ==
    /\ active = "boinc"
    /\ loop[k].pc = "idle"
    /\ entries = 0 \/ ~canonical
    /\ loop' = [loop EXCEPT ![k] = [pc |-> "attach", pid |-> NoPid,
                                    late |-> entries + pending > 0]]
    /\ UNCHANGED <<givenVars, osVars, fileVars, boincVars, blind>>

\* ... boinccmd --project_attach, which BOINC accepts, even if the command
\* then times out; or it fails, or BOINC knows the project.
AttachCalls(k) ==
    /\ loop[k].pc = "attach"
    /\ \/ /\ pending < MaxEntries
          /\ pending' = pending + 1
          /\ blind' = (blind \/ loop[k].late)
          /\ loop' = [Overtaken("attach", NoPid) EXCEPT ![k] = Idle]
       \/ /\ loop' = [loop EXCEPT ![k] = Idle]
          /\ UNCHANGED <<pending, blind>>
    /\ UNCHANGED <<givenVars, osVars, fileVars, entries>>

\* BOINC has looked the project up: an entry of its own, or a failure.
AttachSettles ==
    /\ pending > 0
    /\ pending' = pending - 1
    /\ entries' \in {entries, entries + 1} /\ entries' <= MaxEntries
    /\ UNCHANGED <<givenVars, osVars, fileVars, loop, blind>>

Detach ==
    /\ active = "boinc" /\ entries > 0
    /\ entries' = entries - 1
    /\ UNCHANGED <<givenVars, osVars, fileVars, loop, pending, blind>>

-----------------------------------------------------------------------------
ProcessNext ==
    \/ \E k \in Loops :
          \/ StartLooks(k) \/ Launch(k) \/ StopLooks(k) \/ Signal(k)
          \/ \E canonical \in BOOLEAN : AttachLooks(k, canonical)
          \/ AttachCalls(k)
    \/ \E p \in Pids :
          \/ WritesPidFile(p) \/ Exits(p) \/ Reap(p) \/ UserStarts(p)
          \/ OtherStarts(p) \/ OtherEnds(p)
    \/ NodeRestart \/ AttachSettles \/ Detach

\* A thread that waits for a child runs on when the child has ended.
FairReaper(p) == WF_processVars(Reap(p))

ProcessFairness == \A p \in Pids : FairReaper(p)

ProcessSpec == ProcessInit /\ [][ProcessNext]_processVars /\ ProcessFairness

-----------------------------------------------------------------------------
\* But for copies the user adds, the program runs once, and BOINC has the
\* project once, whatever crashes, restarts and reuses of pids there were,
\* unless one was started by a command that had looked while another was being
\* started, or had not looked at the master URL (start, attach_project).  Of a
\* target whose name the scan does not see nothing is promised
\* (_find_process: "a known gap, not attempted here").
StartedOnce ==
    \/ blind
    \/ active = "watch" /\ "running" \notin shows
    \/ /\ \A p, q \in Programs \ copies : p = q
       /\ entries + pending <= 1

\* stop() is about to signal a process that is not the program's only if
\* mprime died without removing its pid file, or the process found was gone
\* before it could be signalled.  (What the plugin takes for the target is the
\* program's here: _find_process looks for `match` anywhere in a name.)
StopHitsOurs ==
    \A k \in Loops :
        (loop[k].pc = "signal" /\ proc[loop[k].pid] = "other") => loop[k].late

\* A program that has ended does not stay a zombie, which start() would take
\* for a running one (the reaper threads of start()).
ExitIsNoticed == \A p \in Pids : proc[p] = "zombie" ~> proc[p] # "zombie"
=============================================================================
