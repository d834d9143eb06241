------------------------- MODULE ScheduleEnforcement -------------------------
(***************************************************************************)
(* A node's enforcement of the schedule policy it holds: PolicyHolder, the *)
(* loop that pauses and resumes Folding@home (_fah_schedule_loop), the     *)
(* rule should_run it goes by, and the preferences BOINC is given instead. *)
(*                                                                         *)
(* How a policy gets to the node is left to Receive; the clock, the login  *)
(* sessions and FAHClient are the environment.                             *)
(***************************************************************************)
EXTENDS Integers

CONSTANTS
    Hours,          \* hours in a day
    Users,          \* those who may be logged in at the machine
    Policies,       \* the schedule policies the hub may send
    DefaultPolicy,  \* SchedulePolicy(): not enabled
    IdleTimes,      \* minutes BOINC may find to have passed since an input
    Faults          \* bound: which of the failures below an instance includes

HourOfDay == 0..(Hours - 1)

PolicyType ==
    [enabled : BOOLEAN, restrict_hours : BOOLEAN, only_when_idle : BOOLEAN,
     start : HourOfDay, end : HourOfDay, idle_threshold : Int]

ASSUME HoursAssumption == Hours \in Nat \ {0}
ASSUME PoliciesAssumption ==
    /\ Policies \subseteq PolicyType
    /\ DefaultPolicy \in Policies
    /\ ~DefaultPolicy.enabled
ASSUME IdleTimesAssumption == IdleTimes \subseteq Nat
ASSUME EnforcementFaultsAssumption ==
    Faults \subseteq {"call fails", "admin command", "node restart"}

VARIABLES
    policy,     \* PolicyHolder._policy
    changed,    \* PolicyHolder._changed, an asyncio.Event
    pc,         \* where _fah_schedule_loop is
    seen,       \* its local "policy", as of its last check
    want,       \* its local "want_running"
    last,       \* its local "last_should_run"
    fah,        \* what FAHClient does
    overruled,  \* history: fah was changed, or left, against the loop's call
    hour,       \* the local hour
    logind,     \* does loginctl answer?
    sessions    \* each user's session as loginctl shows it

holderVars == <<policy, changed>>
loopVars   == <<pc, seen, want, last>>
worldVars  == <<hour, logind, sessions>>
vars == <<holderVars, loopVars, fah, overruled, worldVars>>

Modes == {"running", "paused"}
SessionStates == {"absent", "idle", "active", "unreadable"}

EnforcementTypeOK ==
    /\ policy \in Policies
    /\ changed \in BOOLEAN
    /\ pc \in {"start", "calling", "landed", "waiting"}
    /\ seen \in Policies
    /\ want \in Modes
    /\ last \in Modes \cup {"unset"}
    /\ fah \in Modes
    /\ overruled \in BOOLEAN
    /\ hour \in HourOfDay
    /\ logind \in BOOLEAN
    /\ sessions \in [Users -> SessionStates]

-----------------------------------------------------------------------------
(***************************************************************************)
(* The rule.                                                               *)
(***************************************************************************)
\* Slip: the end hour counts too.
MutWithinClosedEnd(start, end, now) ==
    \/ start = end
    \/ start < end /\ start <= now /\ now <= end
    \/ start > end /\ (now >= start \/ now <= end)

WithinActiveHours(start, end, now) ==
    \/ start = end
    \/ start < end /\ start <= now /\ now < end
    \/ start > end /\ (now >= start \/ now < end)

\* _is_idle: logind's IdleHint, which knows nothing of the policy's threshold.
\* A session that cannot be read is passed over, and no logind is no answer;
\* should_run takes either for idle.
InUse(answers, seats) == answers /\ \E u \in Users : seats[u] = "active"

ShouldRun(p, now, inUse) ==
    p.enabled =>
        /\ p.restrict_hours => WithinActiveHours(p.start, p.end, now)
        /\ p.only_when_idle => ~inUse

Wanted(p) ==
    IF ShouldRun(p, hour, InUse(logind, sessions)) THEN "running" ELSE "paused"

\* Slip: the hours are sent whether the policy is enabled or not.
MutPrefsIgnoreEnabled(p) ==
    LET hours == p.restrict_hours
        idle  == p.enabled /\ p.only_when_idle
    IN  [run_if_user_active |-> ~idle,
         idle_time_to_run |-> IF idle THEN p.idle_threshold ELSE 0,
         start_hour |-> IF hours THEN p.start ELSE 0,
         end_hour   |-> IF hours THEN p.end ELSE 0]

\* boinc.py apply_schedule: the policy as BOINC preferences
\* (run_gpu_if_user_active is written as run_if_user_active is).
BoincPrefs(p) ==
    LET hours == p.enabled /\ p.restrict_hours
        idle  == p.enabled /\ p.only_when_idle
    IN  [run_if_user_active |-> ~idle,
         idle_time_to_run |-> IF idle THEN p.idle_threshold ELSE 0,
         start_hour |-> IF hours THEN p.start ELSE 0,
         end_hour   |-> IF hours THEN p.end ELSE 0]

\* What BOINC makes of them: the user is active until idle_time_to_run minutes
\* have passed since the last input, which BOINC measures for itself; equal
\* hours mean no restriction, end before start a window over midnight.
BoincRuns(prefs, now, idle) ==
    /\ idle < prefs.idle_time_to_run => prefs.run_if_user_active
    /\ \/ prefs.start_hour = prefs.end_hour
       \/ IF prefs.start_hour < prefs.end_hour
          THEN now \in prefs.start_hour .. (prefs.end_hour - 1)
          ELSE now \notin prefs.end_hour .. (prefs.start_hour - 1)

-----------------------------------------------------------------------------
EnforcementInit ==
    /\ policy = DefaultPolicy
    /\ changed = FALSE
    /\ pc = "start"
    /\ seen = DefaultPolicy
    /\ want = "running"
    /\ last = "unset"
    /\ fah \in Modes
    /\ overruled = FALSE
    /\ hour \in HourOfDay
    /\ logind \in BOOLEAN
    /\ sessions = [u \in Users |-> "absent"]

\* Slip: the frame is kept as it came.
MutReceiveRaw(p) ==
    /\ policy' = [type |-> "schedule", policy |-> p]
    /\ changed' = TRUE
    /\ UNCHANGED <<loopVars, fah, overruled, worldVars>>

\* PolicyHolder.set, called by the command loop for a schedule frame.
Receive(p) ==
    /\ policy' = p
    /\ changed' = TRUE
    /\ UNCHANGED <<loopVars, fah, overruled, worldVars>>

(***************************************************************************)
(* _fah_schedule_loop.                                                     *)
(***************************************************************************)
\* Slip: the call is started and not waited for.
MutCheckNoAwait ==
    /\ seen' = policy
    /\ want' = Wanted(policy)
    /\ pc' = "waiting"
    /\ last' = Wanted(policy)

\* From the top of the loop to its next await: read the policy, apply the
\* rule, and call FAHClient in a thread if the answer is new.
Check ==
    /\ seen' = policy
    /\ want' = Wanted(policy)
    /\ pc' = IF want' # last THEN "calling" ELSE "waiting"
    /\ UNCHANGED last

FirstCheck ==
    /\ pc = "start"
    /\ Check
    /\ UNCHANGED <<holderVars, fah, overruled, worldVars>>

\* Slip: no time-out, so the clock and the sessions go unnoticed.
MutWakesOnEvent ==
    /\ pc = "waiting"
    /\ changed
    /\ Check
    /\ changed' = FALSE
    /\ UNCHANGED <<policy, fah, overruled, worldVars>>

\* wait_for_change returns, on the event or after 60 s; its finally clears
\* the event, and no await lies between that and the next check.
Wakes ==
    /\ pc = "waiting"
    /\ Check
    /\ changed' = FALSE
    /\ UNCHANGED <<policy, fah, overruled, worldVars>>

\* The command reaches FAHClient, some time before the call returns.  (A send
\* that TCP takes and delivers later still is not told from one delivered
\* now: FAHClient is on the same machine.)
CallLands ==
    /\ pc = "calling"
    /\ fah' = want
    /\ overruled' = FALSE
    /\ pc' = "landed"
    /\ UNCHANGED <<seen, want, last, holderVars, worldVars>>

\* Slip: the event is cleared when the wait begins.
MutReturnClears ==
    /\ pc = "landed"
    /\ last' = want
    /\ pc' = "waiting"
    /\ changed' = FALSE
    /\ UNCHANGED <<seen, want, policy, fah, overruled, worldVars>>

\* The loop is back from to_thread.
CallReturns ==
    /\ pc = "landed"
    /\ last' = want
    /\ pc' = "waiting"
    /\ UNCHANGED <<seen, want, holderVars, fah, overruled, worldVars>>

\* The call raises before the command has reached FAHClient (if it raises
\* after that, CallReturns has the same effect): last_should_run, assigned
\* after the try, is set all the same.
CallFails ==
    /\ "call fails" \in Faults
    /\ pc = "calling"
    /\ overruled' = (overruled \/ fah # want)
    /\ last' = want
    /\ pc' = "waiting"
    /\ UNCHANGED <<seen, want, holderVars, fah, worldVars>>

-----------------------------------------------------------------------------
\* A pause or unpause command from the dashboard, in the command loop's own
\* thread (pause_slot and unpause_slot act on all slots as well).
AdminCommand(mode) ==
    /\ "admin command" \in Faults
    /\ fah' = mode
    /\ overruled' = TRUE
    /\ UNCHANGED <<holderVars, loopVars, worldVars>>

\* The node process stops and starts again: the policy is memory, FAHClient a
\* process of its own.
NodeRestart ==
    /\ "node restart" \in Faults
    /\ policy' = DefaultPolicy
    /\ changed' = FALSE
    /\ pc' = "start"
    /\ seen' = DefaultPolicy
    /\ want' = "running"
    /\ last' = "unset"
    /\ UNCHANGED <<fah, overruled, worldVars>>

Tick ==
    /\ hour' = (hour + 1) % Hours
    /\ UNCHANGED <<holderVars, loopVars, fah, overruled, logind, sessions>>

SessionChanges(u, state) ==
    /\ sessions' = [sessions EXCEPT ![u] = state]
    /\ UNCHANGED <<holderVars, loopVars, fah, overruled, hour, logind>>

LogindChanges ==
    /\ logind' = ~logind
    /\ UNCHANGED <<holderVars, loopVars, fah, overruled, hour, sessions>>

EnforcementNext ==
    \/ \E p \in Policies : Receive(p)
    \/ FirstCheck
    \/ Wakes
    \/ CallLands
    \/ CallReturns
    \/ CallFails
    \/ \E mode \in Modes : AdminCommand(mode)
    \/ NodeRestart
    \/ Tick
    \/ \E u \in Users, state \in SessionStates : SessionChanges(u, state)
    \/ LogindChanges

(***************************************************************************)
(* Fairness: the loop's 60 s timer fires, and its calls, which time out    *)
(* after seconds, end.  A call is not cut off by a restart every time, and *)
(* one attempted again and again succeeds: hence SF for its landing.       *)
(***************************************************************************)
EnforcementFairness ==
    /\ WF_vars(FirstCheck)
    /\ WF_vars(Wakes)
    /\ SF_vars(CallLands)
    /\ WF_vars(CallReturns)

EnforcementSpec ==
    EnforcementInit /\ [][EnforcementNext]_vars /\ EnforcementFairness

-----------------------------------------------------------------------------
(***************************************************************************)
(* Properties.                                                             *)
(***************************************************************************)
\* No lost wake-up: when the loop waits and its event is not set, it has
\* already acted on the policy the holder has now.  (set() may come while the
\* loop is in a call, or between the timer and the coroutine's resumption.)
NoLostWakeup == pc = "waiting" /\ ~changed => seen = policy

\* While the loop waits, FAHClient is in the mode the loop remembers, unless
\* a call failed or somebody else commanded it since: a slow call never
\* leaves FAHClient in the mode of an earlier check.
LastIsDone == pc = "waiting" => fah = last \/ overruled

\* The two enforcement engines differ in one thing only ("Enforcement
\* deliberately differs by backend", REQUIREMENTS.md:258): under any policy the
\* hub may send and at any hour, whatever logind says of the seats and whatever
\* time BOINC finds to have passed since the last input, one of them runs and
\* the other does not exactly if the policy asks for an idle machine, the hours
\* would let both run, and the two disagree on whether the machine is idle.
EnginesDifferOnlyOnIdle ==
    \A p \in Policies, inUse \in BOOLEAN, idle \in IdleTimes :
        ~(BoincRuns(BoincPrefs(p), hour, idle) <=> ShouldRun(p, hour, inUse)) <=>
            /\ p.enabled /\ p.only_when_idle
            /\ p.restrict_hours => WithinActiveHours(p.start, p.end, hour)
            /\ inUse <=> idle >= p.idle_threshold

\* The active hours are the window of (end - start) hours, modulo the day,
\* that opens at start: for any two bounds, over midnight or not.
HoursAreWindow ==
    \A start, end \in HourOfDay :
        WithinActiveHours(start, end, hour) <=>
            \/ start = end
            \/ (hour - start) % Hours < (end - start) % Hours

\* Once the policy, the clock and the sessions call for a mode and keep
\* calling for it, FAHClient gets there, unless overruled.
Enforced ==
    \A mode \in Modes :
        Wanted(policy) = mode ~>
            (fah = mode \/ Wanted(policy) # mode \/ overruled)

\* REQUIREMENTS.md:270: "a loop checks the policy every 60 seconds (or
\* immediately on a policy change) and calls FAH's pause/unpause-all
\* accordingly".  So FAHClient follows the policy even if one call fails.
EnforcedAlways ==
    \A mode \in Modes :
        Wanted(policy) = mode ~> (fah = mode \/ Wanted(policy) # mode)
=============================================================================
