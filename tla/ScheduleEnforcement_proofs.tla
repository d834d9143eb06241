----------------------- MODULE ScheduleEnforcement_proofs ---------------------
(***************************************************************************)
(* Proofs about ScheduleEnforcement: type correctness, the two invariants  *)
(* of the enforcement loop, and the two facts about the rule it applies,   *)
(* for a day of any length and any set of policies.                        *)
(***************************************************************************)
EXTENDS ScheduleEnforcement, TLAPS

(***************************************************************************)
(* The rule.                                                               *)
(***************************************************************************)
\* The distance from one hour on to another, modulo the day, written out: what
\* turns the window below into comparisons.
LEMMA HoursApart ==
    ASSUME NEW a \in HourOfDay, NEW b \in HourOfDay
    PROVE  (b - a) % Hours = IF a <= b THEN b - a ELSE b - a + Hours
<1> USE HoursAssumption DEF HourOfDay
<1>1. CASE a <= b
  BY <1>1
<1>2. CASE a > b
  <2>1. b - a + Hours \in 0..(Hours - 1)
    BY <1>2
  <2>2. (b - a) % Hours = (b - a + Hours) % Hours
    BY HoursAssumption
  <2>3. (b - a + Hours) % Hours = b - a + Hours
    BY <2>1
  <2> QED
    BY <1>2, <2>2, <2>3
<1> QED
  BY <1>1, <1>2

\* _within_active_hours accepts the (end - start) hours from start on, modulo
\* the day, whether or not they run over midnight.
LEMMA WithinIsWindow ==
    ASSUME NEW start \in HourOfDay, NEW end \in HourOfDay, NEW now \in HourOfDay
    PROVE  WithinActiveHours(start, end, now) <=>
              \/ start = end
              \/ (now - start) % Hours < (end - start) % Hours
<1>1. (now - start) % Hours
         = IF start <= now THEN now - start ELSE now - start + Hours
  BY HoursApart
<1>2. (end - start) % Hours
         = IF start <= end THEN end - start ELSE end - start + Hours
  BY HoursApart
<1> QED
  BY <1>1, <1>2, HoursAssumption DEF HourOfDay, WithinActiveHours

\* BOINC on the preferences apply_schedule writes: the hours of the policy, and
\* its own measure of idleness against the policy's threshold.
LEMMA BoincRunsOn ==
    ASSUME NEW p \in PolicyType, NEW now \in HourOfDay, NEW idle \in Nat
    PROVE  BoincRuns(BoincPrefs(p), now, idle) <=>
              (p.enabled =>
                  /\ p.restrict_hours => WithinActiveHours(p.start, p.end, now)
                  /\ p.only_when_idle => idle >= p.idle_threshold)
<1> USE HoursAssumption DEF PolicyType, HourOfDay
<1> DEFINE prefs == BoincPrefs(p)
           Open  == \/ prefs.start_hour = prefs.end_hour
                    \/ IF prefs.start_hour < prefs.end_hour
                       THEN now \in prefs.start_hour .. (prefs.end_hour - 1)
                       ELSE now \notin prefs.end_hour .. (prefs.start_hour - 1)
<1>1. (idle < prefs.idle_time_to_run => prefs.run_if_user_active)
         <=> (p.enabled /\ p.only_when_idle => idle >= p.idle_threshold)
  <2>1. CASE p.enabled /\ p.only_when_idle
    <3>1. prefs.run_if_user_active = FALSE /\ prefs.idle_time_to_run = p.idle_threshold
      BY <2>1 DEF BoincPrefs
    <3>2. ~(idle < p.idle_threshold) <=> idle >= p.idle_threshold
      OBVIOUS
    <3> QED
      BY <2>1, <3>1, <3>2
  <2>2. CASE ~(p.enabled /\ p.only_when_idle)
    <3>1. prefs.run_if_user_active = TRUE
      BY <2>2 DEF BoincPrefs
    <3> QED
      BY <2>2, <3>1
  <2> QED
    BY <2>1, <2>2
<1>2. Open <=> (p.enabled /\ p.restrict_hours => WithinActiveHours(p.start, p.end, now))
  <2>1. CASE p.enabled /\ p.restrict_hours
    <3>1. prefs.start_hour = p.start /\ prefs.end_hour = p.end
      BY <2>1 DEF BoincPrefs
    <3>2. p.start \in Int /\ p.end \in Int /\ now \in Int
      OBVIOUS
    <3>3. (\/ p.start = p.end
           \/ IF p.start < p.end THEN now \in p.start .. (p.end - 1)
                                 ELSE now \notin p.end .. (p.start - 1))
             <=> WithinActiveHours(p.start, p.end, now)
      BY <3>2 DEF WithinActiveHours
    <3> HIDE DEF prefs
    <3> QED
      BY <2>1, <3>1, <3>3
  <2>2. CASE ~(p.enabled /\ p.restrict_hours)
    <3>1. prefs.start_hour = 0 /\ prefs.end_hour = 0
      BY <2>2 DEF BoincPrefs
    <3> QED
      BY <2>2, <3>1
  <2> QED
    BY <2>1, <2>2
<1>3. BoincRuns(prefs, now, idle)
         <=> (idle < prefs.idle_time_to_run => prefs.run_if_user_active) /\ Open
  BY DEF BoincRuns
<1> HIDE DEF prefs, Open
<1>4. BoincRuns(prefs, now, idle) <=>
         (p.enabled => /\ p.restrict_hours => WithinActiveHours(p.start, p.end, now)
                       /\ p.only_when_idle => idle >= p.idle_threshold)
  BY <1>1, <1>2, <1>3
<1> QED
  BY <1>4 DEF prefs

\* Under one policy and at one hour, the engines differ exactly if the policy
\* asks for an idle machine, its hours let both run, and logind and BOINC
\* disagree on whether the machine is idle.
LEMMA EnginesDifferOn ==
    ASSUME NEW p \in PolicyType, NEW now \in HourOfDay, NEW inUse \in BOOLEAN,
           NEW idle \in Nat
    PROVE  ~(BoincRuns(BoincPrefs(p), now, idle) <=> ShouldRun(p, now, inUse)) <=>
              /\ p.enabled /\ p.only_when_idle
              /\ p.restrict_hours => WithinActiveHours(p.start, p.end, now)
              /\ inUse <=> idle >= p.idle_threshold
  BY BoincRunsOn, Zenon DEF ShouldRun

(***************************************************************************)
(* Type correctness.                                                       *)
(***************************************************************************)
\* The rule's answer is one of FAHClient's modes.
LEMMA WantedIsMode ==
    ASSUME NEW p PROVE Wanted(p) \in Modes
  BY DEF Wanted, Modes

\* Initially every variable has its type.
LEMMA EnforcementInitType == EnforcementInit => EnforcementTypeOK
  BY PoliciesAssumption DEF EnforcementInit, EnforcementTypeOK, Modes, SessionStates

\* Every step keeps the types.
LEMMA EnforcementStepType ==
    EnforcementTypeOK /\ [EnforcementNext]_vars => EnforcementTypeOK'
<1> SUFFICES ASSUME EnforcementTypeOK, [EnforcementNext]_vars
             PROVE  EnforcementTypeOK'
  OBVIOUS
<1> USE DEF EnforcementTypeOK, holderVars, loopVars, worldVars
<1>1. CASE \E p \in Policies : Receive(p)
  BY <1>1 DEF Receive
<1>2. ASSUME Check PROVE /\ seen' \in Policies /\ want' \in Modes
                         /\ pc' \in {"start", "calling", "landed", "waiting"}
                         /\ last' \in Modes \cup {"unset"}
  BY <1>2, WantedIsMode DEF Check
<1>3. CASE FirstCheck
  BY <1>2, <1>3 DEF FirstCheck
<1>4. CASE Wakes
  BY <1>2, <1>4 DEF Wakes
<1>5. CASE CallLands \/ CallReturns
  BY <1>5 DEF CallLands, CallReturns
<1>6. CASE CallFails
  BY <1>6 DEF CallFails
<1>7. CASE \E mode \in Modes : AdminCommand(mode)
  BY <1>7 DEF AdminCommand
<1>8. CASE NodeRestart
  BY <1>8, PoliciesAssumption DEF NodeRestart, Modes
<1>9. CASE Tick
  <2>1. hour' \in HourOfDay
    BY <1>9, HoursAssumption DEF Tick, HourOfDay
  <2> QED
    BY <1>9, <2>1 DEF Tick
<1>10. CASE \E u \in Users, state \in SessionStates : SessionChanges(u, state)
  BY <1>10 DEF SessionChanges
<1>11. CASE LogindChanges
  BY <1>11 DEF LogindChanges
<1>12. CASE UNCHANGED vars
  BY <1>12 DEF vars
<1> QED
  BY <1>1, <1>3, <1>4, <1>5, <1>6, <1>7, <1>8, <1>9, <1>10, <1>11, <1>12
     DEF EnforcementNext

\* Every variable keeps its type: the holder's policy is one of the hub's, the
\* loop's locals and FAHClient's mode are well formed, the clock stays in the
\* day.
THEOREM EnforcementTypeCorrect == EnforcementSpec => []EnforcementTypeOK
<1>1. EnforcementInit /\ [][EnforcementNext]_vars => []EnforcementTypeOK
  BY EnforcementInitType, EnforcementStepType, PTL
<1> QED
  BY <1>1, PTL DEF EnforcementSpec

(***************************************************************************)
(* The loop.                                                               *)
(***************************************************************************)
\* From the check on, the loop's policy is the holder's or the event is set;
\* from the call on, FAHClient is in the mode it was called to, or overruled.
LoopInv ==
    /\ pc # "start" /\ ~changed => seen = policy
    /\ pc = "landed" => fah = want \/ overruled
    /\ pc = "waiting" => last = want
    /\ last # "unset" /\ pc # "landed" => fah = last \/ overruled

\* Every step keeps LoopInv.
LEMMA LoopInvStep ==
    EnforcementTypeOK /\ LoopInv /\ [EnforcementNext]_vars => LoopInv'
<1> SUFFICES ASSUME EnforcementTypeOK, LoopInv, [EnforcementNext]_vars
             PROVE  LoopInv'
  OBVIOUS
<1> USE DEF LoopInv, EnforcementTypeOK, holderVars, loopVars, worldVars
<1>1. CASE \E p \in Policies : Receive(p)
  BY <1>1 DEF Receive
<1>2. CASE FirstCheck
  BY <1>2, WantedIsMode DEF FirstCheck, Check, Modes
<1>3. CASE Wakes
  BY <1>3, WantedIsMode DEF Wakes, Check, Modes
<1>4. CASE CallLands
  BY <1>4 DEF CallLands
<1>5. CASE CallReturns
  BY <1>5 DEF CallReturns
<1>6. CASE CallFails
  BY <1>6 DEF CallFails
<1>7. CASE \E mode \in Modes : AdminCommand(mode)
  <2>1. overruled' /\ UNCHANGED <<pc, seen, want, last, policy, changed>>
    BY <1>7, Zenon DEF AdminCommand
  <2> QED
    BY <2>1
<1>8. CASE NodeRestart
  BY <1>8 DEF NodeRestart
<1>9. CASE \/ Tick \/ LogindChanges
           \/ \E u \in Users, state \in SessionStates : SessionChanges(u, state)
  BY <1>9 DEF Tick, LogindChanges, SessionChanges
<1>10. CASE UNCHANGED vars
  BY <1>10 DEF vars
<1> QED
  BY <1>1, <1>2, <1>3, <1>4, <1>5, <1>6, <1>7, <1>8, <1>9, <1>10
     DEF EnforcementNext

\* LoopInv holds throughout.
LEMMA LoopInvariant == EnforcementSpec => []LoopInv
<1>1. EnforcementInit => LoopInv
  BY DEF EnforcementInit, LoopInv
<1>2. EnforcementInit /\ [][EnforcementNext]_vars => []LoopInv
  BY <1>1, EnforcementInitType, EnforcementStepType, LoopInvStep, PTL
<1> QED
  BY <1>2, PTL DEF EnforcementSpec

\* No wake-up is lost: a loop that waits with its event clear has acted on the
\* policy the holder has.
THEOREM EnforcementNoLostWakeup == EnforcementSpec => []NoLostWakeup
<1>1. LoopInv => NoLostWakeup
  BY DEF LoopInv, NoLostWakeup
<1> QED
  BY <1>1, LoopInvariant, PTL

\* While the loop waits, FAHClient does what the loop remembers, unless
\* overruled.
THEOREM EnforcementLastIsDone == EnforcementSpec => []LastIsDone
<1>1. EnforcementTypeOK /\ LoopInv => LastIsDone
  BY DEF LoopInv, LastIsDone, EnforcementTypeOK, Modes
<1> QED
  BY <1>1, LoopInvariant, EnforcementTypeCorrect, PTL

\* At every moment, for any policies and any thresholds, BOINC and
\* Folding@home differ only over what they take for an idle machine, and there
\* whenever the hours let them.
THEOREM EnforcementEnginesDifferOnlyOnIdle ==
    EnforcementSpec => []EnginesDifferOnlyOnIdle
<1>1. EnforcementTypeOK => EnginesDifferOnlyOnIdle
  BY EnginesDifferOn, PoliciesAssumption, IdleTimesAssumption
  DEF EnginesDifferOnlyOnIdle, EnforcementTypeOK
<1> QED
  BY <1>1, EnforcementTypeCorrect, PTL

\* At every moment the active hours are the window from start to end.
THEOREM EnforcementHoursAreWindow == EnforcementSpec => []HoursAreWindow
<1>1. EnforcementTypeOK => HoursAreWindow
  BY WithinIsWindow DEF HoursAreWindow, EnforcementTypeOK
<1> QED
  BY <1>1, EnforcementTypeCorrect, PTL

-----------------------------------------------------------------------------
(***************************************************************************)
(* Enforcement.  The prover has no rule for ENABLED, so what WF and SF     *)
(* need to know of it is a premise, which TLC checks on an instance: a     *)
(* loop whose conditions hold can take its step.  (One that wakes to find  *)
(* nothing new may change no variable at all, hence "Wanted # last".)      *)
(***************************************************************************)
LoopReady ==
    /\ pc = "start" => ENABLED <<FirstCheck>>_vars
    /\ pc = "waiting" /\ Wanted(policy) # last => ENABLED <<Wakes>>_vars
    /\ pc = "calling" => ENABLED <<CallLands>>_vars
    /\ pc = "landed" => ENABLED <<CallReturns>>_vars

\* The policy, the clock and the sessions call for mode, FAHClient is in the
\* other mode, and nobody has overruled the loop.
Owed(mode) == Wanted(policy) = mode /\ fah # mode /\ ~overruled

\* While a mode is owed, a loop that has begun anew or waits finds it so, and
\* calls for it; a call for it that ends, or fails, ends the debt; and a call
\* under way for the other mode is the last of its kind.
LEMMA OwedStep ==
    ASSUME NEW mode \in Modes, EnforcementTypeOK, LoopInv, Owed(mode),
           [EnforcementNext]_vars, Owed(mode)'
    PROVE  \/ UNCHANGED <<pc, want>>
           \/ pc' = "start"
           \/ pc \in {"start", "waiting"} /\ pc' = "calling" /\ want' = mode
           \/ pc = "calling" /\ want # mode /\ pc' \in {"landed", "waiting"}
           \/ pc = "landed" /\ pc' = "waiting"
<1> USE DEF Owed, LoopInv, EnforcementTypeOK, Modes
<1>1. CASE \E p \in Policies : Receive(p)
  BY <1>1 DEF Receive, loopVars
<1>2. ASSUME Check, Wanted(policy) = mode, last # mode
      PROVE  pc' = "calling" /\ want' = mode
  BY <1>2 DEF Check
<1>3. CASE FirstCheck
  BY <1>2, <1>3 DEF FirstCheck
<1>4. CASE Wakes
  BY <1>2, <1>4 DEF Wakes
<1>5. CASE CallLands
  BY <1>5 DEF CallLands
<1>6. CASE CallReturns
  BY <1>6 DEF CallReturns
<1>7. CASE CallFails
  BY <1>7 DEF CallFails
<1>8. CASE \E m \in Modes : AdminCommand(m)
  BY <1>8 DEF AdminCommand
<1>9. CASE NodeRestart
  BY <1>9 DEF NodeRestart
<1>10. CASE \/ Tick \/ LogindChanges
            \/ \E u \in Users, state \in SessionStates : SessionChanges(u, state)
  BY <1>10 DEF Tick, LogindChanges, SessionChanges, loopVars
<1>11. CASE UNCHANGED vars
  BY <1>11 DEF vars, loopVars
<1> QED
  BY <1>1, <1>3, <1>4, <1>5, <1>6, <1>7, <1>8, <1>9, <1>10, <1>11
  DEF EnforcementNext

\* One mode of Enforced.
LEMMA EnforcedMode ==
    ASSUME NEW mode \in Modes
    PROVE  EnforcementSpec /\ []LoopReady
               => (Wanted(policy) = mode
                      ~> (fah = mode \/ Wanted(policy) # mode \/ overruled))
<1> DEFINE Inv     == EnforcementTypeOK /\ LoopInv
           Due     == Owed(mode)
           Starts  == pc = "start"
           Waits   == pc = "waiting"
           Lands   == pc = "landed"
           Calls   == pc = "calling" /\ want = mode
           Strays  == pc = "calling" /\ want # mode
           Asked   == Wanted(policy) = mode
           Settled == fah = mode \/ Wanted(policy) # mode \/ overruled
<1>1. Inv /\ Due => Starts \/ Waits \/ Calls \/ (Lands \/ Strays)
  BY DEF EnforcementTypeOK
<1>2. Inv /\ Due /\ Due' /\ [EnforcementNext]_vars
        => /\ Starts => Starts' \/ Calls'
           /\ Waits => Waits' \/ Calls' \/ Starts'
           /\ Calls => Calls' \/ Starts'
           /\ Lands => Lands' \/ Waits' \/ Starts'
           /\ Strays => Strays' \/ Lands' \/ Waits' \/ Starts'
  <2> SUFFICES ASSUME Inv, Due, Due', [EnforcementNext]_vars
               PROVE  /\ Starts => Starts' \/ Calls'
                      /\ Waits => Waits' \/ Calls' \/ Starts'
                      /\ Calls => Calls' \/ Starts'
                      /\ Lands => Lands' \/ Waits' \/ Starts'
                      /\ Strays => Strays' \/ Lands' \/ Waits' \/ Starts'
    OBVIOUS
  <2> QED
    BY OwedStep
<1>3. Inv /\ Due /\ FirstCheck => ~Starts'
  BY DEF FirstCheck, Check
<1>4. Inv /\ Due /\ Waits /\ Wakes => ~Waits'
  BY DEF Wakes, Check, Owed, LoopInv, EnforcementTypeOK, Modes
<1>5. /\ Calls /\ CallLands => ~Due'
      /\ CallLands => Calls \/ (Strays /\ ~Starts /\ ~Waits)
      /\ CallLands => ~Strays'
  BY DEF CallLands, Owed
<1>6. CallReturns => ~Lands'
  BY DEF CallReturns
<1>7. Inv /\ Due /\ LoopReady
        => /\ Starts => ENABLED <<FirstCheck>>_vars
           /\ Waits => ENABLED <<Wakes>>_vars
           /\ Calls \/ Strays => ENABLED <<CallLands>>_vars
           /\ Lands => ENABLED <<CallReturns>>_vars
  BY DEF LoopReady, Owed, LoopInv, EnforcementTypeOK, Modes
<1>8. EnforcementSpec => []Inv
  BY EnforcementTypeCorrect, LoopInvariant, PTL
<1>9. /\ Asked <=> Wanted(policy) = mode
      /\ Settled <=> fah = mode \/ Wanted(policy) # mode \/ overruled
      /\ Settled <=> ~Due
  BY DEF Owed
<1> HIDE DEF Inv, Due, Starts, Waits, Lands, Calls, Strays, Asked, Settled
<1>10. EnforcementSpec /\ []LoopReady => (Due ~> ~Due)
  BY <1>1, <1>2, <1>3, <1>4, <1>5, <1>6, <1>7, <1>8, PTL
  DEF EnforcementSpec, EnforcementFairness
<1> QED
  BY <1>9, <1>10, PTL

\* Once the policy, the clock and the sessions call for a mode and keep calling
\* for it, FAHClient gets there unless overruled; for any policies, any hours
\* and any number of users, with calls that fail and a node that restarts.
THEOREM EnforcementEnforced ==
    EnforcementSpec /\ []LoopReady => Enforced
  BY EnforcedMode DEF Enforced
=============================================================================
