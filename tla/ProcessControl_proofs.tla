------------------------ MODULE ProcessControl_proofs -------------------------
(***************************************************************************)
(* Proofs about ProcessControl: type correctness, that only a process of   *)
(* the program's is signalled, and that the program is started once, for   *)
(* any number of pids, command loops and project entries.                  *)
(***************************************************************************)
EXTENDS ProcessControl, TLAPS

ProcType == {"free", "starting", "running", "zombie", "other"}
LoopType == [pc : {"idle", "launch", "signal", "attach"},
             pid : Pids \cup {NoPid}, late : BOOLEAN]

\* Marking loops late changes nothing else about them.
LEMMA OvertakenType ==
    ASSUME loop \in [Loops -> LoopType], NEW c, NEW p
    PROVE  /\ Overtaken(c, p) \in [Loops -> LoopType]
           /\ \A k \in Loops :
                 /\ Overtaken(c, p)[k].pc = loop[k].pc
                 /\ Overtaken(c, p)[k].pid = loop[k].pid
                 /\ ~Overtaken(c, p)[k].late <=>
                       (~loop[k].late /\ ~(loop[k].pc = c /\ loop[k].pid = p))
<1>1. ASSUME NEW k \in Loops, loop[k].pc = c /\ loop[k].pid = p
      PROVE  /\ Overtaken(c, p)[k] = [loop[k] EXCEPT !.late = TRUE]
             /\ [loop[k] EXCEPT !.late = TRUE] \in LoopType
             /\ [loop[k] EXCEPT !.late = TRUE].pc = loop[k].pc
             /\ [loop[k] EXCEPT !.late = TRUE].pid = loop[k].pid
             /\ [loop[k] EXCEPT !.late = TRUE].late = TRUE
  <2>1. loop[k] \in LoopType
    OBVIOUS
  <2>2. Overtaken(c, p)[k] = [loop[k] EXCEPT !.late = TRUE]
    BY <1>1 DEF Overtaken
  <2> QED
    BY <2>1, <2>2 DEF LoopType
<1>2. ASSUME NEW k \in Loops, ~(loop[k].pc = c /\ loop[k].pid = p)
      PROVE  Overtaken(c, p)[k] = loop[k]
  BY <1>2 DEF Overtaken
<1>3. Overtaken(c, p) = [k \in Loops |-> Overtaken(c, p)[k]]
  BY DEF Overtaken
<1>4. \A k \in Loops : Overtaken(c, p)[k] \in LoopType
  BY <1>1, <1>2
<1>5. Overtaken(c, p) \in [Loops -> LoopType]
  BY <1>3, <1>4
<1> QED
  BY <1>1, <1>2, <1>5

-----------------------------------------------------------------------------
(***************************************************************************)
(* Types.                                                                  *)
(***************************************************************************)
LEMMA InitTypes == ProcessInit => ProcessTypeOK
<1> SUFFICES ASSUME ProcessInit PROVE ProcessTypeOK
  OBVIOUS
<1>1. Idle \in LoopType
  BY DEF Idle, LoopType
<1>2. loop \in [Loops -> LoopType]
  BY <1>1 DEF ProcessInit
<1>3. stale \in BOOLEAN /\ blind \in BOOLEAN
  BY DEF ProcessInit
<1>4. proc \in [Pids -> ProcType]
  BY DEF ProcessInit, ProcType
<1>5. /\ active \in {"gimps", "watch", "boinc"} /\ shows \subseteq {"running", "zombie"}
      /\ reapers \subseteq children
      /\ copies \subseteq {p \in Pids : proc[p] = "running"} \ children
      /\ children \subseteq {p \in Pids : proc[p] \in {"starting", "running", "zombie"}}
      /\ pidFile \in Pids \cup {NoPid}
  BY DEF ProcessInit
<1>6. entries \in 0..MaxEntries /\ pending \in 0..MaxEntries
  BY ProcessAssumption DEF ProcessInit
<1> QED
  BY <1>2, <1>3, <1>4, <1>5, <1>6 DEF ProcessTypeOK, LoopType, ProcType

LEMMA StepTypes == ProcessTypeOK /\ [ProcessNext]_processVars => ProcessTypeOK'
<1> SUFFICES ASSUME ProcessTypeOK, [ProcessNext]_processVars
             PROVE  ProcessTypeOK'
  OBVIOUS
<1> USE ProcessAssumption DEF LoopType
<1>0. loop \in [Loops -> LoopType]
  BY DEF ProcessTypeOK
<1>a. \A c, p : Overtaken(c, p) \in [Loops -> LoopType]
  BY <1>0, OvertakenType
<1>b. Idle \in LoopType
  BY DEF Idle
<1>1. ASSUME NEW k \in Loops, StartLooks(k) PROVE ProcessTypeOK'
  BY <1>0, <1>1 DEF givenVars, StartLooks, ProcessTypeOK, osVars, fileVars, boincVars
<1>2. ASSUME NEW k \in Loops, Launch(k) PROVE ProcessTypeOK'
  <2>1. loop' \in [Loops -> LoopType]
    BY <1>2, <1>a, <1>b DEF Launch
  <2>2. blind' \in BOOLEAN
    BY <1>2 DEF givenVars, Launch, ProcessTypeOK
  <2> QED
    BY <1>2, <2>1, <2>2 DEF givenVars, Launch, ProcessTypeOK, fileVars, boincVars
<1>3. ASSUME NEW k \in Loops, StopLooks(k) PROVE ProcessTypeOK'
  <2>1. Reported \subseteq Pids
    BY DEF Reported, PidAlive, FindProcess
  <2>2. loop' \in [Loops -> LoopType]
    BY <1>0, <1>3, <2>1 DEF givenVars, StopLooks, ProcessTypeOK
  <2> QED
    BY <1>3, <2>2 DEF givenVars, StopLooks, ProcessTypeOK, osVars, fileVars, boincVars
<1>4. ASSUME NEW k \in Loops, Signal(k) PROVE ProcessTypeOK'
  BY <1>0, <1>b, <1>4 DEF givenVars, Signal, ProcessTypeOK, osVars, fileVars, boincVars
<1>5. ASSUME NEW k \in Loops, NEW canonical \in BOOLEAN, AttachLooks(k, canonical)
      PROVE  ProcessTypeOK'
  BY <1>0, <1>5 DEF givenVars, AttachLooks, ProcessTypeOK, osVars, fileVars, boincVars
<1>6. ASSUME NEW k \in Loops, AttachCalls(k) PROVE ProcessTypeOK'
  <2>1. loop' \in [Loops -> LoopType]
    BY <1>0, <1>6, <1>a, <1>b DEF AttachCalls
  <2>2. blind' \in BOOLEAN
    BY <1>6 DEF AttachCalls, ProcessTypeOK
  <2>3. pending' \in 0..MaxEntries
    BY <1>6 DEF AttachCalls, ProcessTypeOK
  <2> QED
    BY <1>6, <2>1, <2>2, <2>3 DEF givenVars, AttachCalls, ProcessTypeOK, osVars, fileVars
<1>7. ASSUME NEW p \in Pids, WritesPidFile(p) PROVE ProcessTypeOK'
  BY <1>7 DEF givenVars, WritesPidFile, ProcessTypeOK, boincVars
<1>c. ASSUME NEW p \in Pids, Frees(p)
      PROVE  /\ proc' \in [Pids -> ProcType]
             /\ reapers' \subseteq children'
             /\ copies' \subseteq {q \in Pids : proc'[q] = "running"} \ children'
             /\ children' \subseteq {q \in Pids : proc'[q] \in {"starting", "running", "zombie"}}
             /\ loop' \in [Loops -> LoopType]
  BY <1>a, <1>c DEF Frees, ProcessTypeOK, ProcType
<1>8. ASSUME NEW p \in Pids, Exits(p) PROVE ProcessTypeOK'
  <2>1. /\ pidFile' \in Pids \cup {NoPid} /\ stale' \in BOOLEAN
        /\ UNCHANGED <<active, shows, entries, pending, blind>>
    BY <1>8 DEF givenVars, Exits, ProcessTypeOK, boincVars
  <2>2. CASE p \in children
    BY <1>8, <2>1, <2>2 DEF givenVars, Exits, ProcessTypeOK
  <2>3. CASE p \notin children
    <3>1. Frees(p)
      BY <1>8, <2>3 DEF Exits
    <3> QED
      BY <1>c, <2>1, <3>1 DEF ProcessTypeOK, ProcType
  <2> QED
    BY <2>2, <2>3
<1>9. ASSUME NEW p \in Pids, Reap(p) \/ OtherEnds(p) PROVE ProcessTypeOK'
  BY <1>9, <1>c DEF givenVars, Reap, OtherEnds, ProcessTypeOK, ProcType, fileVars, boincVars
<1>10. ASSUME NEW p \in Pids, UserStarts(p) PROVE ProcessTypeOK'
  BY <1>10, <1>a DEF givenVars, UserStarts, ProcessTypeOK, fileVars, boincVars
<1>11. ASSUME NEW p \in Pids, OtherStarts(p) PROVE ProcessTypeOK'
  BY <1>11 DEF givenVars, OtherStarts, ProcessTypeOK, fileVars, boincVars
<1>12. ASSUME NodeRestart PROVE ProcessTypeOK'
  BY <1>12, <1>b DEF givenVars, NodeRestart, ProcessTypeOK, fileVars, boincVars
<1>13. ASSUME AttachSettles PROVE ProcessTypeOK'
  BY <1>13 DEF givenVars, AttachSettles, ProcessTypeOK, osVars, fileVars
<1>14. ASSUME Detach PROVE ProcessTypeOK'
  BY <1>14 DEF givenVars, Detach, ProcessTypeOK, osVars, fileVars
<1>15. CASE UNCHANGED processVars
  BY <1>15 DEF givenVars, processVars, ProcessTypeOK, osVars, fileVars, boincVars
<1> QED
  BY <1>1, <1>2, <1>3, <1>4, <1>5, <1>6, <1>7, <1>8, <1>9, <1>10, <1>11,
     <1>12, <1>13, <1>14, <1>15 DEF ProcessNext

\* Every step of the plugins and their environment keeps the state well typed.
THEOREM ProcessTypeCorrect == ProcessSpec => []ProcessTypeOK
<1>1. ProcessSpec => ProcessInit /\ [][ProcessNext]_processVars
  BY DEF ProcessSpec
<1> QED
  BY <1>1, InitTypes, StepTypes, PTL

-----------------------------------------------------------------------------
(***************************************************************************)
(* What a loop that is about to signal has found.                          *)
(***************************************************************************)
\* Only a loop about to signal names a pid; only mprime is slow to write its
\* file; a pid file that is not stale names a running mprime; and a loop that
\* is not late is about to signal the program or its zombie.
SignalInv ==
    /\ \A k \in Loops : loop[k].pc # "signal" => loop[k].pid = NoPid
    /\ \A k \in Loops : loop[k].pc = "signal" => loop[k].pid \in Pids
    /\ active # "gimps" => \A p \in Pids : proc[p] # "starting"
    /\ (pidFile # NoPid /\ ~stale) => proc[pidFile] = "running"
    /\ \A k \in Loops :
          (loop[k].pc = "signal" /\ ~loop[k].late)
             => proc[loop[k].pid] \in {"starting", "running", "zombie"}

LEMMA SignalInit == ProcessInit => SignalInv
  BY DEF ProcessInit, SignalInv, Idle

\* A pid that becomes free makes everybody late who was about to signal it.
LEMMA FreesSignal ==
    ASSUME ProcessTypeOK, SignalInv, NEW p \in Pids, Frees(p),
           (pidFile' # NoPid /\ ~stale') =>
               /\ pidFile' = pidFile /\ ~stale
               /\ p # pidFile \/ proc[p] # "running",
           active' = active
    PROVE  SignalInv'
<1>0. loop \in [Loops -> LoopType]
  BY DEF ProcessTypeOK, LoopType
<1>1. /\ \A k \in Loops : loop'[k].pc = loop[k].pc
      /\ \A k \in Loops : loop'[k].pid = loop[k].pid
      /\ \A k \in Loops : ~loop'[k].late =>
            (~loop[k].late /\ ~(loop[k].pc = "signal" /\ loop[k].pid = p))
  BY <1>0, OvertakenType DEF Frees
<1>2. \A q \in Pids : proc'[q] = IF q = p THEN "free" ELSE proc[q]
  BY DEF Frees, ProcessTypeOK
<1>3. (pidFile' # NoPid /\ ~stale') => proc'[pidFile'] = "running"
  BY <1>2 DEF SignalInv, ProcessTypeOK
<1> QED
  BY <1>1, <1>2, <1>3 DEF SignalInv

LEMMA SignalStep ==
    ProcessTypeOK /\ SignalInv /\ [ProcessNext]_processVars => SignalInv'
<1> SUFFICES ASSUME ProcessTypeOK, SignalInv, [ProcessNext]_processVars
             PROVE  SignalInv'
  OBVIOUS
<1> USE ProcessAssumption DEF givenVars
<1>0. loop \in [Loops -> LoopType]
  BY DEF ProcessTypeOK, LoopType
<1>p. proc \in [Pids -> ProcType]
  BY DEF ProcessTypeOK, ProcType
<1>1. ASSUME NEW k \in Loops, StartLooks(k) PROVE SignalInv'
  BY <1>0, <1>1 DEF StartLooks, SignalInv, osVars, fileVars, boincVars
<1>2. ASSUME NEW k \in Loops, Launch(k) PROVE SignalInv'
  <2>1. /\ \A j \in Loops : j # k => loop'[j] = Overtaken("launch", NoPid)[j]
        /\ loop'[k] = Idle
    BY <1>0, <1>2, OvertakenType DEF Launch
  <2>2. PICK q \in Pids :
          /\ proc[q] = "free"
          /\ proc' = [proc EXCEPT ![q] = IF active = "gimps" THEN "starting" ELSE "running"]
    BY <1>2 DEF Launch
  <2>3. \A j \in Loops : j # k =>
          /\ loop'[j].pc = loop[j].pc
          /\ loop'[j].pid = loop[j].pid
          /\ ~loop'[j].late => ~loop[j].late
    BY <1>0, <2>1, OvertakenType
  <2>4. loop'[k].pc = "idle" /\ loop'[k].pid = NoPid
    BY <2>1 DEF Idle
  <2>5. active' = active /\ pidFile' = pidFile /\ stale' = stale
    BY <1>2 DEF Launch, fileVars
  <2>6. \A p \in Pids : /\ p # q => proc'[p] = proc[p]
                        /\ p = q => proc'[p] \in {"starting", "running"}
                        /\ (p = q /\ active # "gimps") => proc'[p] = "running"
    BY <1>p, <2>2
  <2> QED
    BY <2>2, <2>3, <2>4, <2>5, <2>6 DEF SignalInv, ProcessTypeOK
<1>3. ASSUME NEW k \in Loops, StopLooks(k) PROVE SignalInv'
  <2>1. PICK p \in Reported :
          loop' = [loop EXCEPT ![k] = [pc |-> "signal", pid |-> p, late |-> stale]]
    BY <1>3 DEF StopLooks
  <2>2. p \in Pids
    BY DEF Reported, PidAlive, FindProcess
  <2>3. ~stale => proc[p] \in {"running", "zombie"}
    BY <1>3, <2>2 DEF StopLooks, Reported, PidAlive, FindProcess, SignalInv, ProcessTypeOK
  <2>4. /\ \A j \in Loops : j # k => loop'[j] = loop[j]
        /\ loop'[k].pc = "signal" /\ loop'[k].pid = p
        /\ loop'[k].late = stale
    BY <1>0, <2>1
  <2> QED
    BY <1>3, <2>2, <2>3, <2>4 DEF StopLooks, SignalInv, osVars, fileVars
<1>4. ASSUME NEW k \in Loops, Signal(k) PROVE SignalInv'
  BY <1>0, <1>4 DEF Signal, SignalInv, osVars, fileVars, boincVars, Idle
<1>5. ASSUME NEW k \in Loops, NEW canonical \in BOOLEAN, AttachLooks(k, canonical)
      PROVE  SignalInv'
  BY <1>0, <1>5 DEF AttachLooks, SignalInv, osVars, fileVars, boincVars
<1>6. ASSUME NEW k \in Loops, AttachCalls(k) PROVE SignalInv'
  <2>1. \A j \in Loops : j # k =>
          /\ loop'[j].pc = loop[j].pc
          /\ loop'[j].pid = loop[j].pid
          /\ ~loop'[j].late => ~loop[j].late
    BY <1>0, <1>6, OvertakenType DEF AttachCalls
  <2>2. loop'[k] = Idle
    BY <1>0, <1>6, OvertakenType DEF AttachCalls
  <2>3. loop'[k].pc = "idle" /\ loop'[k].pid = NoPid
    BY <2>2 DEF Idle
  <2> QED
    BY <1>6, <2>1, <2>3 DEF AttachCalls, SignalInv, osVars, fileVars
<1>7. ASSUME NEW p \in Pids, WritesPidFile(p) PROVE SignalInv'
  BY <1>7, <1>p DEF WritesPidFile, SignalInv, ProcessTypeOK
<1>8. ASSUME NEW p \in Pids, Exits(p) PROVE SignalInv'
  <2>1. /\ \/ pidFile' = NoPid /\ stale' = FALSE
           \/ pidFile' = pidFile /\ stale' = (stale \/ pidFile = p)
        /\ active' = active
    BY <1>8 DEF Exits
  <2>2. CASE p \in children
    <3>1. loop' = loop /\ proc' = [proc EXCEPT ![p] = "zombie"]
      BY <1>8, <2>2 DEF Exits
    <3>2. \A q \in Pids : proc'[q] = IF q = p THEN "zombie" ELSE proc[q]
      BY <1>p, <3>1
    <3>3. (pidFile' # NoPid /\ ~stale') => proc'[pidFile'] = "running"
      BY <2>1, <3>2 DEF SignalInv, ProcessTypeOK
    <3> QED
      BY <2>1, <3>1, <3>2, <3>3 DEF SignalInv
  <2>3. CASE p \notin children
    <3>1. Frees(p)
      BY <1>8, <2>3 DEF Exits
    <3>2. (pidFile' # NoPid /\ ~stale') => /\ pidFile' = pidFile /\ ~stale
                                            /\ p # pidFile
      BY <2>1
    <3> QED
      BY <2>1, <3>1, <3>2, FreesSignal
  <2> QED
    BY <2>2, <2>3
<1>9. ASSUME NEW p \in Pids, Reap(p) \/ OtherEnds(p) PROVE SignalInv'
  <2>1. /\ Frees(p) /\ proc[p] # "running"
        /\ pidFile' = pidFile /\ stale' = stale /\ active' = active
    BY <1>9 DEF Reap, OtherEnds, fileVars
  <2> QED
    BY <2>1, FreesSignal
<1>10. ASSUME NEW p \in Pids, UserStarts(p) PROVE SignalInv'
  <2>1. \A j \in Loops :
          /\ loop'[j].pc = loop[j].pc
          /\ loop'[j].pid = loop[j].pid
          /\ ~loop'[j].late => ~loop[j].late
    BY <1>0, <1>10, OvertakenType DEF UserStarts
  <2> QED
    BY <1>10, <1>p, <2>1 DEF UserStarts, SignalInv, ProcessTypeOK, fileVars
<1>11. ASSUME NEW p \in Pids, OtherStarts(p) PROVE SignalInv'
  BY <1>11, <1>p DEF OtherStarts, SignalInv, ProcessTypeOK, fileVars
<1>12. ASSUME NodeRestart PROVE SignalInv'
  BY <1>12, <1>p DEF NodeRestart, SignalInv, ProcessTypeOK, fileVars, Idle
<1>13. CASE AttachSettles \/ Detach \/ UNCHANGED processVars
  BY <1>13 DEF AttachSettles, Detach, processVars, SignalInv, osVars, fileVars
<1> QED
  BY <1>1, <1>2, <1>3, <1>4, <1>5, <1>6, <1>7, <1>8, <1>9, <1>10, <1>11,
     <1>12, <1>13 DEF ProcessNext

\* stop() signals another's process only if its look was overtaken or mprime
\* had left its pid file behind.
THEOREM ProcessStopHitsOurs == ProcessSpec => []StopHitsOurs
<1>1. ProcessSpec => ProcessInit /\ [][ProcessNext]_processVars
  BY DEF ProcessSpec
<1>2. SignalInv => StopHitsOurs
  BY DEF SignalInv, StopHitsOurs
<1> QED
  BY <1>1, <1>2, InitTypes, StepTypes, SignalInit, SignalStep, PTL

-----------------------------------------------------------------------------
(***************************************************************************)
(* What a loop that is about to start something has seen.                  *)
(***************************************************************************)
\* As long as nothing was started blindly: one program but for the user's
\* copies, one entry; a loop that is not late acts on nothing; a running
\* mprime is in its pid file.
SeenAll ==
    /\ \A p, q \in Programs \ copies : p = q
    /\ active # "watch" => copies = {}
    /\ entries + pending <= 1
    /\ \A k \in Loops : (loop[k].pc = "launch" /\ ~loop[k].late) => Programs = {}
    /\ \A k \in Loops : (loop[k].pc = "attach" /\ ~loop[k].late) => entries = 0 /\ pending = 0
    /\ active = "gimps" => \A p \in Pids : proc[p] = "running" => pidFile = p

Unseen == active = "watch" /\ "running" \notin shows

SeenInv == blind \/ Unseen \/ SeenAll

LEMMA SeenInit == ProcessInit => SeenInv
  BY DEF ProcessInit, SeenInv, SeenAll, Programs, Idle

\* A sum that does not grow stays within the bounds SeenAll knows.
LEMMA SmallSum ==
    ASSUME NEW a \in Nat, NEW b \in Nat, NEW c \in Nat, NEW d \in Nat,
           c + d <= a + b, a + b <= 1
    PROVE  c + d <= 1
  OBVIOUS

LEMMA NoSum ==
    ASSUME NEW a \in Nat, NEW b \in Nat, NEW c \in Nat, NEW d \in Nat,
           c + d <= a + b, a = 0, b = 0
    PROVE  c = 0 /\ d = 0
  OBVIOUS

\* Programs and entries that only become fewer, and loops that only become
\* idle or late, keep it.
LEMMA FewerSeen ==
    ASSUME ProcessTypeOK, SeenAll,
           Programs' \subseteq Programs,
           copies' \subseteq copies, \A p \in Programs' : p \in copies => p \in copies',
           \A p \in Pids : proc'[p] = "running" => proc[p] = "running",
           entries' + pending' <= entries + pending,
           entries' \in Nat, pending' \in Nat,
           \A k \in Loops : loop'[k].pc \in {"launch", "attach"} /\ ~loop'[k].late
               => loop'[k].pc = loop[k].pc /\ ~loop[k].late,
           active' = active,
           \/ pidFile' = pidFile
           \/ active # "gimps"
           \/ Programs' = {}
    PROVE  SeenAll'
<1>1. /\ \A p, q \in Programs' \ copies' : p = q
      /\ active' # "watch" => copies' = {}
  BY DEF SeenAll
<1>2. \A k \in Loops : (loop'[k].pc = "launch" /\ ~loop'[k].late) => Programs' = {}
  BY DEF SeenAll
<1>n. entries \in Nat /\ pending \in Nat
  BY ProcessAssumption DEF ProcessTypeOK
<1>a. entries + pending <= 1
  BY DEF SeenAll
<1>b. entries' + pending' <= 1
  BY <1>n, <1>a, SmallSum
<1>c. ASSUME NEW k \in Loops, loop'[k].pc = "attach", ~loop'[k].late
      PROVE  entries' = 0 /\ pending' = 0
  <2>1. entries = 0 /\ pending = 0
    BY <1>c DEF SeenAll
  <2> QED
    BY <1>n, <2>1, NoSum
<1>3. /\ entries' + pending' <= 1
      /\ \A k \in Loops : (loop'[k].pc = "attach" /\ ~loop'[k].late)
                              => entries' = 0 /\ pending' = 0
  BY <1>b, <1>c
<1>4. active' = "gimps" => \A p \in Pids : proc'[p] = "running" => pidFile' = p
  BY DEF SeenAll, Programs
<1> QED
  BY <1>1, <1>2, <1>3, <1>4 DEF SeenAll

LEMMA SeenStep ==
    ProcessTypeOK /\ SignalInv /\ SeenInv /\ [ProcessNext]_processVars => SeenInv'
<1> SUFFICES ASSUME ProcessTypeOK, SignalInv, SeenInv, [ProcessNext]_processVars
             PROVE  SeenInv'
  OBVIOUS
<1> USE ProcessAssumption DEF givenVars
<1>0. loop \in [Loops -> LoopType] /\ proc \in [Pids -> ProcType]
  BY DEF ProcessTypeOK, LoopType, ProcType
<1>b. CASE blind
  <2>1. blind'
    BY <1>b DEF ProcessNext, StartLooks, Launch, StopLooks, Signal, AttachLooks,
       AttachCalls, WritesPidFile, Exits, Reap, UserStarts, OtherStarts,
       OtherEnds, NodeRestart, AttachSettles, Detach, processVars
  <2> QED
    BY <2>1 DEF SeenInv
<1>u. CASE Unseen
  <2>1. UNCHANGED givenVars
    BY DEF ProcessNext, StartLooks, Launch, StopLooks, Signal, AttachLooks,
       AttachCalls, WritesPidFile, Exits, Reap, UserStarts, OtherStarts,
       OtherEnds, NodeRestart, AttachSettles, Detach, processVars
  <2> QED
    BY <1>u, <2>1 DEF SeenInv, Unseen
<1>s. CASE ~blind /\ ~Unseen
  <2> USE <1>s
  <2>s. SeenAll
    BY DEF SeenInv
  <2>n. entries \in Nat /\ pending \in Nat
    BY DEF ProcessTypeOK
  <2>1. ASSUME NEW k \in Loops, StartLooks(k) PROVE SeenAll'
    <3>1. /\ \A j \in Loops : j # k => loop'[j] = loop[j]
          /\ loop'[k].pc = "launch"
          /\ loop'[k].late <=> \E p \in Pids : proc[p] = "starting"
      BY <1>0, <2>1 DEF StartLooks
    <3>2. Reported = {} /\ active \in {"gimps", "watch"}
      BY <2>1 DEF StartLooks
    <3>3. ~loop'[k].late => Programs = {}
      <4>1. SUFFICES ASSUME \A p \in Pids : proc[p] # "starting",
                            NEW p \in Pids, proc[p] = "running"
                     PROVE  FALSE
        BY <3>1 DEF Programs
      <4>2. CASE active = "gimps"
        BY <2>s, <3>2, <4>1, <4>2 DEF SeenAll, Reported, PidAlive
      <4>3. CASE active = "watch"
        BY <1>s, <3>2, <4>1, <4>3 DEF Reported, FindProcess, Unseen
      <4> QED
        BY <3>2, <4>2, <4>3
    <3>4. UNCHANGED <<active, copies, proc, pidFile, entries, pending>>
      BY <2>1 DEF StartLooks, osVars, fileVars, boincVars
    <3> QED
      BY <2>s, <3>1, <3>3, <3>4 DEF SeenAll, Programs
  <2>2. ASSUME NEW k \in Loops, Launch(k), ~blind' PROVE SeenAll'
    <3>1. loop[k].pc = "launch" /\ ~loop[k].late
      BY <2>2 DEF Launch
    <3>2. Programs = {}
      BY <2>s, <3>1 DEF SeenAll
    <3>3. PICK q \in Pids :
            proc' = [proc EXCEPT ![q] = IF active = "gimps" THEN "starting" ELSE "running"]
      BY <2>2 DEF Launch
    <3>4. Programs' = {q} /\ UNCHANGED copies
      BY <1>0, <2>2, <3>2, <3>3 DEF Launch, Programs
    <3>5. active = "gimps" => \A p \in Pids : proc'[p] # "running"
      BY <1>0, <3>2, <3>3 DEF Programs
    <3>6. \A j \in Loops : j # k =>
            /\ loop'[j].pc = loop[j].pc
            /\ ~loop'[j].late => ~loop[j].late
            /\ loop[j].pc = "launch" => loop'[j].late
      BY <1>0, <2>2, OvertakenType DEF Launch, SignalInv
    <3>7. loop'[k].pc = "idle"
      BY <1>0, <2>2, OvertakenType DEF Launch, Idle
    <3>8. UNCHANGED <<active, entries, pending>>
      BY <2>2 DEF Launch, boincVars
    <3> QED
      BY <2>s, <3>4, <3>5, <3>6, <3>7, <3>8 DEF SeenAll
  <2>3. ASSUME NEW k \in Loops, StopLooks(k) \/ Signal(k) PROVE SeenAll'
    <3>1. /\ \A j \in Loops : j # k => loop'[j] = loop[j]
          /\ loop'[k].pc \in {"signal", "idle"}
      BY <1>0, <2>3 DEF StopLooks, Signal, Idle
    <3>2. UNCHANGED <<active, copies, proc, pidFile, entries, pending>>
      BY <2>3 DEF StopLooks, Signal, osVars, fileVars, boincVars
    <3> QED
      BY <2>s, <3>1, <3>2 DEF SeenAll, Programs
  <2>4. ASSUME NEW k \in Loops, NEW canonical \in BOOLEAN, AttachLooks(k, canonical)
        PROVE  SeenAll'
    <3>1. /\ \A j \in Loops : j # k => loop'[j] = loop[j]
          /\ loop'[k].pc = "attach"
          /\ loop'[k].late <=> entries + pending > 0
      BY <1>0, <2>4 DEF AttachLooks
    <3>2. UNCHANGED <<active, copies, proc, pidFile, entries, pending>>
      BY <2>4 DEF AttachLooks, osVars, fileVars, boincVars
    <3> QED
      BY <2>s, <2>n, <3>1, <3>2 DEF SeenAll, Programs
  <2>5. ASSUME NEW k \in Loops, AttachCalls(k), ~blind' PROVE SeenAll'
    <3>1. loop[k].pc = "attach" /\ UNCHANGED <<active, copies, proc, pidFile, entries>>
      BY <2>5 DEF AttachCalls, osVars, fileVars
    <3>2. \A j \in Loops : j # k =>
            /\ loop'[j].pc = loop[j].pc
            /\ ~loop'[j].late => ~loop[j].late
      BY <1>0, <2>5, OvertakenType DEF AttachCalls
    <3>3. loop'[k].pc = "idle"
      BY <1>0, <2>5, OvertakenType DEF AttachCalls, Idle
    <3>4. CASE pending' = pending
      BY <2>s, <3>1, <3>2, <3>3, <3>4 DEF SeenAll, Programs
    <3>5. CASE pending' # pending
      <4>1. /\ pending' = pending + 1 /\ ~loop[k].late
            /\ loop' = [Overtaken("attach", NoPid) EXCEPT ![k] = Idle]
        BY <2>5, <2>n, <3>5 DEF AttachCalls
      <4>2. entries = 0 /\ pending = 0
        BY <2>s, <3>1, <4>1 DEF SeenAll
      <4>3. \A j \in Loops : loop'[j].pc = "attach" => loop'[j].late
        BY <1>0, <3>2, <3>3, <4>1, OvertakenType DEF SignalInv
      <4> QED
        BY <2>s, <2>n, <3>1, <3>2, <3>3, <4>1, <4>2, <4>3 DEF SeenAll, Programs
    <3> QED
      BY <3>4, <3>5
  <2>6. ASSUME NEW p \in Pids, WritesPidFile(p) PROVE SeenAll'
    <3>1. /\ p \in Programs /\ pidFile' = p
          /\ proc' = [proc EXCEPT ![p] = "running"]
          /\ UNCHANGED <<active, copies, loop, entries, pending>>
      BY <2>6 DEF WritesPidFile, Programs, boincVars
    <3>2. Programs' = Programs
      BY <1>0, <3>1 DEF Programs
    <3>3. \A q \in Pids : proc'[q] = "running" => q \in Programs
      BY <1>0, <3>1 DEF Programs
    <3> QED
      BY <2>s, <3>1, <3>2, <3>3 DEF SeenAll
  <2>f. ASSUME NEW p \in Pids, Frees(p)
        PROVE  /\ proc' = [proc EXCEPT ![p] = "free"] /\ copies' = copies \ {p}
               /\ \A k \in Loops : /\ loop'[k].pc = loop[k].pc
                                   /\ ~loop'[k].late => ~loop[k].late
    BY <1>0, <2>f, OvertakenType DEF Frees
  <2>7. ASSUME NEW p \in Pids, Exits(p) PROVE SeenAll'
    <3>1. /\ p \in Programs
          /\ UNCHANGED <<active, entries, pending>>
      BY <2>7 DEF Exits, boincVars
    <3>2. /\ \/ proc' = [proc EXCEPT ![p] = "zombie"]
             \/ proc' = [proc EXCEPT ![p] = "free"]
          /\ \A k \in Loops : /\ loop'[k].pc = loop[k].pc
                              /\ ~loop'[k].late => ~loop[k].late
          /\ copies' \in {copies, copies \ {p}}
      BY <2>7, <2>f DEF Exits
    <3>3. Programs' = Programs \ {p}
      BY <1>0, <3>1, <3>2 DEF Programs
    <3>5. active = "gimps" => Programs' = {}
      BY <2>s, <3>1, <3>3 DEF SeenAll
    <3>6. \A q \in Programs' : q \in copies => q \in copies'
      BY <3>2, <3>3
    <3>4. \A q \in Pids : proc'[q] = "running" => proc[q] = "running"
      BY <1>0, <3>2
    <3> QED
      BY <2>s, <2>n, <3>1, <3>2, <3>3, <3>4, <3>5, <3>6, FewerSeen
  <2>8. ASSUME NEW p \in Pids, Reap(p) \/ OtherEnds(p) PROVE SeenAll'
    <3>1. Frees(p) /\ UNCHANGED <<active, pidFile, entries, pending>>
      BY <2>8 DEF Reap, OtherEnds, fileVars, boincVars
    <3>2. /\ Programs' \subseteq Programs
          /\ \A q \in Pids : proc'[q] = "running" => proc[q] = "running"
          /\ copies' \subseteq copies /\ \A q \in Programs' : q \in copies => q \in copies'
      BY <1>0, <2>f, <3>1 DEF Programs
    <3> QED
      BY <2>s, <2>n, <2>f, <3>1, <3>2, FewerSeen
  <2>9. ASSUME NEW p \in Pids, UserStarts(p) PROVE SeenAll'
    <3>1. /\ active = "watch" /\ p \notin Programs
          /\ proc' = [proc EXCEPT ![p] = "running"]
          /\ copies' = IF Programs = {} THEN copies ELSE copies \cup {p}
          /\ UNCHANGED <<active, entries, pending>>
      BY <2>9 DEF UserStarts, boincVars, Programs
    <3>2. Programs' = Programs \cup {p}
      BY <1>0, <3>1 DEF Programs
    <3>3. \A k \in Loops :
            /\ loop'[k].pc = loop[k].pc
            /\ ~loop'[k].late => ~loop[k].late
            /\ loop[k].pc = "launch" => loop'[k].late
      BY <1>0, <2>9, OvertakenType DEF UserStarts, SignalInv
    <3>4. \A x, y \in Programs' \ copies' : x = y
      BY <2>s, <3>1, <3>2 DEF SeenAll
    <3> QED
      BY <2>s, <3>1, <3>3, <3>4 DEF SeenAll
  <2>10. ASSUME NEW p \in Pids, OtherStarts(p) PROVE SeenAll'
    <3>1. /\ proc' = [proc EXCEPT ![p] = "other"]
          /\ UNCHANGED <<active, copies, loop, pidFile, entries, pending>>
      BY <2>10 DEF OtherStarts, fileVars, boincVars
    <3>2. /\ Programs' \subseteq Programs
          /\ \A q \in Pids : proc'[q] = "running" => proc[q] = "running"
      BY <1>0, <3>1 DEF Programs
    <3> QED
      BY <2>s, <2>n, <3>1, <3>2, FewerSeen
  <2>11. ASSUME NodeRestart PROVE SeenAll'
    <3>1. /\ \A k \in Loops : loop'[k].pc = "idle"
          /\ UNCHANGED <<active, copies, pidFile, entries, pending>>
      BY <2>11 DEF NodeRestart, fileVars, boincVars, Idle
    <3>2. /\ Programs' \subseteq Programs
          /\ \A q \in Pids : proc'[q] = "running" => proc[q] = "running"
      BY <2>11 DEF NodeRestart, Programs
    <3> QED
      BY <2>s, <2>n, <3>1, <3>2, FewerSeen
  <2>12. ASSUME AttachSettles \/ Detach PROVE SeenAll'
    <3>1. /\ UNCHANGED <<active, copies, proc, pidFile, loop>>
          /\ entries' \in Nat /\ pending' \in Nat
          /\ entries' + pending' <= entries + pending
      BY <2>12, <2>n DEF AttachSettles, Detach, osVars, fileVars
    <3>2. Programs' = Programs
      BY <3>1 DEF Programs
    <3> QED
      BY <2>s, <3>1, <3>2, FewerSeen
  <2>13. ASSUME UNCHANGED processVars PROVE SeenAll'
    <3>1. UNCHANGED <<active, copies, proc, pidFile, loop, entries, pending>>
      BY <2>13 DEF processVars, osVars, fileVars, boincVars
    <3>2. Programs' = Programs
      BY <3>1 DEF Programs
    <3> QED
      BY <2>s, <3>1, <3>2 DEF SeenAll
  <2>14. CASE blind'
    BY <2>14 DEF SeenInv
  <2>15. CASE ~blind'
    BY <2>1, <2>2, <2>3, <2>4, <2>5, <2>6, <2>7, <2>8, <2>9, <2>10, <2>11,
       <2>12, <2>13, <2>15 DEF ProcessNext, SeenInv
  <2> QED
    BY <2>14, <2>15
<1> QED
  BY <1>b, <1>u, <1>s

\* A program whose name shows, and a project, is started twice only by a
\* command that had looked while another was being started, or under another
\* URL; the user may add copies.
THEOREM ProcessStartedOnce == ProcessSpec => []StartedOnce
<1>1. ProcessSpec => ProcessInit /\ [][ProcessNext]_processVars
  BY DEF ProcessSpec
<1>2. SeenInv => StartedOnce
  BY DEF SeenInv, SeenAll, Unseen, StartedOnce
<1> QED
  BY <1>1, <1>2, InitTypes, StepTypes, SignalInit, SignalStep, SeenInit,
     SeenStep, PTL

-----------------------------------------------------------------------------
(***************************************************************************)
(* Reaping.  The prover has no rule for ENABLED, so what WF needs to know  *)
(* of it is a premise, which TLC checks on an instance: a thread whose     *)
(* child has ended can take its step.                                      *)
(***************************************************************************)
ReaperReady ==
    \A p \in Pids : p \in reapers /\ proc[p] = "zombie" =>
        ENABLED <<Reap(p)>>_processVars

\* Every zombie is a child of this run of the node, and for every child there
\* is a thread that waits: start() never launches one without, and init takes
\* over what an earlier run has left.
ChildrenAwaited ==
    /\ reapers = children
    /\ \A p \in Pids : proc[p] = "zombie" => p \in children

LEMMA AwaitedStep ==
    ProcessTypeOK /\ ChildrenAwaited /\ [ProcessNext]_processVars
        => ChildrenAwaited'
<1> SUFFICES ASSUME ProcessTypeOK, ChildrenAwaited, [ProcessNext]_processVars
             PROVE  ChildrenAwaited'
  OBVIOUS
<1>1. proc \in [Pids -> ProcType]
  BY DEF ProcessTypeOK, ProcType
<1>2. ASSUME NEW k \in Loops, Launch(k) PROVE ChildrenAwaited'
  BY <1>1, <1>2 DEF Launch, ChildrenAwaited
<1>3. ASSUME NEW p \in Pids, Frees(p) PROVE ChildrenAwaited'
  BY <1>1, <1>3 DEF Frees, ChildrenAwaited
<1>4. ASSUME NEW p \in Pids, Exits(p) PROVE ChildrenAwaited'
  BY <1>1, <1>3, <1>4 DEF Exits, ChildrenAwaited
<1>5. ASSUME NEW p \in Pids, Reap(p) \/ OtherEnds(p) PROVE ChildrenAwaited'
  BY <1>3, <1>5 DEF Reap, OtherEnds
<1>6. ASSUME NEW p \in Pids, WritesPidFile(p) \/ OtherStarts(p) \/ UserStarts(p)
      PROVE ChildrenAwaited'
  BY <1>1, <1>6 DEF WritesPidFile, OtherStarts, UserStarts, ChildrenAwaited
<1>7. CASE NodeRestart
  BY <1>7 DEF NodeRestart, ChildrenAwaited
<1>8. CASE UNCHANGED osVars
  BY <1>8 DEF osVars, ChildrenAwaited
<1> QED
  BY <1>2, <1>4, <1>5, <1>6, <1>7, <1>8
  DEF ProcessNext, StartLooks, StopLooks, Signal, AttachLooks, AttachCalls,
      AttachSettles, Detach, processVars

\* No child of the node's is ever without the thread that reaps it, whatever
\* crashes, restarts and reuses of pids there are.
THEOREM ProcessChildrenAwaited == ProcessSpec => []ChildrenAwaited
<1>1. ProcessInit => ChildrenAwaited
  BY DEF ProcessInit, ChildrenAwaited
<1>2. ProcessSpec => ProcessInit /\ [][ProcessNext]_processVars
  BY DEF ProcessSpec
<1> QED
  BY <1>1, <1>2, AwaitedStep, ProcessTypeCorrect, PTL

LEMMA ZombieGoes ==
    ASSUME NEW p \in Pids
    PROVE  ProcessSpec /\ []ReaperReady
               => (proc[p] = "zombie" ~> proc[p] # "zombie")
<1> DEFINE Zombie == proc[p] = "zombie"
<1>1. ChildrenAwaited /\ ReaperReady
        => (Zombie => ENABLED <<Reap(p)>>_processVars)
  BY DEF ChildrenAwaited, ReaperReady
<1>2. ProcessTypeOK /\ Reap(p) => ~Zombie'
  BY DEF Reap, Frees, ProcessTypeOK
<1>3. ProcessFairness => FairReaper(p)
  BY DEF ProcessFairness
<1>4. Zombie <=> ~(proc[p] # "zombie")
  OBVIOUS
<1>5. Zombie <=> proc[p] = "zombie"
  OBVIOUS
<1> HIDE DEF Zombie
<1> QED
  BY <1>1, <1>2, <1>3, <1>4, <1>5, ProcessChildrenAwaited, ProcessTypeCorrect, PTL
  DEF ProcessSpec, FairReaper

\* A program that has ended does not stay a zombie, for any number of pids
\* and command loops.
THEOREM ProcessExitIsNoticed == ProcessSpec /\ []ReaperReady => ExitIsNoticed
  BY ZombieGoes DEF ExitIsNoticed
=============================================================================
