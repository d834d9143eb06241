-------------------------- MODULE Credentials_proofs --------------------------
(***************************************************************************)
(* Proofs about Accounts and Credentials, for any users, nodes, groups,    *)
(* grants, credentials, versions and any number of requests: the types,    *)
(* what a request between two of its commits knows, and from these the     *)
(* five safety invariants.                                                 *)
(***************************************************************************)
EXTENDS Credentials, TLAPS

GrantType == Grants \cup [role : {g.role : g \in Grants}, scope : {g.scope : g \in Grants}]

Things == Users \cup Nodes \cup Creds

CredType == {"unmade", "old", "new", "gone"}

PcType == {"idle", "read", "committed", "waiting", "done", "failed"}

OpType == {"none", "update", "create", "delete", "move", "newcred", "delcred", "apply"}

JobType == [op   : OpType,
            by   : Users \cup {None},
            on   : Things \cup {None},
            to   : GrantType \cup Groups \cup Versions \cup {Empty, None},
            seen : GrantType \cup {None} \cup Groups \cup {Empty} \cup Creds,
            todo : SUBSET Nodes]

\* What a request that has read and not yet committed is about.
AboutOK(op, x, to, seen) ==
    \/ op = "update" /\ x \in Users /\ to \in Grants /\ seen \in GrantType
    \/ op = "create" /\ x \in Users /\ to \in Grants /\ seen = None
    \/ op = "delete" /\ x \in Users /\ to = None /\ seen = None
    \/ op = "move" /\ x \in Nodes /\ to \in Groups \cup {Empty}
                   /\ seen \in Groups \cup {Empty}
    \/ op \in {"newcred", "delcred"} /\ x \in Creds /\ to = None /\ seen = None

ReadOK(k) ==
    /\ job[k].by \in Users /\ job[k].todo = {}
    /\ AboutOK(job[k].op, job[k].on, job[k].to, job[k].seen)

WaitOK(k) ==
    /\ job[k].op = "apply" /\ job[k].by \in Users
    /\ job[k].on \in Nodes /\ job[k].todo \subseteq Nodes \ {job[k].on}

JobsOK ==
    /\ job \in [Jobs -> JobType]
    /\ \A k \in Jobs : pc[k] = "read" => ReadOK(k)
    /\ \A k \in Jobs : pc[k] = "committed" =>
          /\ job[k].by \in Users /\ job[k].on \in Things
          /\ job[k].op \in {"update", "create"} => job[k].on \in Users
    /\ \A k \in Jobs : pc[k] = "waiting" => WaitOK(k)
    /\ hub # "up" => \A k \in Jobs : pc[k] \in {"idle", "done", "failed"}

TypeInv == AccessTypeOK /\ JobsOK

-----------------------------------------------------------------------------
\* A first step of a request: its row of job and pc, and all it leaves alone.
LEMMA StartsJob ==
    ASSUME pc \in [Jobs -> PcType], job \in [Jobs -> JobType],
           NEW k \in Jobs, NEW op, NEW u \in Users, NEW x, NEW to, NEW seen,
           AboutOK(op, x, to, seen), Starts(k, op, u, x, to, seen)
    PROVE  /\ hub = "up" /\ Row(u) /\ pc[k] = "idle"
           /\ pc' \in [Jobs -> PcType] /\ job' \in [Jobs -> JobType]
           /\ \A j \in Jobs : j # k => pc'[j] = pc[j] /\ job'[j] = job[j]
           /\ pc'[k] = "read"
           /\ job'[k] = [op |-> op, by |-> u, on |-> x, to |-> to,
                         seen |-> seen, todo |-> {}]
           /\ UNCHANGED <<hub, userVars, groupOf, changed, audit, stopped>>
<1>1. job' = [job EXCEPT ![k] = [op |-> op, by |-> u, on |-> x, to |-> to,
                                 seen |-> seen, todo |-> {}]]
  BY DEF Starts
<1>2. [op |-> op, by |-> u, on |-> x, to |-> to, seen |-> seen, todo |-> {}] \in JobType
  BY DEF JobType, AboutOK, OpType, Things, GrantType
<1> QED
  BY <1>1, <1>2 DEF Starts, PcType

LEMMA CommittedJob ==
    ASSUME pc \in [Jobs -> PcType], job \in [Jobs -> JobType],
           NEW k \in Jobs, Committed(k)
    PROVE  /\ pc' \in [Jobs -> PcType] /\ job' \in [Jobs -> JobType]
           /\ \A j \in Jobs : j # k => pc'[j] = pc[j] /\ job'[j] = job[j]
           /\ pc'[k] = "committed"
           /\ job'[k].op = job[k].op /\ job'[k].by = job[k].by
           /\ job'[k].on = job[k].on
           /\ changed' = changed \cup {<<k, job[k].on>>}
<1>1. job' = [job EXCEPT ![k] = [job[k] EXCEPT !.to = None, !.seen = None]]
  BY DEF Committed
<1>2. [job[k] EXCEPT !.to = None, !.seen = None] \in JobType
  BY DEF JobType
<1> QED
  BY <1>1, <1>2 DEF Committed, PcType, JobType

LEMMA EndsJob ==
    ASSUME pc \in [Jobs -> PcType], job \in [Jobs -> JobType],
           NEW k \in Jobs, NEW how \in {"done", "failed"}, Ends(k, how)
    PROVE  /\ pc' \in [Jobs -> PcType] /\ job' \in [Jobs -> JobType]
           /\ \A j \in Jobs : j # k => pc'[j] = pc[j] /\ job'[j] = job[j]
           /\ pc'[k] = how
           /\ how = "failed" => /\ job'[k].op = job[k].op
                                /\ job'[k].by = job[k].by
                                /\ job'[k].on = job[k].on
           /\ how = "done" => job'[k] = NoJob
<1>1. NoJob \in JobType
  BY DEF NoJob, JobType, OpType
<1>2. [job[k] EXCEPT !.to = None, !.seen = None, !.todo = {}] \in JobType
  BY DEF JobType
<1>3. job' = [job EXCEPT ![k] = IF how = "done" THEN NoJob
                 ELSE [job[k] EXCEPT !.to = None, !.seen = None, !.todo = {}]]
  BY DEF Ends
<1> QED
  BY <1>1, <1>2, <1>3 DEF Ends, PcType, JobType

-----------------------------------------------------------------------------
LEMMA InitTypes == AccessInit => TypeInv
<1> SUFFICES ASSUME AccessInit PROVE TypeInv
  OBVIOUS
<1>1. job \in [Jobs -> JobType]
  <2>1. NoJob \in JobType
    BY DEF NoJob, JobType, OpType
  <2> QED
    BY <2>1 DEF AccessInit, AccountsInit
<1>2. grant \in [Users -> GrantType \cup {None}]
  <2>1. grant \in [Users -> Grants \cup {None}]
    BY GrantAssumption DEF AccessInit, AccountsInit
  <2> QED
    BY <2>1 DEF GrantType
<1>3. JobsOK
  BY <1>1 DEF AccessInit, AccountsInit, JobsOK
<1>4. cred \in [Creds -> CredType] /\ columns \in 0..3
  BY DEF AccessInit, CredType
<1>5. AccessTypeOK
  BY <1>2, <1>4 DEF AccessInit, AccountsInit, AccessTypeOK, GrantType
<1> QED
  BY <1>3, <1>5 DEF TypeInv

\* A first step of a request, and a commit that changes the users' or the
\* nodes' rows to well typed ones.
LEMMA StartsTypes ==
    ASSUME TypeInv, UNCHANGED credVars,
           NEW k \in Jobs, NEW op, NEW u \in Users, NEW x, NEW to, NEW seen,
           AboutOK(op, x, to, seen), Starts(k, op, u, x, to, seen)
    PROVE  TypeInv'
<1>0. pc \in [Jobs -> PcType] /\ job \in [Jobs -> JobType]
  BY DEF TypeInv, AccessTypeOK, JobsOK, PcType
<1>1. /\ hub = "up"
      /\ pc' \in [Jobs -> PcType] /\ job' \in [Jobs -> JobType]
      /\ \A j \in Jobs : j # k => pc'[j] = pc[j] /\ job'[j] = job[j]
      /\ pc'[k] = "read"
      /\ job'[k] = [op |-> op, by |-> u, on |-> x, to |-> to,
                    seen |-> seen, todo |-> {}]
      /\ UNCHANGED <<hub, userVars, groupOf, changed, audit, stopped>>
  BY <1>0, StartsJob
<1>2. \A j \in Jobs : j # k => /\ pc[j] = "read" => ReadOK(j)'
                               /\ pc[j] = "waiting" => WaitOK(j)'
  BY <1>1 DEF TypeInv, JobsOK, ReadOK, AboutOK, WaitOK
<1>r. ReadOK(k)'
  BY <1>1 DEF ReadOK, AboutOK
<1>3. JobsOK'
  BY <1>1, <1>2, <1>r DEF TypeInv, JobsOK
<1>4. AccessTypeOK'
  BY <1>1 DEF TypeInv, AccessTypeOK, PcType, userVars, credVars
<1> QED
  BY <1>3, <1>4 DEF TypeInv

LEMMA CommittedTypes ==
    ASSUME TypeInv, NEW k \in Jobs, pc[k] = "read", Committed(k) \/ Ends(k, "failed"),
           UNCHANGED <<hub, stopped, columns, cap, unsent, plain, shifted, cutOff, audit>>,
           ~Committed(k) => UNCHANGED changed,
           grant' \in [Users -> GrantType \cup {None}],
           fresh' \subseteq {u \in Users : grant'[u] = None},
           groupOf' \in [Nodes -> Groups \cup {Empty}],
           excuse' \subseteq {"demoted", "crossed"},
           cred' \in [Creds -> CredType]
    PROVE  TypeInv'
<1>0. pc \in [Jobs -> PcType] /\ job \in [Jobs -> JobType]
  BY DEF TypeInv, AccessTypeOK, JobsOK, PcType
<1>1. /\ pc' \in [Jobs -> PcType] /\ job' \in [Jobs -> JobType]
      /\ \A j \in Jobs : j # k => pc'[j] = pc[j] /\ job'[j] = job[j]
      /\ pc'[k] \in {"committed", "failed"}
      /\ job'[k].op = job[k].op
      /\ job'[k].by = job[k].by /\ job'[k].on = job[k].on
      /\ changed' \in {changed, changed \cup {<<k, job[k].on>>}}
  BY <1>0, CommittedJob, EndsJob
<1>2. \A j \in Jobs : j # k => /\ pc[j] = "read" => ReadOK(j)'
                               /\ pc[j] = "waiting" => WaitOK(j)'
  BY <1>1 DEF TypeInv, JobsOK, ReadOK, AboutOK, WaitOK
<1>3. /\ job[k].by \in Users /\ job[k].on \in Things /\ hub = "up"
      /\ job[k].op \in {"update", "create"} => job[k].on \in Users
  BY DEF TypeInv, JobsOK, ReadOK, AboutOK, Things
<1>4. JobsOK'
  BY <1>1, <1>2, <1>3 DEF TypeInv, JobsOK
<1>5. changed' \cup audit' \subseteq Jobs \X Things
  BY <1>1, <1>3 DEF TypeInv, AccessTypeOK, Things
<1>6. AccessTypeOK'
  BY <1>1, <1>5 DEF TypeInv, AccessTypeOK, PcType, GrantType, Things, CredType
<1> QED
  BY <1>4, <1>6 DEF TypeInv

LEMMA StepTypes == TypeInv /\ [AccessNext]_accessVars => TypeInv'
<1> SUFFICES ASSUME TypeInv, [AccessNext]_accessVars PROVE TypeInv'
  OBVIOUS
<1>0. /\ pc \in [Jobs -> PcType] /\ job \in [Jobs -> JobType]
      /\ grant \in [Users -> GrantType \cup {None}]
      /\ fresh \subseteq {u \in Users : grant[u] = None}
      /\ groupOf \in [Nodes -> Groups \cup {Empty}]
      /\ cred \in [Creds -> CredType]
      /\ excuse \subseteq {"demoted", "crossed"}
  BY DEF TypeInv, AccessTypeOK, JobsOK, PcType, GrantType, CredType
<1>r. \A u \in Users : Row(u) <=> grant[u] \in GrantType
  BY <1>0, GrantAssumption DEF Row, GrantType
<1>g. Grants \subseteq GrantType
  BY DEF GrantType
<1>1. ASSUME NEW k \in Jobs, NEW u \in Users, NEW x \in Users, NEW to \in Grants,
             StartUpdate(k, u, x, to), UNCHANGED credVars
      PROVE  TypeInv'
  <2>1. Starts(k, "update", u, x, to, grant[x]) /\ grant[x] \in GrantType
    BY <1>1, <1>r DEF StartUpdate
  <2>2. AboutOK("update", x, to, grant[x])
    BY <2>1 DEF AboutOK
  <2> QED
    BY <1>1, <1>g, <2>1, <2>2, StartsTypes
<1>2. ASSUME NEW k \in Jobs, NEW u \in Users, NEW x \in Users, NEW to \in Grants,
             StartCreate(k, u, x, to), UNCHANGED credVars
      PROVE  TypeInv'
  <2>1. Starts(k, "create", u, x, to, None)
    BY <1>2 DEF StartCreate
  <2>2. AboutOK("create", x, to, None)
    BY DEF AboutOK
  <2> QED
    BY <1>2, <1>g, <2>1, <2>2, StartsTypes
<1>3. ASSUME NEW k \in Jobs, NEW u \in Users, NEW x \in Users,
             StartDelete(k, u, x), UNCHANGED credVars
      PROVE  TypeInv'
  <2>1. Starts(k, "delete", u, x, None, None)
    BY <1>3 DEF StartDelete
  <2>2. AboutOK("delete", x, None, None)
    BY DEF AboutOK
  <2> QED
    BY <1>3, <2>1, <2>2, StartsTypes
<1>4. ASSUME NEW k \in Jobs, NEW u \in Users, NEW n \in Nodes,
             NEW g \in Groups \cup {Empty},
             StartMove(k, u, n, g), UNCHANGED credVars
      PROVE  TypeInv'
  <2>1. Starts(k, "move", u, n, g, groupOf[n]) /\ groupOf[n] \in Groups \cup {Empty}
    BY <1>0, <1>4 DEF StartMove
  <2>2. AboutOK("move", n, g, groupOf[n])
    BY <2>1 DEF AboutOK
  <2> QED
    BY <1>4, <2>1, <2>2, StartsTypes
<1>5. ASSUME NEW k \in Jobs, NEW u \in Users, NEW c \in Creds,
             StartNewCred(k, u, c) \/ StartDelCred(k, u, c)
      PROVE  TypeInv'
  <2>1. CASE StartNewCred(k, u, c)
    <3>1. Starts(k, "newcred", u, c, None, None) /\ UNCHANGED credVars
      BY <2>1 DEF StartNewCred
    <3>2. AboutOK("newcred", c, None, None)
      BY DEF AboutOK
    <3> QED
      BY <3>1, <3>2, StartsTypes
  <2>2. CASE StartDelCred(k, u, c)
    <3>1. Starts(k, "delcred", u, c, None, None) /\ UNCHANGED credVars
      BY <2>2 DEF StartDelCred
    <3>2. AboutOK("delcred", c, None, None)
      BY DEF AboutOK
    <3> QED
      BY <3>1, <3>2, StartsTypes
  <2> QED
    BY <1>5, <2>1, <2>2
<1>6. ASSUME NEW k \in Jobs, CommitUpdate(k), UNCHANGED credVars PROVE TypeInv'
  <2>1. /\ pc[k] = "read" /\ (Committed(k) \/ Ends(k, "failed"))
        /\ ~Committed(k) => UNCHANGED changed
        /\ UNCHANGED <<hub, fresh, groupOf, audit, stopped>>
    BY <1>6 DEF CommitUpdate
  <2>2. job[k].on \in Users /\ job[k].to \in Grants /\ job[k].seen \in GrantType
    BY <1>6, <2>1 DEF CommitUpdate, TypeInv, JobsOK, ReadOK, AboutOK
  <2>e. excuse' \subseteq {"demoted", "crossed"}
    BY <1>0, <1>6 DEF CommitUpdate
  <2>3. CASE UNCHANGED grant
    BY <1>0, <1>6, <2>1, <2>e, <2>3, CommittedTypes DEF credVars
  <2>4. CASE grant' # grant
    <3>1. PICK new \in [role : {g.role : g \in Grants}, scope : {g.scope : g \in Grants}] :
            grant' = [grant EXCEPT ![job[k].on] = new]
      BY <1>0, <1>r, <1>6, <2>2, <2>4 DEF CommitUpdate, GrantType
    <3>2. Row(job[k].on)
      BY <1>6, <2>4 DEF CommitUpdate
    <3>3. /\ grant' \in [Users -> GrantType \cup {None}]
          /\ fresh' \subseteq {u \in Users : grant'[u] = None}
      BY <1>0, <2>1, <2>2, <3>1, <3>2 DEF GrantType, Row
    <3> QED
      BY <1>0, <1>6, <2>1, <2>e, <3>3, CommittedTypes DEF credVars
  <2> QED
    BY <2>3, <2>4
<1>7. ASSUME NEW k \in Jobs, CommitCreate(k), UNCHANGED credVars PROVE TypeInv'
  <2>1. /\ pc[k] = "read" /\ (Committed(k) \/ Ends(k, "failed"))
        /\ ~Committed(k) => UNCHANGED changed
        /\ UNCHANGED <<hub, excuse, groupOf, audit, stopped>>
        /\ job[k].on \in Users /\ job[k].to \in Grants
    BY <1>7 DEF CommitCreate, TypeInv, JobsOK, ReadOK, AboutOK
  <2>2. \/ UNCHANGED <<grant, fresh>>
        \/ /\ grant' = [grant EXCEPT ![job[k].on] = job[k].to]
           /\ fresh' = fresh \ {job[k].on}
    BY <1>7 DEF CommitCreate
  <2>3. /\ grant' \in [Users -> GrantType \cup {None}]
        /\ fresh' \subseteq {u \in Users : grant'[u] = None}
    BY <1>0, <1>g, <2>1, <2>2
  <2> QED
    BY <1>0, <1>7, <2>1, <2>3, CommittedTypes DEF credVars
<1>8. ASSUME NEW k \in Jobs, CommitDelete(k), UNCHANGED credVars PROVE TypeInv'
  <2>1. /\ pc[k] = "read" /\ Committed(k)
        /\ UNCHANGED <<hub, fresh, groupOf, audit, stopped>>
        /\ grant' = [grant EXCEPT ![job[k].on] = None]
        /\ excuse' \subseteq {"demoted", "crossed"}
    BY <1>0, <1>8 DEF CommitDelete
  <2>2. /\ grant' \in [Users -> GrantType \cup {None}]
        /\ fresh' \subseteq {u \in Users : grant'[u] = None}
    BY <1>0, <2>1
  <2> QED
    BY <1>0, <1>8, <2>1, <2>2, CommittedTypes DEF credVars
<1>9. ASSUME NEW k \in Jobs, CommitMove(k), UNCHANGED credVars PROVE TypeInv'
  <2>1. /\ pc[k] = "read" /\ Committed(k)
        /\ UNCHANGED <<hub, grant, fresh, excuse, audit, stopped>>
        /\ job[k].on \in Nodes /\ job[k].to \in Groups \cup {Empty}
    BY <1>9 DEF CommitMove, userVars, TypeInv, JobsOK, ReadOK, AboutOK
  <2>2. groupOf' \in [Nodes -> Groups \cup {Empty}]
    BY <1>0, <1>9, <2>1 DEF CommitMove
  <2> QED
    BY <1>0, <1>9, <2>1, <2>2, CommittedTypes DEF credVars
<1>10. ASSUME NEW k \in Jobs, CommitCred(k) PROVE TypeInv'
  <2>1. /\ pc[k] = "read" /\ (Committed(k) \/ Ends(k, "failed"))
        /\ ~Committed(k) => UNCHANGED changed
        /\ UNCHANGED <<hub, grant, fresh, excuse, groupOf, audit, stopped,
                       columns, cap, unsent, plain, shifted, cutOff>>
    BY <1>10 DEF CommitCred, userVars
  <2>2. cred' \in [Creds -> CredType]
    BY <1>0, <1>10 DEF CommitCred, CredType
  <2> QED
    BY <1>0, <1>10, <2>1, <2>2, CommittedTypes
<1>11. ASSUME NEW k \in Jobs, Audit(k) \/ SendRaises(k) PROVE TypeInv'
  <2>1. /\ pc[k] \in {"committed", "waiting"} /\ (Ends(k, "done") \/ Ends(k, "failed"))
        /\ audit' \in {audit, audit \cup {<<k, job[k].on>>}}
        /\ UNCHANGED <<hub, grant, fresh, excuse, groupOf, changed, stopped, columns,
                       cred, cap, plain, shifted, cutOff>>
    BY <1>11 DEF Audit, SendRaises, userVars, credVars
  <2>2. job[k].on \in Things /\ hub = "up"
    BY <2>1 DEF TypeInv, JobsOK, WaitOK, Things
  <2>u. unsent' \subseteq Jobs \X Nodes
    BY <1>11 DEF Audit, SendRaises, credVars, TypeInv, AccessTypeOK, JobsOK, WaitOK
  <2>3. /\ pc' \in [Jobs -> PcType] /\ job' \in [Jobs -> JobType]
        /\ \A j \in Jobs : j # k => pc'[j] = pc[j] /\ job'[j] = job[j]
        /\ pc'[k] \in {"done", "failed"}
    BY <1>0, <2>1, EndsJob
  <2>4. JobsOK'
    BY <2>1, <2>2, <2>3 DEF TypeInv, JobsOK, ReadOK, AboutOK, WaitOK
  <2>5. audit' \subseteq Jobs \X Things
    BY <2>1, <2>2 DEF TypeInv, AccessTypeOK, Things
  <2>6. AccessTypeOK'
    BY <2>1, <2>3, <2>5, <2>u DEF TypeInv, AccessTypeOK, PcType, Things
  <2> QED
    BY <2>4, <2>6 DEF TypeInv
<1>12. ASSUME BootstrapAdmin, UNCHANGED credVars PROVE TypeInv'
  <2>1. /\ grant' \in [Users -> GrantType \cup {None}]
        /\ fresh' \subseteq {u \in Users : grant'[u] = None}
    BY <1>0, <1>g, <1>12, GrantAssumption DEF BootstrapAdmin
  <2>2. JobsOK'
    BY <1>12 DEF BootstrapAdmin, TypeInv, JobsOK, ReadOK, WaitOK
  <2>3. AccessTypeOK'
    BY <1>12, <2>1 DEF BootstrapAdmin, TypeInv, AccessTypeOK, credVars, GrantType
  <2> QED
    BY <2>2, <2>3 DEF TypeInv
<1>13. ASSUME Migrate \/ AddColumn \/ CopyRows PROVE TypeInv'
  <2>1. /\ UNCHANGED <<grant, fresh, excuse, groupOf, pc, job, changed, audit,
                       stopped, cap, unsent, plain, shifted, cutOff>>
        /\ hub # "up" /\ hub' \in {"down", "migrating", "migrated"}
    BY <1>13 DEF Migrate, AddColumn, CopyRows, userVars, credVars, accountVars,
       TypeInv, AccessTypeOK
  <2>2. columns' \in 0..3
    BY <1>13 DEF Migrate, AddColumn, CopyRows, credVars, TypeInv, AccessTypeOK
  <2>3. cred' \in [Creds -> CredType]
    BY <1>0, <1>13 DEF Migrate, AddColumn, CopyRows, credVars, CredType
  <2>4. JobsOK'
    BY <2>1 DEF TypeInv, JobsOK, ReadOK, AboutOK, WaitOK
  <2>5. AccessTypeOK'
    BY <2>1, <2>2, <2>3 DEF TypeInv, AccessTypeOK, CredType
  <2> QED
    BY <2>4, <2>5 DEF TypeInv
<1>14. ASSUME HubEnds PROVE TypeInv'
  <2>1. NoJob \in JobType
    BY DEF NoJob, JobType, OpType
  <2>2. /\ pc' \in [Jobs -> PcType] /\ job' \in [Jobs -> JobType]
        /\ \A j \in Jobs : /\ pc'[j] \in {"idle", "done", "failed"}
                           /\ pc'[j] = "idle" => pc[j] = "idle" /\ job'[j] = job[j]
    BY <1>0, <1>14, <2>1 DEF HubEnds, HubStops, Running, PcType
  <2>3. JobsOK'
    BY <2>2 DEF JobsOK
  <2>4. stopped' \subseteq Jobs
    BY <1>14 DEF HubEnds, HubStops, Running, TypeInv, AccessTypeOK
  <2>5. AccessTypeOK'
    BY <1>14, <2>2, <2>4 DEF HubEnds, HubStops, TypeInv, AccessTypeOK, PcType, userVars
  <2> QED
    BY <2>3, <2>5 DEF TypeInv
<1>15. ASSUME NEW v \in Versions, UpsertCapabilities(v) PROVE TypeInv'
  <2>1. JobsOK'
    BY <1>15 DEF UpsertCapabilities, accountVars, TypeInv, JobsOK, ReadOK, WaitOK
  <2>2. AccessTypeOK'
    BY <1>15 DEF UpsertCapabilities, accountVars, userVars, TypeInv, AccessTypeOK
  <2> QED
    BY <2>1, <2>2 DEF TypeInv
<1>16. ASSUME NEW k \in Jobs, NEW u \in Users, NEW c \in Creds, NEW n \in Nodes,
              NEW rest \in SUBSET (Nodes \ {n}), StartApply(k, u, c, n, rest)
       PROVE  TypeInv'
  <2>1. /\ hub = "up" /\ hub' = "up" /\ pc[k] = "idle"
        /\ pc' = [pc EXCEPT ![k] = "waiting"]
        /\ job' = [job EXCEPT ![k] = [op |-> "apply", by |-> u, on |-> n, to |-> cap,
                                      seen |-> c, todo |-> rest]]
        /\ changed' = changed \cup {<<k, n>>}
        /\ plain' \in {plain, plain \cup {<<k, n>>}}
        /\ UNCHANGED <<grant, fresh, excuse, groupOf, audit, stopped, columns,
                       cred, cap, unsent, shifted, cutOff>>
    BY <1>16 DEF StartApply, Dispatch, userVars
  <2>2. cap \in Versions \cup {None}
    BY DEF TypeInv, AccessTypeOK
  <2>3. [op |-> "apply", by |-> u, on |-> n, to |-> cap, seen |-> c, todo |-> rest] \in JobType
    BY <2>2 DEF JobType, OpType, Things
  <2>4. /\ pc' \in [Jobs -> PcType] /\ job' \in [Jobs -> JobType]
        /\ \A j \in Jobs : j # k => pc'[j] = pc[j] /\ job'[j] = job[j]
        /\ pc'[k] = "waiting" /\ WaitOK(k)'
    BY <1>0, <2>1, <2>3 DEF PcType, WaitOK
  <2>5. \A j \in Jobs : j # k => /\ pc[j] = "read" => ReadOK(j)'
                                 /\ pc[j] = "waiting" => WaitOK(j)'
    BY <2>4 DEF TypeInv, JobsOK, ReadOK, AboutOK, WaitOK
  <2>6. JobsOK'
    BY <2>1, <2>4, <2>5 DEF TypeInv, JobsOK
  <2>7. AccessTypeOK'
    BY <2>1, <2>4 DEF TypeInv, AccessTypeOK, PcType
  <2> QED
    BY <2>6, <2>7 DEF TypeInv
<1>17. ASSUME NEW k \in Jobs, Answer(k) PROVE TypeInv'
  <2>1. /\ pc[k] = "waiting" /\ hub = "up" /\ WaitOK(k)
        /\ UNCHANGED <<hub, grant, fresh, excuse, groupOf, stopped, columns, cred,
                       cap, unsent, shifted, cutOff>>
        /\ audit' \in {audit, audit \cup {<<k, job[k].on>>}}
    BY <1>17 DEF Answer, userVars, TypeInv, JobsOK
  <2>2. CASE (Ends(k, "failed") \/ Ends(k, "done")) /\ UNCHANGED <<changed, plain>>
    <3>1. /\ pc' \in [Jobs -> PcType] /\ job' \in [Jobs -> JobType]
          /\ \A j \in Jobs : j # k => pc'[j] = pc[j] /\ job'[j] = job[j]
          /\ pc'[k] \in {"done", "failed"}
      BY <1>0, <2>2, EndsJob
    <3>2. JobsOK'
      BY <2>1, <3>1 DEF TypeInv, JobsOK, ReadOK, AboutOK, WaitOK
    <3>3. AccessTypeOK'
      BY <2>1, <2>2, <3>1 DEF TypeInv, AccessTypeOK, PcType, WaitOK
    <3> QED
      BY <3>2, <3>3 DEF TypeInv
  <2>3. ASSUME NEW n \in job[k].todo, Dispatch(k, n, job[k].to), UNCHANGED pc,
               job' = [job EXCEPT ![k].on = n, ![k].todo = @ \ {n}]
        PROVE  TypeInv'
    <3>1. job' = [job EXCEPT ![k] = [job[k] EXCEPT !.on = n, !.todo = job[k].todo \ {n}]]
      BY <2>3
    <3>n. n \in Nodes /\ job[k] \in JobType /\ job[k].todo \ {n} \in SUBSET Nodes
      BY <1>0, <2>1 DEF WaitOK
    <3>2. n \in Nodes /\ [job[k] EXCEPT !.on = n, !.todo = job[k].todo \ {n}] \in JobType
      BY <3>n DEF JobType, Things
    <3>3. /\ job' \in [Jobs -> JobType]
          /\ \A j \in Jobs : j # k => job'[j] = job[j]
          /\ WaitOK(k)'
      BY <1>0, <2>1, <3>1, <3>2 DEF WaitOK, JobType
    <3>4. JobsOK'
      BY <2>1, <2>3, <3>3 DEF TypeInv, JobsOK, ReadOK, AboutOK, WaitOK
    <3>5. /\ changed' = changed \cup {<<k, n>>}
          /\ plain' \in {plain, plain \cup {<<k, n>>}}
      BY <2>3 DEF Dispatch
    <3>6. AccessTypeOK'
      BY <2>1, <2>3, <3>2, <3>3, <3>5 DEF TypeInv, AccessTypeOK, PcType, WaitOK
    <3> QED
      BY <3>4, <3>6 DEF TypeInv
  <2> QED
    BY <1>17, <2>2, <2>3 DEF Answer
<1>18. CASE UNCHANGED accessVars
  BY <1>18 DEF accessVars, accountVars, userVars, credVars, TypeInv, AccessTypeOK,
     JobsOK, ReadOK, AboutOK, WaitOK
<1> QED
  BY <1>1, <1>2, <1>3, <1>4, <1>5, <1>6, <1>7, <1>8, <1>9, <1>10, <1>11, <1>12,
     <1>13, <1>14, <1>15, <1>16, <1>17, <1>18 DEF AccessNext, AccountStep

\* Types.
THEOREM AccessTypeCorrect == AccessSpec => []AccessTypeOK
<1>1. TypeInv => AccessTypeOK
  BY DEF TypeInv
<1> QED
  BY <1>1, InitTypes, StepTypes, PTL DEF AccessSpec

\* What a user is shown is what the user may open, whatever the scopes are.
THEOREM AccessVisibleIsReadable == AccessSpec => []VisibleIsReadable
<1>1. ASSUME TypeInv PROVE VisibleIsReadable
  <2>1. ASSUME NEW u \in Users, Row(u)
        PROVE  grant[u].role \in {"admin", "group_manager", "machine_manager", "viewer"}
    BY <1>1, <2>1, GrantAssumption DEF TypeInv, AccessTypeOK, Row
  <2>2. \A n \in Nodes, u \in Users : groupOf[n] \in ScopeList(u) => groupOf[n] # Empty
    BY DEF ScopeList
  <2> QED
    BY <2>1, <2>2 DEF VisibleIsReadable, ScopedNodes, CanAccessNode, Is
<1> QED
  BY <1>1, InitTypes, StepTypes, PTL DEF AccessSpec

-----------------------------------------------------------------------------
(***************************************************************************)
(* Ids nobody has had yet are no account's, and no request's but the one   *)
(* that is about to use the id.                                            *)
(***************************************************************************)
\* The users' rows the audit entry of request k is written from.
AuditReads(k) ==
    {job[k].by} \cup (IF job[k].op \in {"update", "create"} THEN {job[k].on} ELSE {})

FreshInv ==
    /\ \A k \in Jobs : pc[k] = "read" =>
          /\ job[k].op = "create" => job[k].on \in fresh
          /\ job[k].op = "update" => job[k].on \notin fresh
          /\ job[k].op = "delete" => job[k].on # job[k].by
    /\ \A j, k \in Jobs :
          (/\ pc[j] = "read" /\ job[j].op = "create"
           /\ pc[k] = "read" /\ job[k].op = "create"
           /\ job[j].on = job[k].on) => j = k
    /\ \A k \in Jobs : pc[k] \in {"read", "committed", "waiting"} => job[k].by \notin fresh
    /\ \A c \in changed : /\ pc[c[1]] \notin {"idle", "read"}
                          /\ AuditReads(c[1]) \cap fresh = {}

LEMMA InitFresh == AccessInit => FreshInv
  BY DEF AccessInit, AccountsInit, FreshInv

LEMMA StartsFresh ==
    ASSUME TypeInv, FreshInv,
           NEW k \in Jobs, NEW op, NEW u \in Users, NEW x, NEW to, NEW seen,
           AboutOK(op, x, to, seen), Starts(k, op, u, x, to, seen),
           op = "create" => x \in fresh /\ \A q \in Running : job[q].on # x,
           op = "update" => Row(x),
           op = "delete" => x # u
    PROVE  FreshInv'
<1>0. /\ pc \in [Jobs -> PcType] /\ job \in [Jobs -> JobType]
      /\ changed \subseteq Jobs \X Things
      /\ \A v \in fresh : ~Row(v)
  BY DEF TypeInv, AccessTypeOK, JobsOK, PcType, Things, Row
<1>1. /\ Row(u) /\ pc[k] = "idle"
      /\ \A j \in Jobs : j # k => pc'[j] = pc[j] /\ job'[j] = job[j]
      /\ pc'[k] = "read"
      /\ job'[k] = [op |-> op, by |-> u, on |-> x, to |-> to,
                    seen |-> seen, todo |-> {}]
      /\ UNCHANGED <<fresh, changed>>
  BY <1>0, StartsJob DEF userVars
<1>2. \A q \in Jobs : pc[q] = "read" => q \in Running
  BY DEF Running
<1>3. u \notin fresh /\ (op = "update" => x \notin fresh)
  BY <1>0, <1>1
<1>4. \A c \in changed : c[1] \in Jobs /\ c[1] # k
  BY <1>0, <1>1 DEF FreshInv
<1>5. \A c \in changed : pc'[c[1]] = pc[c[1]] /\ AuditReads(c[1])' = AuditReads(c[1])
  BY <1>1, <1>4 DEF AuditReads
<1> QED
  BY <1>1, <1>2, <1>3, <1>5 DEF FreshInv

LEMMA CommitFresh ==
    ASSUME TypeInv, FreshInv, NEW k \in Jobs, pc[k] = "read",
           \/ /\ Committed(k)
              /\ fresh' = IF job[k].op = "create" THEN fresh \ {job[k].on} ELSE fresh
           \/ Ends(k, "failed") /\ UNCHANGED <<changed, fresh>>
    PROVE  FreshInv'
<1>0. /\ pc \in [Jobs -> PcType] /\ job \in [Jobs -> JobType]
      /\ changed \subseteq Jobs \X Things
  BY DEF TypeInv, AccessTypeOK, JobsOK, PcType, Things
<1>1. /\ \A j \in Jobs : j # k => pc'[j] = pc[j] /\ job'[j] = job[j]
      /\ pc'[k] \in {"committed", "failed"}
      /\ job'[k].op = job[k].op /\ job'[k].by = job[k].by /\ job'[k].on = job[k].on
  BY <1>0, CommittedJob, EndsJob
<1>2. fresh' \subseteq fresh
  OBVIOUS
<1>3. \A j \in Jobs : (j # k /\ pc[j] = "read" /\ job[j].op = "create")
                         => job[j].on \in fresh'
  BY DEF FreshInv
<1>4. ASSUME NEW c \in changed'
      PROVE  /\ pc'[c[1]] \notin {"idle", "read"}
             /\ AuditReads(c[1])' \cap fresh' = {}
  <2>1. CASE c \in changed
    <3>1. c[1] \in Jobs /\ c[1] # k
      BY <1>0, <2>1 DEF FreshInv
    <3>2. AuditReads(c[1])' = AuditReads(c[1])
      BY <1>1, <3>1 DEF AuditReads
    <3> QED
      BY <1>1, <1>2, <2>1, <3>1, <3>2 DEF FreshInv
  <2>2. CASE c \notin changed
    <3>1. Committed(k) /\ c[1] = k
      BY <1>0, <2>2, CommittedJob
    <3>2. job[k].by \notin fresh'
      BY <1>2 DEF FreshInv
    <3>3. job[k].op \in {"update", "create"} => job[k].on \notin fresh'
      BY <1>0, <1>2, <3>1, EndsJob, CommittedJob DEF FreshInv
    <3> QED
      BY <1>1, <3>1, <3>2, <3>3 DEF AuditReads
  <2> QED
    BY <2>1, <2>2
<1>5. \A j \in Jobs : pc'[j] = "read" => j # k
  BY <1>1
<1> QED
  BY <1>1, <1>2, <1>3, <1>4, <1>5 DEF FreshInv

\* A step of a request that is past its first commit, or has none to come.
LEMMA LaterFresh ==
    ASSUME TypeInv, FreshInv, NEW k \in Jobs, fresh' = fresh,
           \A j \in Jobs : j # k => pc'[j] = pc[j] /\ job'[j] = job[j],
           pc'[k] \in {"waiting", "done", "failed"},
           pc'[k] = "waiting" => job'[k].by \notin fresh,
           changed' \subseteq Jobs \X Things,
           \A c \in changed' : c[1] # k => c \in changed,
           \A c \in changed' : c[1] = k => AuditReads(k)' \cap fresh = {}
    PROVE  FreshInv'
<1>1. ASSUME NEW c \in changed'
      PROVE  /\ pc'[c[1]] \notin {"idle", "read"}
             /\ AuditReads(c[1])' \cap fresh' = {}
  <2>1. c[1] \in Jobs
    OBVIOUS
  <2>2. CASE c[1] # k
    <3>1. c \in changed /\ AuditReads(c[1])' = AuditReads(c[1])
      BY <2>1, <2>2 DEF AuditReads
    <3> QED
      BY <2>1, <2>2, <3>1 DEF FreshInv
  <2> QED
    BY <2>2
<1> QED
  BY <1>1 DEF FreshInv

LEMMA StepFresh == TypeInv /\ FreshInv /\ [AccessNext]_accessVars => FreshInv'
<1> SUFFICES ASSUME TypeInv, FreshInv, [AccessNext]_accessVars PROVE FreshInv'
  OBVIOUS
<1>0. /\ pc \in [Jobs -> PcType] /\ job \in [Jobs -> JobType]
      /\ grant \in [Users -> GrantType \cup {None}]
      /\ fresh \subseteq Users
      /\ changed \subseteq Jobs \X Things
      /\ None \notin fresh
      /\ \A v \in fresh : ~Row(v)
  BY GrantAssumption DEF TypeInv, AccessTypeOK, JobsOK, PcType, Things, Row, GrantType
<1>1. ASSUME NEW k \in Jobs, NEW u \in Users, NEW x \in Users, NEW to \in Grants,
             StartUpdate(k, u, x, to) \/ StartCreate(k, u, x, to)
      PROVE  FreshInv'
  <2>1. CASE StartUpdate(k, u, x, to)
    <3>1. Starts(k, "update", u, x, to, grant[x]) /\ Row(x)
      BY <2>1 DEF StartUpdate
    <3>2. AboutOK("update", x, to, grant[x])
      BY <1>0, <3>1 DEF AboutOK, Row
    <3> QED
      BY <3>1, <3>2, StartsFresh
  <2>2. CASE StartCreate(k, u, x, to)
    <3>1. /\ Starts(k, "create", u, x, to, None)
          /\ x \in fresh /\ \A q \in Running : job[q].on # x
      BY <2>2 DEF StartCreate
    <3>2. AboutOK("create", x, to, None)
      BY DEF AboutOK
    <3> QED
      BY <3>1, <3>2, StartsFresh
  <2> QED
    BY <1>1, <2>1, <2>2
<1>2. ASSUME NEW k \in Jobs, NEW u \in Users, NEW x \in Users, StartDelete(k, u, x)
      PROVE  FreshInv'
  <2>1. Starts(k, "delete", u, x, None, None) /\ x # u
    BY <1>2 DEF StartDelete
  <2>2. AboutOK("delete", x, None, None)
    BY DEF AboutOK
  <2> QED
    BY <2>1, <2>2, StartsFresh
<1>3. ASSUME NEW k \in Jobs, NEW u \in Users, NEW n \in Nodes,
             NEW g \in Groups \cup {Empty}, StartMove(k, u, n, g)
      PROVE  FreshInv'
  <2>1. Starts(k, "move", u, n, g, groupOf[n])
    BY <1>3 DEF StartMove
  <2>2. AboutOK("move", n, g, groupOf[n])
    BY DEF AboutOK, TypeInv, AccessTypeOK
  <2> QED
    BY <2>1, <2>2, StartsFresh
<1>4. ASSUME NEW k \in Jobs, NEW u \in Users, NEW c \in Creds,
             StartNewCred(k, u, c) \/ StartDelCred(k, u, c)
      PROVE  FreshInv'
  <2>1. PICK op \in {"newcred", "delcred"} : Starts(k, op, u, c, None, None)
    BY <1>4 DEF StartNewCred, StartDelCred
  <2>2. AboutOK(op, c, None, None)
    BY DEF AboutOK
  <2> QED
    BY <2>1, <2>2, StartsFresh
<1>5. ASSUME NEW k \in Jobs,
             CommitUpdate(k) \/ CommitDelete(k) \/ CommitMove(k) \/ CommitCred(k)
      PROVE  FreshInv'
  <2>1. /\ pc[k] = "read" /\ job[k].op # "create" /\ fresh' = fresh
        /\ Committed(k) \/ (Ends(k, "failed") /\ UNCHANGED changed)
    BY <1>5 DEF CommitUpdate, CommitDelete, CommitMove, CommitCred, userVars
  <2> QED
    BY <2>1, CommitFresh
<1>6. ASSUME NEW k \in Jobs, CommitCreate(k) PROVE FreshInv'
  BY <1>6, CommitFresh DEF CommitCreate
<1>7. ASSUME NEW k \in Jobs, pc[k] \in {"committed", "waiting"}, NEW how \in {"done", "failed"},
             Ends(k, how), UNCHANGED <<fresh, changed>>
      PROVE  FreshInv'
  <2>1. /\ \A j \in Jobs : j # k => pc'[j] = pc[j] /\ job'[j] = job[j]
        /\ pc'[k] = how
        /\ how = "failed" => /\ job'[k].op = job[k].op
                             /\ job'[k].by = job[k].by
                             /\ job'[k].on = job[k].on
        /\ how = "done" => job'[k] = NoJob
    BY <1>0, <1>7, EndsJob
  <2>2. \A c \in changed' : c[1] = k => AuditReads(k)' \cap fresh = {}
    <3>1. CASE how = "failed"
      BY <1>7, <2>1, <3>1 DEF AuditReads, FreshInv
    <3>2. CASE how = "done"
      BY <1>0, <2>1, <3>2 DEF AuditReads, NoJob
    <3> QED
      BY <3>1, <3>2
  <2> QED
    BY <1>0, <1>7, <2>1, <2>2, LaterFresh
<1>8. ASSUME NEW k \in Jobs, Audit(k) \/ SendRaises(k) PROVE FreshInv'
  <2>1. /\ pc[k] \in {"committed", "waiting"} /\ UNCHANGED <<fresh, changed>>
        /\ \E how \in {"done", "failed"} : Ends(k, how)
    BY <1>8 DEF Audit, SendRaises, userVars
  <2> QED
    BY <1>7, <2>1
<1>9. ASSUME NEW k \in Jobs, Answer(k) PROVE FreshInv'
  <2>1. pc[k] = "waiting" /\ WaitOK(k) /\ UNCHANGED fresh
    BY <1>9 DEF Answer, userVars, TypeInv, JobsOK
  <2>2. CASE UNCHANGED changed /\ \E how \in {"done", "failed"} : Ends(k, how)
    BY <1>7, <2>1, <2>2
  <2>3. ASSUME NEW n \in job[k].todo, Dispatch(k, n, job[k].to), UNCHANGED pc,
               job' = [job EXCEPT ![k].on = n, ![k].todo = @ \ {n}]
        PROVE  FreshInv'
    <3>1. job' = [job EXCEPT ![k] = [job[k] EXCEPT !.on = n, !.todo = job[k].todo \ {n}]]
      BY <2>3
    <3>2. /\ \A j \in Jobs : j # k => job'[j] = job[j]
          /\ job'[k].op = "apply" /\ job'[k].by = job[k].by
      BY <1>0, <2>1, <3>1 DEF WaitOK, JobType
    <3>3. AuditReads(k)' \cap fresh = {}
      BY <2>1, <3>2 DEF AuditReads, FreshInv
    <3>4. n \in Nodes /\ changed' = changed \cup {<<k, n>>}
      BY <2>1, <2>3 DEF Dispatch, WaitOK
    <3>5. changed' \subseteq Jobs \X Things
      BY <1>0, <3>4 DEF Things
    <3>6. job'[k].by \notin fresh /\ fresh' = fresh
      BY <2>1, <3>2 DEF FreshInv
    <3>7. /\ \A j \in Jobs : j # k => pc'[j] = pc[j] /\ job'[j] = job[j]
          /\ pc'[k] \in {"waiting", "done", "failed"}
      BY <2>1, <2>3, <3>2
    <3>8. /\ \A c \in changed' : c[1] # k => c \in changed
          /\ \A c \in changed' : c[1] = k => AuditReads(k)' \cap fresh = {}
      BY <3>3, <3>4
    <3> QED
      BY <3>5, <3>6, <3>7, <3>8, LaterFresh
  <2> QED
    BY <1>9, <2>2, <2>3 DEF Answer
<1>10. ASSUME NEW k \in Jobs, NEW u \in Users, NEW c \in Creds, NEW n \in Nodes,
              NEW rest \in SUBSET (Nodes \ {n}), StartApply(k, u, c, n, rest)
       PROVE  FreshInv'
  <2>1. /\ Row(u) /\ UNCHANGED fresh
        /\ pc' = [pc EXCEPT ![k] = "waiting"]
        /\ job' = [job EXCEPT ![k] = [op |-> "apply", by |-> u, on |-> n, to |-> cap,
                                      seen |-> c, todo |-> rest]]
        /\ changed' = changed \cup {<<k, n>>}
    BY <1>10 DEF StartApply, Dispatch, userVars
  <2>2. /\ \A j \in Jobs : j # k => pc'[j] = pc[j] /\ job'[j] = job[j]
        /\ pc'[k] = "waiting" /\ job'[k].op = "apply" /\ job'[k].by = u
    BY <1>0, <2>1
  <2>3. u \notin fresh
    BY <1>0, <2>1
  <2>4. changed' \subseteq Jobs \X Things
    BY <1>0, <2>1 DEF Things
  <2>5. AuditReads(k)' \cap fresh = {}
    BY <2>2, <2>3 DEF AuditReads
  <2> QED
    BY <2>1, <2>2, <2>3, <2>4, <2>5, LaterFresh
<1>11. ASSUME HubEnds PROVE FreshInv'
  <2>1. /\ UNCHANGED <<fresh, changed>>
        /\ \A j \in Jobs :
              IF j \in Running THEN pc'[j] = "failed" /\ job'[j] = NoJob
              ELSE pc'[j] = pc[j] /\ job'[j] = job[j]
    BY <1>0, <1>11 DEF HubEnds, HubStops, userVars
  <2>2. \A j \in Jobs : pc'[j] \notin {"read", "committed", "waiting"}
    BY <1>0, <2>1 DEF Running, PcType
  <2>3. ASSUME NEW c \in changed
        PROVE  /\ pc'[c[1]] \notin {"idle", "read"}
               /\ AuditReads(c[1])' \cap fresh = {}
    <3>1. c[1] \in Jobs
      BY <1>0
    <3>2. CASE c[1] \in Running
      BY <1>0, <2>1, <3>1, <3>2 DEF AuditReads, NoJob
    <3>3. CASE c[1] \notin Running
      BY <2>1, <3>1, <3>3 DEF AuditReads, FreshInv
    <3> QED
      BY <3>2, <3>3
  <2> QED
    BY <2>1, <2>2, <2>3 DEF FreshInv
<1>12. ASSUME BootstrapAdmin PROVE FreshInv'
  <2>1. /\ UNCHANGED <<pc, job, changed>> /\ fresh' \subseteq fresh
        /\ \A j \in Jobs : pc[j] # "read"
    BY <1>12 DEF BootstrapAdmin, TypeInv, JobsOK
  <2>2. \A c \in changed : AuditReads(c[1])' = AuditReads(c[1])
    BY <2>1 DEF AuditReads
  <2> QED
    BY <2>1, <2>2 DEF FreshInv
<1>13. ASSUME UNCHANGED <<pc, job, changed, fresh>> PROVE FreshInv'
  BY <1>13 DEF FreshInv, AuditReads
<1>14. ASSUME \/ Migrate \/ AddColumn \/ CopyRows \/ UNCHANGED accessVars
              \/ \E v \in Versions : UpsertCapabilities(v)
       PROVE  FreshInv'
  BY <1>13, <1>14 DEF Migrate, AddColumn, CopyRows, UpsertCapabilities, accessVars,
     accountVars, userVars
<1> QED
  BY <1>1, <1>2, <1>3, <1>4, <1>5, <1>6, <1>8, <1>9, <1>10, <1>11, <1>12, <1>14
     DEF AccessNext, AccountStep

-----------------------------------------------------------------------------
(***************************************************************************)
(* The last admin.  A deletion by somebody who is an admin when it is      *)
(* committed leaves that one; every other way is in excuse.                *)
(***************************************************************************)
AdminInv ==
    excuse = {} => \/ \E u \in Users : Is(u, "admin")
                   \/ hub # "up" /\ \A u \in Users : ~Row(u)

LEMMA InitAdmin == AccessInit => AdminInv
  BY GrantAssumption DEF AccessInit, AccountsInit, AdminInv, Is, Row

LEMMA StepAdmin ==
    TypeInv /\ FreshInv /\ AdminInv /\ [AccessNext]_accessVars => AdminInv'
<1> SUFFICES ASSUME TypeInv, FreshInv, AdminInv, [AccessNext]_accessVars, excuse' = {}
             PROVE  AdminInv'
  BY DEF AdminInv
<1>0. /\ grant \in [Users -> GrantType \cup {None}]
      /\ \A u \in fresh : u \in Users /\ ~Row(u)
  BY DEF TypeInv, AccessTypeOK, Row, GrantType
<1>1. ASSUME NEW k \in Jobs, CommitUpdate(k) PROVE AdminInv'
  <2>1. excuse = {} /\ hub' = hub /\ hub = "up"
    BY <1>1 DEF CommitUpdate, TypeInv, JobsOK
  <2>2. PICK a \in Users : Is(a, "admin")
    BY <2>1 DEF AdminInv
  <2>3. CASE UNCHANGED grant
    BY <2>2, <2>3 DEF AdminInv, Is, Row
  <2>4. CASE grant' # grant
    <3>1. job[k].on \in Users /\ job[k].to \in Grants /\ job[k].seen \in GrantType
      BY <1>1 DEF CommitUpdate, TypeInv, JobsOK, ReadOK, AboutOK
    <3>2. PICK new \in [role : {g.role : g \in Grants}, scope : {g.scope : g \in Grants}] :
            /\ grant' = [grant EXCEPT ![job[k].on] = new]
            /\ ~Demotes(grant[job[k].on], new)
      BY <1>0, <1>1, <2>1, <2>4, <3>1 DEF CommitUpdate, GrantType, Row
    <3>3. new # None
      BY GrantAssumption
    <3> QED
      BY <1>0, <2>2, <3>1, <3>2, <3>3 DEF AdminInv, Is, Row, Demotes
  <2> QED
    BY <2>3, <2>4
<1>2. ASSUME NEW k \in Jobs, CommitCreate(k) PROVE AdminInv'
  <2>1. /\ excuse = {} /\ hub' = hub /\ hub = "up"
        /\ job[k].on \in fresh
        /\ grant' \in {grant, [grant EXCEPT ![job[k].on] = job[k].to]}
    BY <1>2 DEF CommitCreate, TypeInv, JobsOK, FreshInv
  <2>2. PICK a \in Users : Is(a, "admin")
    BY <2>1 DEF AdminInv
  <2>3. grant'[a] = grant[a]
    BY <1>0, <2>1, <2>2 DEF Is
  <2> QED
    BY <2>2, <2>3 DEF AdminInv, Is, Row
<1>3. ASSUME NEW k \in Jobs, CommitDelete(k) PROVE AdminInv'
  <2>1. /\ Is(job[k].by, "admin") /\ job[k].on # job[k].by /\ job[k].by \in Users
        /\ grant' = [grant EXCEPT ![job[k].on] = None]
    BY <1>3 DEF CommitDelete, TypeInv, JobsOK, ReadOK, FreshInv
  <2>2. grant'[job[k].by] = grant[job[k].by]
    BY <1>0, <2>1
  <2> QED
    BY <2>1, <2>2 DEF AdminInv, Is, Row
<1>4. ASSUME BootstrapAdmin PROVE AdminInv'
  <2>1. excuse = {}
    BY <1>4 DEF BootstrapAdmin
  <2>2. CASE \E u \in Users : Row(u)
    BY <1>4, <2>1, <2>2 DEF BootstrapAdmin, AdminInv, Is, Row
  <2>3. CASE ~\E u \in Users : Row(u)
    <3>1. PICK u \in fresh : grant' = [grant EXCEPT ![u] = Admin]
      BY <1>4, <2>3 DEF BootstrapAdmin
    <3> QED
      BY <1>0, <3>1, GrantAssumption DEF AdminInv, Is, Row
  <2> QED
    BY <2>2, <2>3
<1>5. ASSUME UNCHANGED <<grant, excuse>>, hub' = "up" => hub = "up" PROVE AdminInv'
  BY <1>5 DEF AdminInv, Is, Row
<1>6. ASSUME NEW k \in Jobs, NEW u \in Users,
             \/ \E x \in Users : \/ \E to \in Grants : \/ StartUpdate(k, u, x, to)
                                                       \/ StartCreate(k, u, x, to)
                                 \/ StartDelete(k, u, x)
             \/ \E n \in Nodes, g \in Groups \cup {Empty} : StartMove(k, u, n, g)
             \/ \E c \in Creds : \/ StartNewCred(k, u, c) \/ StartDelCred(k, u, c)
                                 \/ \E n \in Nodes : \E rest \in SUBSET (Nodes \ {n}) :
                                       StartApply(k, u, c, n, rest)
      PROVE  AdminInv'
  BY <1>5, <1>6 DEF StartUpdate, StartCreate, StartDelete, StartMove, StartNewCred,
     StartDelCred, StartApply, Starts, userVars
<1>7. ASSUME NEW k \in Jobs, CommitMove(k) \/ Audit(k) \/ SendRaises(k)
                               \/ CommitCred(k) \/ Answer(k)
      PROVE  AdminInv'
  BY <1>5, <1>7 DEF CommitMove, Audit, SendRaises, CommitCred, Answer, userVars
<1>8. ASSUME \/ Migrate \/ AddColumn \/ CopyRows \/ HubEnds \/ UNCHANGED accessVars
             \/ \E v \in Versions : UpsertCapabilities(v)
      PROVE  AdminInv'
  BY <1>5, <1>8 DEF Migrate, AddColumn, CopyRows, HubEnds, HubStops,
     UpsertCapabilities, accessVars, accountVars, userVars
<1> QED
  BY <1>1, <1>2, <1>3, <1>4, <1>6, <1>7, <1>8 DEF AccessNext, AccountStep

\* A hub that serves has an admin, whoever deletes and changes whom, but for
\* a role taken from an admin and for deletions that crossed.
THEOREM AccessAdminRemains == AccessSpec => []AdminRemains
<1>1. AdminInv => AdminRemains
  BY DEF AdminInv, AdminRemains
<1> QED
  BY <1>1, InitTypes, StepTypes, InitFresh, StepFresh, InitAdmin, StepAdmin, PTL
     DEF AccessSpec

-----------------------------------------------------------------------------
(***************************************************************************)
(* The migration: unless it was cut off between its first column and the   *)
(* copy, no column or all of them are there whenever it is not at work.    *)
(***************************************************************************)
Upgraded == columns = 3 /\ \A c \in Creds : cred[c] # "old"

UpgradeInv ==
    ~cutOff => \/ hub = "migrating"
               \/ hub = "down" /\ columns = 0
               \/ Upgraded

LEMMA InitUpgrade == AccessInit => UpgradeInv
<1> SUFFICES ASSUME AccessInit PROVE UpgradeInv
  OBVIOUS
<1>1. CASE columns = 0
  BY <1>1 DEF AccessInit, AccountsInit, UpgradeInv
<1>2. CASE columns # 0
  <2>1. columns = 3 /\ cred = [c \in Creds |-> "unmade"]
    BY <1>2 DEF AccessInit
  <2>2. \A c \in Creds : cred[c] # "old"
    BY <2>1
  <2> QED
    BY <2>1, <2>2 DEF UpgradeInv, Upgraded
<1> QED
  BY <1>1, <1>2

LEMMA StepUpgrade ==
    TypeInv /\ UpgradeInv /\ [AccessNext]_accessVars => UpgradeInv'
<1> SUFFICES ASSUME TypeInv, UpgradeInv, [AccessNext]_accessVars PROVE UpgradeInv'
  OBVIOUS
<1>0. cred \in [Creds -> CredType] /\ columns \in 0..3
  BY DEF TypeInv, AccessTypeOK, CredType
<1>1. ASSUME Migrate PROVE UpgradeInv'
  BY <1>0, <1>1 DEF Migrate, credVars, UpgradeInv, Upgraded
<1>2. ASSUME AddColumn PROVE UpgradeInv'
  BY <1>2 DEF AddColumn, accountVars, UpgradeInv
<1>3. ASSUME CopyRows PROVE UpgradeInv'
  BY <1>0, <1>3 DEF CopyRows, UpgradeInv, Upgraded
<1>4. ASSUME HubEnds PROVE UpgradeInv'
  <2>1. ~cutOff' => ~cutOff /\ ~(hub = "migrating" /\ columns > 0)
    BY <1>4 DEF HubEnds
  <2>2. hub # "down" /\ hub' = "down" /\ UNCHANGED <<columns, cred>>
    BY <1>4 DEF HubEnds, HubStops
  <2>3. ~cutOff' => columns' = 0 \/ Upgraded'
    BY <1>0, <2>1, <2>2 DEF UpgradeInv, Upgraded
  <2> QED
    BY <2>2, <2>3 DEF UpgradeInv
<1>5. ASSUME NEW k \in Jobs, CommitCred(k) PROVE UpgradeInv'
  <2>1. hub = "up" /\ UNCHANGED <<hub, columns, cutOff>>
    BY <1>5 DEF CommitCred, TypeInv, JobsOK
  <2>2. \A c \in Creds : cred'[c] \in {cred[c], "new", "gone"}
    BY <1>0, <1>5 DEF CommitCred
  <2> QED
    BY <2>1, <2>2 DEF UpgradeInv, Upgraded
<1>6. ASSUME UNCHANGED <<columns, cred, cutOff>>, hub # "down", hub # "migrating"
      PROVE  UpgradeInv'
  BY <1>6 DEF UpgradeInv, Upgraded
<1>7. ASSUME BootstrapAdmin, UNCHANGED credVars PROVE UpgradeInv'
  BY <1>6, <1>7 DEF BootstrapAdmin, credVars
<1>8. ASSUME UNCHANGED <<hub, columns, cred, cutOff>> PROVE UpgradeInv'
  BY <1>8 DEF UpgradeInv, Upgraded
<1>9. ASSUME AccountStep, UNCHANGED credVars PROVE UpgradeInv'
  <2>1. BootstrapAdmin \/ UNCHANGED hub
    <3>1. \A k \in Jobs : (\/ CommitUpdate(k) \/ CommitCreate(k) \/ CommitDelete(k)
                          \/ CommitMove(k)) => UNCHANGED hub
      BY DEF CommitUpdate, CommitCreate, CommitDelete, CommitMove
    <3>2. ASSUME NEW k \in Jobs, NEW u \in Users, NEW x \in Users,
                 \/ \E to \in Grants : StartUpdate(k, u, x, to) \/ StartCreate(k, u, x, to)
                 \/ StartDelete(k, u, x)
          PROVE  UNCHANGED hub
      BY <3>2 DEF StartUpdate, StartCreate, StartDelete, Starts
    <3>3. ASSUME NEW k \in Jobs, NEW u \in Users,
                 \E n \in Nodes, g \in Groups \cup {Empty} : StartMove(k, u, n, g)
          PROVE  UNCHANGED hub
      BY <3>3 DEF StartMove, Starts
    <3> QED
      BY <1>9, <3>1, <3>2, <3>3 DEF AccountStep
  <2>2. CASE BootstrapAdmin
    BY <1>7, <1>9, <2>2
  <2>3. CASE UNCHANGED hub
    BY <1>8, <1>9, <2>3 DEF credVars
  <2> QED
    BY <2>1, <2>2, <2>3
<1>10. ASSUME NEW k \in Jobs,
              \/ \E u \in Users, c \in Creds :
                    \/ StartNewCred(k, u, c) \/ StartDelCred(k, u, c)
                    \/ \E n \in Nodes : \E rest \in SUBSET (Nodes \ {n}) :
                          StartApply(k, u, c, n, rest)
              \/ Audit(k) \/ SendRaises(k) \/ Answer(k)
       PROVE  UpgradeInv'
  BY <1>8, <1>10 DEF StartNewCred, StartDelCred, StartApply, Starts, Audit, SendRaises,
     Answer, credVars
<1>11. ASSUME UNCHANGED accessVars \/ \E v \in Versions : UpsertCapabilities(v)
       PROVE  UpgradeInv'
  BY <1>8, <1>11 DEF UpsertCapabilities, accessVars, accountVars, credVars
<1> QED
  BY <1>1, <1>2, <1>3, <1>4, <1>5, <1>9, <1>10, <1>11 DEF AccessNext

\* Only a migration that was cut off half way loses a saved credential.
THEOREM AccessUpgradeKeepsCredentials == AccessSpec => []UpgradeKeepsCredentials
<1>1. UpgradeInv => UpgradeKeepsCredentials
  BY DEF UpgradeInv, Upgraded, UpgradeKeepsCredentials
<1> QED
  BY <1>1, InitTypes, StepTypes, InitUpgrade, StepUpgrade, PTL DEF AccessSpec

-----------------------------------------------------------------------------
(***************************************************************************)
(* A credential's id belongs to the one request that makes it, and has had *)
(* a row from that request's commit on.                                    *)
(***************************************************************************)
CredFresh ==
    /\ \A k \in Jobs : pc[k] = "read" =>
          /\ job[k].op = "newcred" => cred[job[k].on] = "unmade"
          /\ job[k].op = "delcred" => cred[job[k].on] # "unmade"
    /\ \A j, k \in Jobs :
          (/\ pc[j] = "read" /\ job[j].op = "newcred"
           /\ pc[k] = "read" /\ job[k].op = "newcred"
           /\ job[j].on = job[k].on) => j = k
    /\ \A c \in changed : job[c[1]].op = "newcred" =>
          job[c[1]].on \in Creds /\ cred[job[c[1]].on] # "unmade"

LEMMA InitCredFresh == AccessInit => CredFresh
  BY DEF AccessInit, AccountsInit, CredFresh

\* A step that makes no credential, and starts no request about one.
LEMMA KeepsCredFresh ==
    ASSUME TypeInv, CredFresh,
           \A c \in Creds : cred'[c] = "unmade" <=> cred[c] = "unmade",
           \A j \in Jobs : (pc'[j] = "read" /\ job'[j].op \in {"newcred", "delcred"})
                               => pc[j] = "read" /\ job'[j] = job[j],
           changed' \subseteq Jobs \X Things,
           \A c \in changed' : job'[c[1]].op = "newcred" =>
               c \in changed /\ job[c[1]].op = "newcred" /\ job'[c[1]].on = job[c[1]].on
    PROVE  CredFresh'
<1>1. \A j \in Jobs : (pc[j] = "read" /\ job[j].op \in {"newcred", "delcred"})
                          => job[j].on \in Creds
  BY DEF TypeInv, JobsOK, ReadOK, AboutOK
<1>2. ASSUME NEW j \in Jobs, pc'[j] = "read"
      PROVE  /\ job'[j].op = "newcred" => cred'[job'[j].on] = "unmade"
             /\ job'[j].op = "delcred" => cred'[job'[j].on] # "unmade"
  BY <1>1, <1>2 DEF CredFresh
<1>3. ASSUME NEW j \in Jobs, NEW k \in Jobs,
             pc'[j] = "read", job'[j].op = "newcred",
             pc'[k] = "read", job'[k].op = "newcred", job'[j].on = job'[k].on
      PROVE  j = k
  BY <1>3 DEF CredFresh
<1>4. ASSUME NEW c \in changed', job'[c[1]].op = "newcred"
      PROVE  job'[c[1]].on \in Creds /\ cred'[job'[c[1]].on] # "unmade"
  BY <1>4 DEF CredFresh
<1> QED
  BY <1>2, <1>3, <1>4 DEF CredFresh

LEMMA StepCredFresh ==
    TypeInv /\ FreshInv /\ CredFresh /\ [AccessNext]_accessVars => CredFresh'
<1> SUFFICES ASSUME TypeInv, FreshInv, CredFresh, [AccessNext]_accessVars
             PROVE  CredFresh'
  OBVIOUS
<1>0. /\ pc \in [Jobs -> PcType] /\ job \in [Jobs -> JobType]
      /\ changed \subseteq Jobs \X Things /\ cred \in [Creds -> CredType]
  BY DEF TypeInv, AccessTypeOK, JobsOK, PcType, Things, CredType
<1>n. \A k \in Jobs : pc[k] \in {"idle", "read"} => \A c \in changed : c[1] # k
  BY DEF FreshInv
<1>1. ASSUME NEW k \in Jobs, NEW op, NEW u \in Users, NEW x, NEW to, NEW seen,
             Starts(k, op, u, x, to, seen), UNCHANGED cred
      PROVE  /\ pc[k] = "idle" /\ UNCHANGED <<changed, cred>>
             /\ \A j \in Jobs : j # k => pc'[j] = pc[j] /\ job'[j] = job[j]
             /\ pc'[k] = "read" /\ job'[k].op = op /\ job'[k].on = x
  BY <1>0, <1>1 DEF Starts
<1>2. ASSUME NEW k \in Jobs, NEW op, NEW u \in Users, NEW x, NEW to, NEW seen,
             Starts(k, op, u, x, to, seen), UNCHANGED cred,
             op \notin {"newcred", "delcred"}
      PROVE  CredFresh'
  <2>1. /\ pc[k] = "idle" /\ UNCHANGED <<changed, cred>>
        /\ \A j \in Jobs : j # k => pc'[j] = pc[j] /\ job'[j] = job[j]
        /\ job'[k].op = op
    BY <1>1, <1>2
  <2>2. \A c \in changed : c[1] \in Jobs /\ c[1] # k
    BY <1>0, <1>n, <2>1
  <2> QED
    BY <1>0, <1>2, <2>1, <2>2, KeepsCredFresh
<1>3. ASSUME NEW k \in Jobs, NEW u \in Users, UNCHANGED credVars,
             \/ \E x \in Users : \/ \E to \in Grants : \/ StartUpdate(k, u, x, to)
                                                       \/ StartCreate(k, u, x, to)
                                 \/ StartDelete(k, u, x)
             \/ \E n \in Nodes, g \in Groups \cup {Empty} : StartMove(k, u, n, g)
      PROVE  CredFresh'
  <2>1. PICK op \in {"update", "create", "delete", "move"} :
          \E x, to, seen : Starts(k, op, u, x, to, seen)
    BY <1>3 DEF StartUpdate, StartCreate, StartDelete, StartMove
  <2>2. UNCHANGED cred /\ op \notin {"newcred", "delcred"}
    BY <1>3, <2>1 DEF credVars
  <2> QED
    BY <1>2, <2>1, <2>2
<1>4. ASSUME NEW k \in Jobs, NEW u \in Users, NEW c \in Creds, StartNewCred(k, u, c)
      PROVE  CredFresh'
  <2>1. /\ Starts(k, "newcred", u, c, None, None) /\ UNCHANGED cred
        /\ cred[c] = "unmade" /\ \A q \in Running : job[q].on # c
    BY <1>4 DEF StartNewCred, credVars
  <2>2. /\ pc[k] = "idle" /\ UNCHANGED <<changed, cred>>
        /\ \A j \in Jobs : j # k => pc'[j] = pc[j] /\ job'[j] = job[j]
        /\ pc'[k] = "read" /\ job'[k].op = "newcred" /\ job'[k].on = c
    BY <1>1, <2>1
  <2>3. \A q \in Jobs : pc[q] = "read" => job[q].on # c
    BY <2>1 DEF Running
  <2>4. \A d \in changed : d[1] \in Jobs /\ d[1] # k
    BY <1>0, <1>n, <2>2
  <2> QED
    BY <2>1, <2>2, <2>3, <2>4 DEF CredFresh
<1>5. ASSUME NEW k \in Jobs, NEW u \in Users, NEW c \in Creds, StartDelCred(k, u, c)
      PROVE  CredFresh'
  <2>1. /\ Starts(k, "delcred", u, c, None, None) /\ UNCHANGED cred
        /\ cred[c] # "unmade"
    BY <1>5 DEF StartDelCred, HasCred, CredRow, credVars
  <2>2. /\ pc[k] = "idle" /\ UNCHANGED <<changed, cred>>
        /\ \A j \in Jobs : j # k => pc'[j] = pc[j] /\ job'[j] = job[j]
        /\ pc'[k] = "read" /\ job'[k].op = "delcred" /\ job'[k].on = c
    BY <1>1, <2>1
  <2>4. \A d \in changed : d[1] \in Jobs /\ d[1] # k
    BY <1>0, <1>n, <2>2
  <2> QED
    BY <2>1, <2>2, <2>4 DEF CredFresh
<1>6. ASSUME NEW k \in Jobs, Committed(k), job[k].op # "newcred", job[k].on \in Things,
             \A c \in Creds : cred'[c] = "unmade" <=> cred[c] = "unmade"
      PROVE  CredFresh'
  <2>1. /\ \A j \in Jobs : j # k => pc'[j] = pc[j] /\ job'[j] = job[j]
        /\ pc'[k] = "committed" /\ job'[k].op = job[k].op
        /\ changed' = changed \cup {<<k, job[k].on>>}
    BY <1>0, <1>6, CommittedJob
  <2>2. changed' \subseteq Jobs \X Things
    BY <1>0, <1>6, <2>1
  <2>3. \A c \in changed' : job'[c[1]].op = "newcred" =>
           c \in changed /\ job[c[1]].op = "newcred" /\ job'[c[1]].on = job[c[1]].on
    BY <1>6, <2>1, <2>2
  <2> QED
    BY <1>6, <2>1, <2>2, <2>3, KeepsCredFresh
<1>7. ASSUME NEW k \in Jobs, NEW how \in {"done", "failed"}, Ends(k, how),
             UNCHANGED <<changed, cred>>
      PROVE  CredFresh'
  <2>1. /\ \A j \in Jobs : j # k => pc'[j] = pc[j] /\ job'[j] = job[j]
        /\ pc'[k] # "read"
        /\ job'[k].op = "newcred" => /\ job[k].op = "newcred"
                                     /\ job'[k].on = job[k].on
    BY <1>0, <1>7, EndsJob DEF NoJob
  <2> QED
    BY <1>0, <1>7, <2>1, KeepsCredFresh
<1>8. ASSUME NEW k \in Jobs,
             CommitUpdate(k) \/ CommitCreate(k) \/ CommitDelete(k) \/ CommitMove(k),
             UNCHANGED credVars
      PROVE  CredFresh'
  <2>1. /\ pc[k] = "read" /\ job[k].op # "newcred" /\ UNCHANGED cred
        /\ Committed(k) \/ (Ends(k, "failed") /\ UNCHANGED changed)
    BY <1>8 DEF CommitUpdate, CommitCreate, CommitDelete, CommitMove, credVars
  <2>2. job[k].on \in Things
    BY <2>1 DEF TypeInv, JobsOK, ReadOK, AboutOK, Things
  <2> QED
    BY <1>6, <1>7, <2>1, <2>2
<1>9. ASSUME NEW k \in Jobs, CommitCred(k) PROVE CredFresh'
  <2>1. /\ pc[k] = "read" /\ job[k].op \in {"newcred", "delcred"} /\ job[k].on \in Creds
        /\ job[k].on \in Things
    BY <1>9 DEF CommitCred, TypeInv, JobsOK, ReadOK, AboutOK, Things
  <2>2. CASE Ends(k, "failed") /\ UNCHANGED <<cred, changed>>
    BY <1>7, <2>2
  <2>3. CASE /\ job[k].op = "delcred" /\ Committed(k)
             /\ cred' = [cred EXCEPT ![job[k].on] = "gone"]
    <3>1. cred[job[k].on] # "unmade"
      BY <2>1, <2>3 DEF CredFresh
    <3>2. \A c \in Creds : cred'[c] = "unmade" <=> cred[c] = "unmade"
      BY <1>0, <2>3, <3>1
    <3> QED
      BY <1>6, <2>1, <2>3, <3>2
  <2>4. CASE /\ job[k].op = "newcred" /\ Committed(k)
             /\ cred' = [cred EXCEPT ![job[k].on] = "new"]
    <3>1. /\ \A j \in Jobs : j # k => pc'[j] = pc[j] /\ job'[j] = job[j]
          /\ pc'[k] = "committed" /\ job'[k].op = "newcred" /\ job'[k].on = job[k].on
          /\ changed' = changed \cup {<<k, job[k].on>>}
      BY <1>0, <2>4, CommittedJob
    <3>2. cred'[job[k].on] = "new" /\ \A c \in Creds : c # job[k].on => cred'[c] = cred[c]
      BY <1>0, <2>1, <2>4
    <3>3. \A c \in Creds : cred[c] # "unmade" => cred'[c] # "unmade"
      BY <3>2
    <3>4. ASSUME NEW j \in Jobs, pc'[j] = "read"
          PROVE  /\ job'[j].op = "newcred" => cred'[job'[j].on] = "unmade"
                 /\ job'[j].op = "delcred" => cred'[job'[j].on] # "unmade"
      <4>1. j # k /\ pc[j] = "read" /\ job'[j] = job[j]
        BY <3>1, <3>4
      <4>2. job[j].op \in {"newcred", "delcred"} => job[j].on \in Creds
        BY <4>1 DEF TypeInv, JobsOK, ReadOK, AboutOK
      <4>3. job[j].op = "newcred" => job[j].on # job[k].on
        BY <2>1, <2>4, <4>1 DEF CredFresh
      <4> QED
        BY <3>2, <3>3, <4>1, <4>2, <4>3 DEF CredFresh
    <3>5. ASSUME NEW c \in changed', job'[c[1]].op = "newcred"
          PROVE  job'[c[1]].on \in Creds /\ cred'[job'[c[1]].on] # "unmade"
      <4>1. CASE c[1] = k
        BY <2>1, <3>1, <3>2, <4>1
      <4>2. CASE c[1] # k
        <5>1. c \in changed /\ c[1] \in Jobs /\ job'[c[1]] = job[c[1]]
          BY <1>0, <3>1, <4>2
        <5> QED
          BY <3>3, <3>5, <5>1 DEF CredFresh
      <4> QED
        BY <4>1, <4>2
    <3>6. ASSUME NEW i \in Jobs, NEW j \in Jobs,
                 pc'[i] = "read", job'[i].op = "newcred",
                 pc'[j] = "read", job'[j].op = "newcred", job'[i].on = job'[j].on
          PROVE  i = j
      BY <3>1, <3>6 DEF CredFresh
    <3> QED
      BY <3>4, <3>5, <3>6 DEF CredFresh
  <2> QED
    BY <1>9, <2>1, <2>2, <2>3, <2>4 DEF CommitCred
<1>10. ASSUME NEW k \in Jobs, Audit(k) \/ SendRaises(k) PROVE CredFresh'
  BY <1>7, <1>10 DEF Audit, SendRaises, credVars
<1>11. ASSUME NEW k \in Jobs, Answer(k) PROVE CredFresh'
  <2>1. pc[k] = "waiting" /\ WaitOK(k) /\ UNCHANGED cred
    BY <1>11 DEF Answer, TypeInv, JobsOK
  <2>2. CASE UNCHANGED changed /\ \E how \in {"done", "failed"} : Ends(k, how)
    BY <1>7, <2>1, <2>2
  <2>3. ASSUME NEW n \in job[k].todo, Dispatch(k, n, job[k].to), UNCHANGED pc,
               job' = [job EXCEPT ![k].on = n, ![k].todo = @ \ {n}]
        PROVE  CredFresh'
    <3>1. job' = [job EXCEPT ![k] = [job[k] EXCEPT !.on = n, !.todo = job[k].todo \ {n}]]
      BY <2>3
    <3>2. /\ \A j \in Jobs : j # k => job'[j] = job[j]
          /\ job'[k].op = "apply" /\ pc'[k] = "waiting"
      BY <1>0, <2>1, <2>3, <3>1 DEF WaitOK, JobType
    <3>3. n \in Things /\ changed' = changed \cup {<<k, n>>}
      BY <2>1, <2>3 DEF Dispatch, WaitOK, Things
    <3>4. changed' \subseteq Jobs \X Things
      BY <1>0, <3>3
    <3>5. \A c \in changed' : job'[c[1]].op = "newcred" => c \in changed /\ c[1] # k
      BY <3>2, <3>3
    <3> QED
      BY <2>1, <2>3, <3>2, <3>4, <3>5, KeepsCredFresh
  <2> QED
    BY <1>11, <2>2, <2>3 DEF Answer
<1>12. ASSUME NEW k \in Jobs, NEW u \in Users, NEW c \in Creds, NEW n \in Nodes,
              NEW rest \in SUBSET (Nodes \ {n}), StartApply(k, u, c, n, rest)
       PROVE  CredFresh'
  <2>1. /\ pc[k] = "idle" /\ UNCHANGED cred
        /\ pc' = [pc EXCEPT ![k] = "waiting"]
        /\ job' = [job EXCEPT ![k] = [op |-> "apply", by |-> u, on |-> n, to |-> cap,
                                      seen |-> c, todo |-> rest]]
        /\ changed' = changed \cup {<<k, n>>}
    BY <1>12 DEF StartApply, Dispatch
  <2>2. /\ \A j \in Jobs : j # k => pc'[j] = pc[j] /\ job'[j] = job[j]
        /\ pc'[k] = "waiting" /\ job'[k].op = "apply"
    BY <1>0, <2>1
  <2>3. changed' \subseteq Jobs \X Things
    BY <1>0, <2>1 DEF Things
  <2>4. \A d \in changed' : job'[d[1]].op = "newcred" => d \in changed /\ d[1] # k
    BY <2>1, <2>2
  <2> QED
    BY <2>1, <2>2, <2>3, <2>4, KeepsCredFresh
<1>13. ASSUME HubEnds PROVE CredFresh'
  <2>1. /\ UNCHANGED <<changed, cred>>
        /\ \A j \in Jobs :
              IF j \in Running THEN pc'[j] = "failed" /\ job'[j].op = "none"
              ELSE pc'[j] = pc[j] /\ job'[j] = job[j]
    BY <1>0, <1>13 DEF HubEnds, HubStops, NoJob
  <2> QED
    BY <1>0, <2>1, KeepsCredFresh
<1>14. ASSUME UNCHANGED <<pc, job, changed>>,
              \A c \in Creds : cred'[c] = "unmade" <=> cred[c] = "unmade"
       PROVE  CredFresh'
  BY <1>0, <1>14, KeepsCredFresh
<1>15. ASSUME CopyRows PROVE CredFresh'
  <2>1. \A c \in Creds : cred'[c] = "unmade" <=> cred[c] = "unmade"
    BY <1>0, <1>15 DEF CopyRows
  <2> QED
    BY <1>14, <1>15, <2>1 DEF CopyRows
<1>16. ASSUME \/ Migrate \/ AddColumn \/ UNCHANGED accessVars
              \/ BootstrapAdmin /\ UNCHANGED credVars
              \/ \E v \in Versions : UpsertCapabilities(v)
       PROVE  CredFresh'
  BY <1>14, <1>16 DEF Migrate, AddColumn, BootstrapAdmin, UpsertCapabilities, accessVars,
     accountVars, credVars
<1> QED
  BY <1>3, <1>4, <1>5, <1>8, <1>9, <1>10, <1>11, <1>12, <1>13, <1>15, <1>16
     DEF AccessNext, AccountStep

-----------------------------------------------------------------------------
(***************************************************************************)
(* The audit log.  A change without an entry is the newest one of a        *)
(* request on its way to it, of one the hub's end or a raising send cut    *)
(* off, or of one that failed on a row that has gone, and gone for good.   *)
(***************************************************************************)
GoneFor(k) ==
    \/ \E u \in AuditReads(k) : u \in Users /\ ~Row(u)
    \/ job[k].op = "newcred" /\ job[k].on \in Creds /\ cred[job[k].on] = "gone"

Unaudited(c) ==
    \/ pc[c[1]] \in {"committed", "waiting"} /\ c[2] = job[c[1]].on
    \/ c[1] \in stopped \/ c \in unsent
    \/ pc[c[1]] = "failed" /\ GoneFor(c[1])

AuditInv ==
    /\ audit \subseteq changed
    /\ \A k \in Jobs : pc[k] \in {"committed", "waiting"} => <<k, job[k].on>> \in changed
    /\ \A c \in changed \ audit : Unaudited(c)

LEMMA InitAudit == AccessInit => AuditInv
  BY DEF AccessInit, AccountsInit, AuditInv

\* Ids are never used twice.
LEMMA GoneStays ==
    ASSUME TypeInv, FreshInv, [AccessNext]_accessVars,
           NEW u \in Users, u \notin fresh, ~Row(u)
    PROVE  ~Row(u)'
<1>0. grant \in [Users -> GrantType \cup {None}] /\ fresh \subseteq Users
  BY DEF TypeInv, AccessTypeOK, GrantType
<1>1. ASSUME NEW k \in Jobs, CommitUpdate(k) PROVE ~Row(u)'
  <2>1. \/ UNCHANGED grant
        \/ /\ Row(job[k].on)
           /\ \E new : grant' = [grant EXCEPT ![job[k].on] = new]
    BY <1>1 DEF CommitUpdate
  <2> QED
    BY <1>0, <2>1 DEF Row
<1>2. ASSUME NEW k \in Jobs, CommitCreate(k) PROVE ~Row(u)'
  <2>1. job[k].on \in fresh
    BY <1>2 DEF CommitCreate, FreshInv
  <2> QED
    BY <1>0, <1>2, <2>1 DEF CommitCreate, Row
<1>3. ASSUME NEW k \in Jobs, CommitDelete(k) PROVE ~Row(u)'
  BY <1>0, <1>3 DEF CommitDelete, Row
<1>4. ASSUME BootstrapAdmin PROVE ~Row(u)'
  BY <1>0, <1>4 DEF BootstrapAdmin, Row
<1>5. ASSUME UNCHANGED grant PROVE ~Row(u)'
  BY <1>5 DEF Row
<1>6. ASSUME NEW k \in Jobs, NEW v \in Users,
             \/ \E x \in Users : \/ \E to \in Grants : \/ StartUpdate(k, v, x, to)
                                                       \/ StartCreate(k, v, x, to)
                                 \/ StartDelete(k, v, x)
             \/ \E n \in Nodes, g \in Groups \cup {Empty} : StartMove(k, v, n, g)
             \/ \E c \in Creds : \/ StartNewCred(k, v, c) \/ StartDelCred(k, v, c)
                                 \/ \E n \in Nodes : \E rest \in SUBSET (Nodes \ {n}) :
                                       StartApply(k, v, c, n, rest)
      PROVE  ~Row(u)'
  BY <1>5, <1>6 DEF StartUpdate, StartCreate, StartDelete, StartMove, StartNewCred,
     StartDelCred, StartApply, Starts, userVars
<1>7. ASSUME NEW k \in Jobs, CommitMove(k) \/ Audit(k) \/ SendRaises(k)
                               \/ CommitCred(k) \/ Answer(k)
      PROVE  ~Row(u)'
  BY <1>5, <1>7 DEF CommitMove, Audit, SendRaises, CommitCred, Answer, userVars
<1>8. ASSUME \/ Migrate \/ AddColumn \/ CopyRows \/ HubEnds \/ UNCHANGED accessVars
             \/ \E v \in Versions : UpsertCapabilities(v)
      PROVE  ~Row(u)'
  BY <1>5, <1>8 DEF Migrate, AddColumn, CopyRows, HubEnds, HubStops,
     UpsertCapabilities, accessVars, accountVars, userVars
<1> QED
  BY <1>1, <1>2, <1>3, <1>4, <1>6, <1>7, <1>8 DEF AccessNext, AccountStep

\* ... nor the credentials'.
LEMMA GoneCredStays ==
    ASSUME TypeInv, CredFresh, [AccessNext]_accessVars, NEW c \in Creds, cred[c] = "gone"
    PROVE  cred'[c] = "gone"
<1>0. cred \in [Creds -> CredType]
  BY DEF TypeInv, AccessTypeOK, CredType
<1>1. ASSUME NEW k \in Jobs, CommitCred(k) PROVE cred'[c] = "gone"
  <2>1. job[k].op = "newcred" => job[k].on # c
    BY <1>1 DEF CommitCred, CredFresh
  <2> QED
    BY <1>0, <1>1, <2>1 DEF CommitCred
<1>2. ASSUME CopyRows PROVE cred'[c] = "gone"
  BY <1>0, <1>2 DEF CopyRows
<1>3. ASSUME NEW k \in Jobs, NEW u \in Users, NEW d \in Creds,
             \/ StartNewCred(k, u, d) \/ StartDelCred(k, u, d)
             \/ \E n \in Nodes : \E rest \in SUBSET (Nodes \ {n}) :
                   StartApply(k, u, d, n, rest)
      PROVE  cred'[c] = "gone"
  BY <1>3 DEF StartNewCred, StartDelCred, StartApply, credVars
<1>4. ASSUME NEW k \in Jobs, Audit(k) \/ SendRaises(k) \/ Answer(k) PROVE cred'[c] = "gone"
  BY <1>4 DEF Audit, SendRaises, Answer, credVars
<1>5. ASSUME \/ UNCHANGED credVars \/ Migrate \/ AddColumn \/ HubEnds
             \/ UNCHANGED accessVars \/ \E v \in Versions : UpsertCapabilities(v)
      PROVE  cred'[c] = "gone"
  BY <1>5 DEF Migrate, AddColumn, HubEnds, UpsertCapabilities, accessVars, credVars
<1> QED
  BY <1>1, <1>2, <1>3, <1>4, <1>5 DEF AccessNext

\* A request that does not move keeps what is said of its changes, and a
\* step of one request does so to the others.
LEMMA KeepsAudit ==
    ASSUME TypeInv, FreshInv, CredFresh, AuditInv, [AccessNext]_accessVars,
           NEW c \in changed, c \notin audit,
           pc'[c[1]] = pc[c[1]], job'[c[1]] = job[c[1]],
           stopped \subseteq stopped', unsent \subseteq unsent'
    PROVE  Unaudited(c)'
<1>1. AuditReads(c[1])' = AuditReads(c[1])
  BY DEF AuditReads
<1>2. AuditReads(c[1]) \cap fresh = {}
  BY DEF FreshInv
<1>3. ASSUME GoneFor(c[1]) PROVE GoneFor(c[1])'
  <2>1. CASE \E u \in AuditReads(c[1]) : u \in Users /\ ~Row(u)
    BY <1>1, <1>2, <2>1, GoneStays DEF GoneFor
  <2>2. CASE job[c[1]].op = "newcred" /\ job[c[1]].on \in Creds /\ cred[job[c[1]].on] = "gone"
    BY <2>2, GoneCredStays DEF GoneFor
  <2> QED
    BY <1>3, <2>1, <2>2 DEF GoneFor
<1> QED
  BY <1>3 DEF AuditInv, Unaudited

LEMMA MovesAudit ==
    ASSUME TypeInv, FreshInv, CredFresh, AuditInv, [AccessNext]_accessVars, NEW k \in Jobs,
           \A j \in Jobs : j # k => pc'[j] = pc[j] /\ job'[j] = job[j],
           stopped' = stopped, unsent \subseteq unsent',
           audit \subseteq audit', audit' \subseteq changed',
           changed \subseteq changed', changed' \subseteq Jobs \X Things,
           pc'[k] \in {"committed", "waiting"} => <<k, job'[k].on>> \in changed',
           \A c \in changed' : c[1] # k => c \in changed,
           \A c \in changed' \ audit' : c[1] = k => Unaudited(c)'
    PROVE  AuditInv'
<1>1. ASSUME NEW c \in changed' \ audit', c[1] # k PROVE Unaudited(c)'
  <2>1. c[1] \in Jobs /\ c \in changed /\ c \notin audit
    BY <1>1
  <2> QED
    BY <1>1, <2>1, KeepsAudit
<1> QED
  BY <1>1 DEF AuditInv

LEMMA StepAudit ==
    TypeInv /\ FreshInv /\ CredFresh /\ AuditInv /\ [AccessNext]_accessVars => AuditInv'
<1> SUFFICES ASSUME TypeInv, FreshInv, CredFresh, AuditInv, [AccessNext]_accessVars
             PROVE  AuditInv'
  OBVIOUS
<1>0. /\ pc \in [Jobs -> PcType] /\ job \in [Jobs -> JobType]
      /\ changed \subseteq Jobs \X Things /\ audit \subseteq changed
  BY DEF TypeInv, AccessTypeOK, JobsOK, PcType, Things, AuditInv
<1>n. \A k \in Jobs : pc[k] \in {"idle", "read"} => \A c \in changed : c[1] # k
  BY DEF FreshInv
<1>u. \A k \in Jobs : pc[k] \in {"committed", "waiting"} =>
         \A c \in changed \ audit :
            c[1] = k => c = <<k, job[k].on>> \/ k \in stopped \/ c \in unsent
  BY <1>0 DEF AuditInv, Unaudited
<1>1. ASSUME NEW k \in Jobs, NEW op, NEW u \in Users, NEW x, NEW to, NEW seen,
             Starts(k, op, u, x, to, seen), UNCHANGED unsent
      PROVE  AuditInv'
  <2>1. /\ pc[k] = "idle" /\ UNCHANGED <<changed, audit, stopped>>
        /\ \A j \in Jobs : j # k => pc'[j] = pc[j] /\ job'[j] = job[j]
        /\ pc'[k] = "read"
    BY <1>0, <1>1 DEF Starts
  <2> QED
    BY <1>0, <1>1, <1>n, <2>1, MovesAudit
<1>2. ASSUME NEW k \in Jobs,
             \/ /\ UNCHANGED unsent
                /\ \/ CommitUpdate(k) \/ CommitCreate(k) \/ CommitDelete(k)
                   \/ CommitMove(k)
             \/ CommitCred(k)
      PROVE  AuditInv'
  <2>1. /\ pc[k] = "read" /\ UNCHANGED <<audit, stopped, unsent>>
        /\ Committed(k) \/ (Ends(k, "failed") /\ UNCHANGED changed)
    BY <1>2 DEF CommitUpdate, CommitCreate, CommitDelete, CommitMove, CommitCred
  <2>2. /\ \A j \in Jobs : j # k => pc'[j] = pc[j] /\ job'[j] = job[j]
        /\ Ends(k, "failed") => pc'[k] = "failed"
    BY <1>0, <2>1, CommittedJob, EndsJob
  <2>3. CASE Committed(k)
    <3>1. /\ pc'[k] = "committed" /\ job'[k].on = job[k].on
          /\ changed' = changed \cup {<<k, job[k].on>>}
      BY <1>0, <2>3, CommittedJob
    <3>2. job[k].on \in Things
      BY <2>1 DEF TypeInv, JobsOK, ReadOK, AboutOK, Things
    <3>3. \A c \in changed' : c[1] = k => Unaudited(c)'
      BY <1>n, <2>1, <3>1 DEF Unaudited
    <3>4. changed' \subseteq Jobs \X Things /\ \A c \in changed' : c[1] # k => c \in changed
      BY <1>0, <3>1, <3>2
    <3> QED
      BY <1>0, <2>1, <2>2, <3>1, <3>3, <3>4, MovesAudit
  <2>4. CASE Ends(k, "failed") /\ UNCHANGED changed
    BY <1>0, <1>n, <2>1, <2>2, <2>4, MovesAudit
  <2> QED
    BY <2>1, <2>3, <2>4
<1>3. ASSUME NEW k \in Jobs, pc[k] \in {"committed", "waiting"},
             NEW how \in {"done", "failed"}, Ends(k, how),
             audit' = audit \cup {<<k, job[k].on>>},
             UNCHANGED <<changed, stopped, unsent>>
      PROVE  AuditInv'
  <2>1. /\ \A j \in Jobs : j # k => pc'[j] = pc[j] /\ job'[j] = job[j]
        /\ pc'[k] = how
    BY <1>0, <1>3, EndsJob
  <2>a. audit' \subseteq changed
    BY <1>3 DEF AuditInv
  <2>2. \A c \in changed \ audit' : c[1] = k => k \in stopped \/ c \in unsent
    BY <1>u, <1>3
  <2>3. changed' = changed /\ stopped' = stopped /\ unsent' = unsent
    BY <1>3
  <2>4. \A c \in changed' \ audit' : c[1] = k => Unaudited(c)'
    BY <2>2, <2>3 DEF Unaudited
  <2>5. audit \subseteq audit' /\ audit' \subseteq changed' /\ changed' \subseteq Jobs \X Things
    BY <1>0, <1>3, <2>a, <2>3
  <2>6. pc'[k] \notin {"committed", "waiting"}
    BY <2>1
  <2> QED
    BY <2>1, <2>3, <2>4, <2>5, <2>6, MovesAudit
<1>4. ASSUME NEW k \in Jobs, pc[k] \in {"committed", "waiting"}, Ends(k, "failed"),
             GoneFor(k), UNCHANGED <<grant, cred, changed, audit, stopped, unsent>>
      PROVE  AuditInv'
  <2>1. /\ \A j \in Jobs : j # k => pc'[j] = pc[j] /\ job'[j] = job[j]
        /\ pc'[k] = "failed"
        /\ job'[k].op = job[k].op /\ job'[k].by = job[k].by /\ job'[k].on = job[k].on
    BY <1>0, <1>4, EndsJob
  <2>2. GoneFor(k)'
    BY <1>4, <2>1 DEF GoneFor, AuditReads, Row
  <2>3. \A c \in changed : c[1] = k => Unaudited(c)'
    BY <2>1, <2>2 DEF Unaudited
  <2> QED
    BY <1>0, <1>4, <2>1, <2>3, MovesAudit
<1>5. ASSUME NEW k \in Jobs, Audit(k) PROVE AuditInv'
  <2>1. /\ pc[k] = "committed" /\ UNCHANGED <<grant, cred, changed, stopped, unsent>>
        /\ \/ Ends(k, "done") /\ audit' = audit \cup {<<k, job[k].on>>}
           \/ Ends(k, "failed") /\ UNCHANGED audit /\ AuditRowGone(k)
    BY <1>5 DEF Audit, userVars, credVars
  <2>2. AuditReads(k) \subseteq Users
    BY <2>1 DEF AuditReads, TypeInv, JobsOK
  <2>3. ASSUME AuditRowGone(k) PROVE GoneFor(k)
    <3>1. CASE \E u \in AuditReads(k) : ~Row(u)
      BY <2>2, <3>1 DEF GoneFor
    <3>2. CASE job[k].op = "newcred" /\ ~CredRow(job[k].on)
      <4>1. <<k, job[k].on>> \in changed
        BY <2>1 DEF AuditInv
      <4>2. job[k].on \in Creds /\ cred[job[k].on] # "unmade"
        BY <3>2, <4>1 DEF CredFresh
      <4>3. cred[job[k].on] = "gone"
        BY <3>2, <4>2 DEF CredRow, TypeInv, AccessTypeOK
      <4> QED
        BY <3>2, <4>2, <4>3 DEF GoneFor
    <3> QED
      BY <2>3, <3>1, <3>2 DEF AuditRowGone, AuditReads
  <2> QED
    BY <1>3, <1>4, <2>1, <2>3
<1>s. ASSUME NEW k \in Jobs, SendRaises(k) PROVE AuditInv'
  <2>1. /\ pc[k] = "waiting" /\ Ends(k, "failed")
        /\ unsent' = unsent \cup {<<k, job[k].on>>}
        /\ UNCHANGED <<changed, audit, stopped>>
    BY <1>s DEF SendRaises
  <2>2. /\ \A j \in Jobs : j # k => pc'[j] = pc[j] /\ job'[j] = job[j]
        /\ pc'[k] = "failed"
    BY <1>0, <2>1, EndsJob
  <2>3. \A c \in changed \ audit : c[1] = k => Unaudited(c)'
    BY <1>u, <2>1 DEF Unaudited
  <2> QED
    BY <1>0, <2>1, <2>2, <2>3, MovesAudit
<1>6. ASSUME NEW k \in Jobs, Answer(k) PROVE AuditInv'
  <2>1. pc[k] = "waiting" /\ WaitOK(k) /\ UNCHANGED <<grant, cred, stopped, unsent>>
    BY <1>6 DEF Answer, userVars, TypeInv, JobsOK
  <2>2. CASE ~Row(job[k].by) /\ Ends(k, "failed") /\ UNCHANGED <<audit, changed>>
    <3>1. GoneFor(k)
      BY <2>1, <2>2 DEF WaitOK, AuditReads, GoneFor
    <3> QED
      BY <1>4, <2>1, <2>2, <3>1
  <2>3. CASE /\ audit' = audit \cup {<<k, job[k].on>>} /\ UNCHANGED changed
             /\ \E how \in {"done", "failed"} : Ends(k, how)
    BY <1>3, <2>1, <2>3
  <2>4. ASSUME NEW n \in job[k].todo, Dispatch(k, n, job[k].to), UNCHANGED pc,
               job' = [job EXCEPT ![k].on = n, ![k].todo = @ \ {n}],
               audit' = audit \cup {<<k, job[k].on>>}
        PROVE  AuditInv'
    <3>1. job' = [job EXCEPT ![k] = [job[k] EXCEPT !.on = n, !.todo = job[k].todo \ {n}]]
      BY <2>4
    <3>2. /\ \A j \in Jobs : j # k => pc'[j] = pc[j] /\ job'[j] = job[j]
          /\ job'[k].on = n /\ pc'[k] = "waiting"
      BY <1>0, <2>1, <2>4, <3>1 DEF JobType
    <3>3. n \in Nodes /\ changed' = changed \cup {<<k, n>>}
      BY <2>1, <2>4 DEF Dispatch, WaitOK
    <3>4. /\ changed' \subseteq Jobs \X Things /\ changed \subseteq changed'
          /\ \A c \in changed' : c[1] # k => c \in changed
      BY <1>0, <3>3 DEF Things
    <3>5. audit' \subseteq changed'
      BY <2>1, <2>4, <3>3 DEF AuditInv
    <3>6. ASSUME NEW c \in changed' \ audit', c[1] = k PROVE Unaudited(c)'
      <4>1. CASE c \in changed
        <5>1. k \in stopped \/ c \in unsent
          BY <1>u, <2>1, <2>4, <3>6, <4>1
        <5> QED
          BY <2>1, <3>6, <5>1 DEF Unaudited
      <4>2. CASE c \notin changed
        <5>1. c = <<k, n>>
          BY <3>3, <4>2
        <5>2. c[1] = k /\ c[2] = n
          BY <5>1
        <5> QED
          BY <3>2, <5>2 DEF Unaudited
      <4> QED
        BY <4>1, <4>2
    <3>7. \A c \in changed' \ audit' : c[1] = k => Unaudited(c)'
      BY <3>6
    <3>8. <<k, job'[k].on>> \in changed' /\ audit \subseteq audit'
      BY <2>4, <3>2, <3>3
    <3> QED
      BY <2>1, <3>2, <3>4, <3>5, <3>7, <3>8, MovesAudit
  <2> QED
    BY <1>6, <2>2, <2>3, <2>4 DEF Answer
<1>7. ASSUME NEW k \in Jobs, NEW u \in Users, NEW c \in Creds, NEW n \in Nodes,
             NEW rest \in SUBSET (Nodes \ {n}), StartApply(k, u, c, n, rest)
      PROVE  AuditInv'
  <2>1. /\ pc[k] = "idle" /\ UNCHANGED <<audit, stopped, unsent>>
        /\ pc' = [pc EXCEPT ![k] = "waiting"]
        /\ job' = [job EXCEPT ![k] = [op |-> "apply", by |-> u, on |-> n, to |-> cap,
                                      seen |-> c, todo |-> rest]]
        /\ changed' = changed \cup {<<k, n>>}
    BY <1>7 DEF StartApply, Dispatch
  <2>2. /\ \A j \in Jobs : j # k => pc'[j] = pc[j] /\ job'[j] = job[j]
        /\ pc'[k] = "waiting" /\ job'[k].on = n
    BY <1>0, <2>1
  <2>3. /\ changed' \subseteq Jobs \X Things /\ changed \subseteq changed'
        /\ \A d \in changed' : d[1] # k => d \in changed
        /\ \A d \in changed' : d[1] = k => d[2] = n
    BY <1>0, <1>n, <2>1 DEF Things
  <2>4. \A d \in changed' \ audit' : d[1] = k => Unaudited(d)'
    BY <2>2, <2>3 DEF Unaudited
  <2> QED
    BY <1>0, <2>1, <2>2, <2>3, <2>4, MovesAudit
<1>8. ASSUME HubEnds PROVE AuditInv'
  <2>1. /\ UNCHANGED <<changed, audit, unsent>> /\ stopped' = stopped \cup Running
        /\ \A j \in Jobs :
              IF j \in Running THEN pc'[j] = "failed"
              ELSE pc'[j] = pc[j] /\ job'[j] = job[j]
    BY <1>0, <1>8 DEF HubEnds, HubStops
  <2>2. \A j \in Jobs : pc'[j] \notin {"committed", "waiting"}
    BY <1>0, <2>1 DEF Running, PcType
  <2>3. ASSUME NEW c \in changed, c \notin audit PROVE Unaudited(c)'
    <3>1. c[1] \in Jobs
      BY <1>0
    <3>2. CASE c[1] \in Running
      BY <2>1, <3>2 DEF Unaudited
    <3>3. CASE c[1] \notin Running
      BY <2>1, <2>3, <3>1, <3>3, KeepsAudit
    <3> QED
      BY <3>2, <3>3
  <2> QED
    BY <1>0, <2>1, <2>2, <2>3 DEF AuditInv
<1>9. ASSUME UNCHANGED <<pc, job, changed, audit, stopped, unsent>> PROVE AuditInv'
  <2>1. ASSUME NEW c \in changed, c \notin audit PROVE Unaudited(c)'
    BY <1>9, <2>1, KeepsAudit
  <2> QED
    BY <1>9, <2>1 DEF AuditInv
<1>10. ASSUME \/ Migrate \/ AddColumn \/ CopyRows
              \/ BootstrapAdmin /\ UNCHANGED credVars
              \/ UNCHANGED accessVars \/ \E v \in Versions : UpsertCapabilities(v)
       PROVE  AuditInv'
  BY <1>9, <1>10 DEF Migrate, AddColumn, CopyRows, BootstrapAdmin, UpsertCapabilities,
     accessVars, accountVars, credVars
<1>11. ASSUME NEW k \in Jobs, NEW u \in Users,
              \/ /\ UNCHANGED credVars
                 /\ \/ \E x \in Users : \/ \E to \in Grants : \/ StartUpdate(k, u, x, to)
                                                              \/ StartCreate(k, u, x, to)
                                        \/ StartDelete(k, u, x)
                    \/ \E n \in Nodes, g \in Groups \cup {Empty} : StartMove(k, u, n, g)
              \/ \E c \in Creds : StartNewCred(k, u, c) \/ StartDelCred(k, u, c)
       PROVE  AuditInv'
  BY <1>1, <1>11 DEF StartUpdate, StartCreate, StartDelete, StartMove, StartNewCred,
     StartDelCred, credVars
<1> QED
  BY <1>2, <1>5, <1>s, <1>6, <1>7, <1>8, <1>10, <1>11 DEF AccessNext, AccountStep, credVars

\* A committed change goes without an audit entry only as long as its request
\* is at it, or if the hub ended, the send raised or a row the entry is
\* written from went between the two commits.
THEOREM AccessChangesAudited == AccessSpec => []ChangesAudited
<1>1. ASSUME TypeInv, AuditInv PROVE ChangesAudited
  <2>1. ASSUME NEW c \in changed, GoneFor(c[1]) PROVE AuditRowGone(c[1])
    BY <2>1 DEF GoneFor, AuditReads, AuditRowGone, CredRow
  <2> QED
    BY <1>1, <2>1 DEF AuditInv, Unaudited, ChangesAudited
<1> QED
  BY <1>1, InitTypes, StepTypes, InitFresh, StepFresh, InitCredFresh, StepCredFresh,
     InitAudit, StepAudit, PTL
     DEF AccessSpec

-----------------------------------------------------------------------------
(***************************************************************************)
(* Secrets.  The field a waiting request masks is the secret's field now,  *)
(* unless that has changed while the request waited.                       *)
(***************************************************************************)
SecretInv ==
    /\ \A k \in Jobs : (pc[k] = "waiting" /\ k \notin shifted)
                           => KeyField[job[k].to] = KeyField[cap]
    /\ SecretsRedacted

LEMMA InitSecret == AccessInit => SecretInv
  BY DEF AccessInit, AccountsInit, SecretInv, SecretsRedacted

LEMMA StepSecret ==
    TypeInv /\ SecretInv /\ [AccessNext]_accessVars => SecretInv'
<1> SUFFICES ASSUME TypeInv, SecretInv, [AccessNext]_accessVars PROVE SecretInv'
  OBVIOUS
<1>0. /\ pc \in [Jobs -> PcType] /\ job \in [Jobs -> JobType]
      /\ plain \subseteq Jobs \X Nodes
  BY DEF TypeInv, AccessTypeOK, JobsOK, PcType
<1>1. ASSUME UNCHANGED <<plain, shifted, cap>>, audit \subseteq audit',
             \A k \in Jobs : pc'[k] = "waiting" => pc[k] = "waiting" /\ job'[k] = job[k]
      PROVE  SecretInv'
  BY <1>1 DEF SecretInv, SecretsRedacted
<1>2. ASSUME NEW v \in Versions, UpsertCapabilities(v) PROVE SecretInv'
  BY <1>2 DEF UpsertCapabilities, accountVars, SecretInv, SecretsRedacted
<1>3. ASSUME NEW k \in Jobs, NEW u \in Users, NEW c \in Creds, NEW n \in Nodes,
             NEW rest \in SUBSET (Nodes \ {n}), StartApply(k, u, c, n, rest)
      PROVE  SecretInv'
  <2>1. /\ pc' = [pc EXCEPT ![k] = "waiting"]
        /\ job' = [job EXCEPT ![k] = [op |-> "apply", by |-> u, on |-> n, to |-> cap,
                                      seen |-> c, todo |-> rest]]
        /\ UNCHANGED <<plain, audit, cap, shifted>>
    BY <1>3 DEF StartApply, Dispatch, Redacted
  <2>2. /\ \A j \in Jobs : j # k => pc'[j] = pc[j] /\ job'[j] = job[j]
        /\ job'[k].to = cap
    BY <1>0, <2>1
  <2> QED
    BY <2>1, <2>2 DEF SecretInv, SecretsRedacted
<1>4. ASSUME NEW k \in Jobs, Answer(k) PROVE SecretInv'
  <2>1. /\ pc[k] = "waiting" /\ WaitOK(k) /\ UNCHANGED <<cap, shifted>>
        /\ audit \subseteq audit'
    BY <1>4 DEF Answer, TypeInv, JobsOK
  <2>2. CASE UNCHANGED plain /\ \E how \in {"done", "failed"} : Ends(k, how)
    <3>1. /\ \A j \in Jobs : j # k => pc'[j] = pc[j] /\ job'[j] = job[j]
          /\ pc'[k] \in {"done", "failed"}
      BY <1>0, <2>2, EndsJob
    <3> QED
      BY <1>1, <2>1, <2>2, <3>1
  <2>3. ASSUME NEW n \in job[k].todo, Dispatch(k, n, job[k].to), UNCHANGED pc,
               job' = [job EXCEPT ![k].on = n, ![k].todo = @ \ {n}],
               audit' = audit \cup {<<k, job[k].on>>}
        PROVE  SecretInv'
    <3>1. job' = [job EXCEPT ![k] = [job[k] EXCEPT !.on = n, !.todo = job[k].todo \ {n}]]
      BY <2>3
    <3>2. \A j \in Jobs : job'[j].to = job[j].to
      BY <1>0, <3>1 DEF JobType
    <3>3. job[k].on \in Nodes /\ n # job[k].on
      BY <2>1, <2>3 DEF WaitOK
    <3>4. ASSUME NEW c \in plain', c \notin plain
          PROVE  /\ c[1] \in shifted
                 /\ \E m \in Nodes : m # c[2] /\ <<c[1], m>> \in audit'
      <4>1. c = <<k, n>> /\ KeyField[job[k].to] # KeyField[cap]
        BY <2>3, <3>4 DEF Dispatch, Redacted
      <4>2. k \in shifted
        BY <2>1, <4>1 DEF SecretInv
      <4> QED
        BY <2>3, <3>3, <4>1, <4>2
    <3>5. \A c \in plain : \E m \in Nodes : m # c[2] /\ <<c[1], m>> \in audit'
      BY <2>1 DEF SecretInv, SecretsRedacted
    <3> QED
      BY <2>1, <2>3, <3>2, <3>4, <3>5 DEF SecretInv, SecretsRedacted
  <2> QED
    BY <1>4, <2>2, <2>3 DEF Answer
<1>5. ASSUME NEW k \in Jobs, NEW op, NEW u \in Users, NEW x, NEW to, NEW seen,
             Starts(k, op, u, x, to, seen), UNCHANGED credVars
      PROVE  SecretInv'
  <2>1. \A j \in Jobs : pc'[j] = "waiting" => pc[j] = "waiting" /\ job'[j] = job[j]
    BY <1>0, <1>5 DEF Starts
  <2> QED
    BY <1>1, <1>5, <2>1 DEF Starts, credVars
<1>6. ASSUME NEW k \in Jobs, NEW u \in Users,
             \/ /\ UNCHANGED credVars
                /\ \/ \E x \in Users : \/ \E to \in Grants : \/ StartUpdate(k, u, x, to)
                                                             \/ StartCreate(k, u, x, to)
                                       \/ StartDelete(k, u, x)
                   \/ \E n \in Nodes, g \in Groups \cup {Empty} : StartMove(k, u, n, g)
             \/ \E c \in Creds : StartNewCred(k, u, c) \/ StartDelCred(k, u, c)
      PROVE  SecretInv'
  BY <1>5, <1>6 DEF StartUpdate, StartCreate, StartDelete, StartMove, StartNewCred,
     StartDelCred
<1>7. ASSUME NEW k \in Jobs, UNCHANGED <<plain, shifted, cap>>, audit \subseteq audit',
             Committed(k) \/ Ends(k, "failed") \/ Ends(k, "done")
      PROVE  SecretInv'
  <2>1. \A j \in Jobs : pc'[j] = "waiting" => pc[j] = "waiting" /\ job'[j] = job[j]
    BY <1>0, <1>7, CommittedJob, EndsJob
  <2> QED
    BY <1>1, <1>7, <2>1
<1>8. ASSUME NEW k \in Jobs,
             \/ /\ UNCHANGED credVars
                /\ \/ CommitUpdate(k) \/ CommitCreate(k) \/ CommitDelete(k)
                   \/ CommitMove(k)
             \/ CommitCred(k) \/ Audit(k) \/ SendRaises(k)
      PROVE  SecretInv'
  BY <1>7, <1>8 DEF CommitUpdate, CommitCreate, CommitDelete, CommitMove, CommitCred,
     Audit, SendRaises, credVars
<1>9. ASSUME HubEnds PROVE SecretInv'
  <2>1. \A j \in Jobs : pc'[j] = "waiting" => pc[j] = "waiting" /\ job'[j] = job[j]
    BY <1>0, <1>9 DEF HubEnds, HubStops, Running
  <2> QED
    BY <1>1, <1>9, <2>1 DEF HubEnds, HubStops
<1>10. ASSUME \/ Migrate \/ AddColumn \/ CopyRows \/ UNCHANGED accessVars
              \/ BootstrapAdmin /\ UNCHANGED credVars
       PROVE  SecretInv'
  BY <1>1, <1>10 DEF Migrate, AddColumn, CopyRows, BootstrapAdmin, accessVars,
     accountVars, credVars
<1> QED
  BY <1>2, <1>3, <1>4, <1>6, <1>8, <1>9, <1>10 DEF AccessNext, AccountStep

\* A stored command shows a secret only if the secret's field has changed
\* while its batch was waiting for an earlier node's answer.
THEOREM AccessSecretsRedacted == AccessSpec => []SecretsRedacted
<1>1. SecretInv => SecretsRedacted
  BY DEF SecretInv
<1> QED
  BY <1>1, InitTypes, StepTypes, InitSecret, StepSecret, PTL DEF AccessSpec
=============================================================================
