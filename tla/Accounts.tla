------------------------------- MODULE Accounts -------------------------------
(***************************************************************************)
(* The hub's accounts: users with a role and a scope, what each may see    *)
(* and change, and the endpoints that change users and the nodes' groups.  *)
(*                                                                         *)
(* A request ("job") runs in a worker thread: it reads who asks and what   *)
(* it is about, commits the change, and commits the audit entry; other     *)
(* requests come between these three.  Credentials adds the endpoints      *)
(* about saved credentials, the audit entries, and the specification.      *)
(***************************************************************************)
CONSTANTS
    Users,      \* user ids, never used twice (bound: ids that can be made)
    Nodes, Groups,
    Grants,     \* the [role, scope] pairs an admin gives
    Jobs,       \* requests
    Admin,      \* the admin role's [role, scope]
    Before,     \* users tables an earlier run of the hub may have left
    Empty, None     \* the empty string, and nothing

ASSUME GrantAssumption ==
    /\ Admin \in Grants /\ Admin.role = "admin"
    /\ \A g \in Grants :
          /\ g.role \in {"admin", "group_manager", "machine_manager", "viewer"}
          /\ g.scope \subseteq Groups \cup Nodes \cup {Empty}
    /\ None \notin Users \cup Grants
          \cup [role : {g.role : g \in Grants}, scope : {g.scope : g \in Grants}]
    /\ \A b \in Before :
          /\ b \in [Users -> Grants \cup {None}]
          /\ \/ \A u \in Users : b[u] = None
             \/ \E u \in Users : b[u] # None /\ b[u].role = "admin"

VARIABLES
    hub,        \* "down", a step of its start, or "up"
    grant,      \* the users table: role and scope of each id, None: no row
    fresh,      \* ids no user has had yet
    groupOf,    \* the nodes' group column, Empty for none
    pc, job,    \* where each request is, and what it is
    changed,    \* history: <<job, thing>> committed
    audit,      \* history: <<job, thing>> with an audit entry
    excuse,     \* history: ways in which the last admin may have gone
    stopped     \* history: jobs the hub's end has cut off

userVars    == <<grant, fresh, excuse>>
accountVars == <<hub, userVars, groupOf, pc, job, changed, audit,
                 stopped>>

NoJob == [op |-> "none", by |-> None, on |-> None, to |-> None, seen |-> None,
          todo |-> {}]

AccountsInit ==
    /\ hub = "down"
    /\ grant \in Before
    /\ fresh = {u \in Users : grant[u] = None}
    /\ groupOf = [n \in Nodes |-> Empty]
    /\ pc = [k \in Jobs |-> "idle"]
    /\ job = [k \in Jobs |-> NoJob]
    /\ changed = {} /\ audit = {} /\ stopped = {}
    /\ excuse = {}

Row(u) == grant[u] # None

Running == {k \in Jobs : pc[k] \notin {"idle", "done", "failed"}}

Is(u, role) == Row(u) /\ grant[u].role = role

-----------------------------------------------------------------------------
(***************************************************************************)
(* Who may do what (auth.py, scoped_nodes_query).                          *)
(***************************************************************************)
\* Slip: the comma-separated scope is split, and its empty parts stay.
MutScopeListKeepsEmpty(u) == grant[u].scope

ScopeList(u) == grant[u].scope \ {Empty}

CanAccessNode(u, n, write) ==
    \/ Is(u, "admin")
    \/ Is(u, "viewer") /\ ~write
    \/ Is(u, "group_manager") /\ groupOf[n] # Empty /\ groupOf[n] \in ScopeList(u)
    \/ Is(u, "machine_manager") /\ n \in ScopeList(u)

RequireGroupAccess(u, g) ==
    Is(u, "admin") \/ (Is(u, "group_manager") /\ g # Empty /\ g \in ScopeList(u))

ScopedNodes(u) ==
    {n \in Nodes : /\ Is(u, "group_manager") => groupOf[n] \in ScopeList(u)
                   /\ Is(u, "machine_manager") => n \in ScopeList(u)}

-----------------------------------------------------------------------------
\* A job's first step, by u, about x: its session, its account and the rows
\* it is about are read.  (Any user can have logged in; a session whose
\* user's row has gone opens nothing.)
Starts(k, op, u, x, to, seen) ==
    /\ hub = "up" /\ pc[k] = "idle"
    /\ Row(u)
    /\ pc' = [pc EXCEPT ![k] = "read"]
    /\ job' = [job EXCEPT ![k] = [op |-> op, by |-> u, on |-> x, to |-> to,
                                  seen |-> seen, todo |-> {}]]
    /\ UNCHANGED <<hub, userVars, groupOf, changed, audit, stopped>>

\* PUT and POST /api/users, by an admin.
StartUpdate(k, u, x, to) ==
    /\ Is(u, "admin") /\ Row(x)
    /\ Starts(k, "update", u, x, to, grant[x])

StartCreate(k, u, x, to) ==
    /\ Is(u, "admin") /\ x \in fresh /\ \A q \in Running : job[q].on # x
    /\ Starts(k, "create", u, x, to, None)

\* Slip: one's own account may be deleted.
MutStartDeleteSelf(k, u, x) ==
    /\ Is(u, "admin") /\ Row(x)
    /\ Starts(k, "delete", u, x, None, None)

\* DELETE /api/users/x: never one's own.
StartDelete(k, u, x) ==
    /\ Is(u, "admin") /\ Row(x) /\ x # u
    /\ Starts(k, "delete", u, x, None, None)

\* PUT /api/nodes/n/group
StartMove(k, u, n, g) ==
    /\ CanAccessNode(u, n, TRUE)
    /\ Starts(k, "move", u, n, g, groupOf[n])

-----------------------------------------------------------------------------
Committed(k) ==
    /\ pc' = [pc EXCEPT ![k] = "committed"]
    /\ job' = [job EXCEPT ![k].to = None, ![k].seen = None]
    /\ changed' = changed \cup {<<k, job[k].on>>}

\* Its answer is sent; what it was about stays for ChangesAudited.
Ends(k, how) ==
    /\ pc' = [pc EXCEPT ![k] = how]
    /\ job' = [job EXCEPT ![k] = IF how = "done" THEN NoJob
                 ELSE [@ EXCEPT !.to = None, !.seen = None, !.todo = {}]]

Demotes(before, after) == before.role = "admin" /\ after.role # "admin"

\* Only columns that differ from what was read are written; to write some
\* in a row that has gone is an error (StaleDataError: HTTP 500).
CommitUpdate(k) ==
    LET j   == job[k]
        new == [role |-> IF j.to.role # j.seen.role THEN j.to.role
                         ELSE grant[j.on].role,
                scope |-> IF j.to.scope # j.seen.scope THEN j.to.scope
                          ELSE grant[j.on].scope]
    IN
    /\ pc[k] = "read" /\ j.op = "update"
    /\ \/ /\ j.to = j.seen
          /\ Committed(k)
          /\ UNCHANGED <<grant, excuse>>
       \/ /\ j.to # j.seen /\ ~Row(j.on)
          /\ Ends(k, "failed")
          /\ UNCHANGED <<grant, excuse, changed>>
       \/ /\ j.to # j.seen /\ Row(j.on)
          /\ grant' = [grant EXCEPT ![j.on] = new]
          /\ excuse' = IF Demotes(grant[j.on], new)
                       THEN excuse \cup {"demoted"} ELSE excuse
          /\ Committed(k)
    /\ UNCHANGED <<hub, fresh, groupOf, audit, stopped>>

\* ... or the username is taken (409, or 500 if it was taken meanwhile);
\* usernames are left out, so any job may find it so.
CommitCreate(k) ==
    LET j == job[k] IN
    /\ pc[k] = "read" /\ j.op = "create"
    /\ \/ /\ grant' = [grant EXCEPT ![j.on] = j.to]
          /\ fresh' = fresh \ {j.on}
          /\ Committed(k)
       \/ /\ Ends(k, "failed")
          /\ UNCHANGED <<grant, fresh, changed>>
    /\ UNCHANGED <<hub, excuse, groupOf, audit, stopped>>

\* To delete a row that has gone is no error.
CommitDelete(k) ==
    LET j == job[k] IN
    /\ pc[k] = "read" /\ j.op = "delete"
    /\ grant' = [grant EXCEPT ![j.on] = None]
    /\ excuse' = IF Is(j.by, "admin") THEN excuse ELSE excuse \cup {"crossed"}
    /\ Committed(k)
    /\ UNCHANGED <<hub, fresh, groupOf, audit, stopped>>

CommitMove(k) ==
    LET j == job[k] IN
    /\ pc[k] = "read" /\ j.op = "move"
    /\ groupOf' = [groupOf EXCEPT ![j.on] = IF j.to = j.seen THEN @ ELSE j.to]
    /\ Committed(k)
    /\ UNCHANGED <<hub, userVars, audit, stopped>>

-----------------------------------------------------------------------------
\* bootstrap_admin_user: the first boot, or all users gone.
BootstrapAdmin ==
    /\ hub = "migrated"
    /\ hub' = "up"
    /\ IF \E u \in Users : Row(u) THEN UNCHANGED <<grant, fresh>>
       ELSE \E u \in fresh : /\ grant' = [grant EXCEPT ![u] = Admin]
                             /\ fresh' = fresh \ {u}
    /\ UNCHANGED <<excuse, groupOf, pc, job, changed, audit, stopped>>

HubStops ==
    /\ hub # "down" /\ hub' = "down"
    /\ pc' = [k \in Jobs |-> IF k \in Running THEN "failed" ELSE pc[k]]
    /\ job' = [k \in Jobs |-> IF k \in Running THEN NoJob ELSE job[k]]
    /\ stopped' = stopped \cup Running
    /\ UNCHANGED <<userVars, groupOf, changed, audit>>

AccountStep ==
    \/ \E k \in Jobs :
          \/ \E u, x \in Users :
                \/ \E to \in Grants : StartUpdate(k, u, x, to) \/ StartCreate(k, u, x, to)
                \/ StartDelete(k, u, x)
          \/ \E u \in Users, n \in Nodes, g \in Groups \cup {Empty} : StartMove(k, u, n, g)
          \/ CommitUpdate(k) \/ CommitCreate(k) \/ CommitDelete(k) \/ CommitMove(k)
    \/ BootstrapAdmin

-----------------------------------------------------------------------------
\* A hub that serves has an admin, unless somebody took the role from one, or
\* a deletion was committed for an admin who was none any more: "cannot delete
\* your own account" keeps the last admin from every other deletion.
AdminRemains ==
    (hub = "up" /\ excuse = {}) => \E u \in Users : Is(u, "admin")

\* A node is in the list a user is shown (scoped_nodes_query) exactly if the
\* user may open it (can_access_node).
VisibleIsReadable ==
    \A u \in Users : Row(u) =>
        ScopedNodes(u) = {n \in Nodes : CanAccessNode(u, n, FALSE)}
=============================================================================
