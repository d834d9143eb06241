----------------------------- MODULE Credentials ------------------------------
(***************************************************************************)
(* Saved credentials, next to the accounts whose requests create, delete   *)
(* and apply them: the migration of their table when the hub starts, the   *)
(* registry of backend capabilities that the nodes' status frames write    *)
(* and that says which payload field is the secret, and the endpoints.     *)
(*                                                                         *)
(* Applying runs on the event loop, so from one await to the next it is    *)
(* one step; deleting runs in a worker thread and comes between any two    *)
(* commits.  What happens to the command itself is CommandDispatch's.      *)
(*                                                                         *)
(* A commit expires the rows its session has read: what the audit entry    *)
(* says of them is read from the database again, and their absence raises. *)
(***************************************************************************)
EXTENDS Accounts, Naturals

CONSTANTS
    Creds,      \* credential ids, never used twice (bound, like Users)
    Versions,   \* of the backend's package, as the nodes run them
    KeyField    \* the payload field each version's action takes the secret in

VARIABLES
    columns,    \* how many of the three new columns credential_keys has
    cred,       \* each id's row: the columns the secret is in, if there is one
    cap,        \* the version whose capabilities were reported last
    unsent,     \* history: <<job, node>> whose command's send raised
    plain,      \* history: <<job, node>> whose commands row shows the secret
    shifted,    \* history: jobs the secret's field has changed under
    cutOff      \* history: the migration was cut off after its first column

credVars   == <<columns, cred, cap, unsent, plain, shifted, cutOff>>
accessVars == <<accountVars, credVars>>

AccessTypeOK ==
    /\ hub \in {"down", "migrating", "migrated", "up"}
    /\ grant \in [Users -> Grants \cup {None}
                    \cup [role : {g.role : g \in Grants}, scope : {g.scope : g \in Grants}]]
    /\ fresh \subseteq {u \in Users : grant[u] = None}
    /\ groupOf \in [Nodes -> Groups \cup {Empty}]
    /\ pc \in [Jobs -> {"idle", "read", "committed", "waiting", "done", "failed"}]
    /\ \A k \in Jobs : pc[k] = "idle" => job[k] = NoJob
    /\ changed \cup audit \subseteq Jobs \X (Users \cup Nodes \cup Creds)
    /\ stopped \cup shifted \subseteq Jobs
    /\ excuse \subseteq {"demoted", "crossed"}
    /\ columns \in 0..3
    /\ cred \in [Creds -> {"unmade", "old", "new", "gone"}]
    /\ cap \in Versions \cup {None}
    /\ plain \cup unsent \subseteq Jobs \X Nodes
    /\ cutOff \in BOOLEAN

\* The database is new, or one from before the columns were added.
AccessInit ==
    /\ AccountsInit
    /\ \/ columns = 0 /\ cred \in [Creds -> {"unmade", "old"}]
       \/ columns = 3 /\ cred = [c \in Creds |-> "unmade"]
    /\ cap = None
    /\ plain = {} /\ unsent = {} /\ shifted = {}
    /\ cutOff = FALSE

-----------------------------------------------------------------------------
(***************************************************************************)
(* init_db.  SQLite commits each ALTER TABLE at once; the copy of the rows *)
(* is a transaction, committed with the migration's end.                   *)
(***************************************************************************)
\* Slip: that the table is there is taken for the sign.
MutMigrate ==
    /\ hub = "down"
    /\ hub' = "migrated"
    /\ UNCHANGED <<userVars, groupOf, pc, job, changed, audit, stopped,
                   credVars>>

\* "already migrated" is what the first new column says.
Migrate ==
    /\ hub = "down"
    /\ hub' = IF columns > 0 THEN "migrated" ELSE "migrating"
    /\ UNCHANGED <<userVars, groupOf, pc, job, changed, audit, stopped,
                   credVars>>

\* Slip: a column is added without looking which ones there are.
MutAddColumn ==
    /\ hub = "migrating"
    /\ columns' = columns + 1
    /\ UNCHANGED <<accountVars, cred, cap, unsent, plain, shifted, cutOff>>

AddColumn ==
    /\ hub = "migrating" /\ columns < 3
    /\ columns' = columns + 1
    /\ UNCHANGED <<accountVars, cred, cap, unsent, plain, shifted, cutOff>>

CopyRows ==
    /\ hub = "migrating" /\ columns = 3
    /\ hub' = "migrated"
    /\ cred' = [c \in Creds |-> IF cred[c] = "old" THEN "new" ELSE cred[c]]
    /\ UNCHANGED <<userVars, groupOf, pc, job, changed, audit, stopped,
                   columns, cap, unsent, plain, shifted, cutOff>>

HubEnds ==
    /\ HubStops
    /\ cutOff' = (cutOff \/ (hub = "migrating" /\ columns > 0))
    /\ UNCHANGED <<columns, cred, cap, unsent, plain, shifted>>

-----------------------------------------------------------------------------
\* A status frame's capabilities: the last writer wins.
UpsertCapabilities(v) ==
    /\ hub = "up"
    /\ cap' = v
    /\ shifted' = shifted \cup
          {k \in Jobs : pc[k] = "waiting" /\ KeyField[job[k].to] # KeyField[v]}
    /\ UNCHANGED <<accountVars, columns, cred, unsent, plain, cutOff>>

CredRow(c) == cred[c] \in {"old", "new"}

\* A table without all its columns answers every query with an error.
HasCred(c) == columns = 3 /\ CredRow(c)

\* A node has reported the backend and its credential action.
ActionKnown == cap # None

StartNewCred(k, u, c) ==
    /\ Is(u, "admin") /\ columns = 3 /\ ActionKnown
    /\ cred[c] = "unmade" /\ \A q \in Running : job[q].on # c
    /\ Starts(k, "newcred", u, c, None, None)
    /\ UNCHANGED credVars

StartDelCred(k, u, c) ==
    /\ Is(u, "admin") /\ HasCred(c)
    /\ Starts(k, "delcred", u, c, None, None)
    /\ UNCHANGED credVars

\* A name somebody else has saved meanwhile fails the commit; names are left
\* out, so any job may find it so.  To delete a row that has gone is no error.
CommitCred(k) ==
    LET j == job[k] IN
    /\ pc[k] = "read" /\ j.op \in {"newcred", "delcred"}
    /\ \/ /\ j.op = "newcred"
          /\ Ends(k, "failed")
          /\ UNCHANGED <<cred, changed>>
       \/ /\ cred' = [cred EXCEPT ![j.on] = IF j.op = "newcred" THEN "new" ELSE "gone"]
          /\ Committed(k)
    /\ UNCHANGED <<hub, userVars, groupOf, audit, stopped, columns, cap,
                   unsent, plain, shifted, cutOff>>

-----------------------------------------------------------------------------
\* Slip: it is taken for done without the entry.
MutAuditSkipped(k) ==
    /\ pc[k] = "committed"
    /\ pc' = [pc EXCEPT ![k] = "done"]
    /\ UNCHANGED <<hub, userVars, groupOf, job, changed, audit, stopped,
                   credVars>>

\* A row that the audit entry's arguments or record_audit itself read again
\* after the commit has gone: the asker's, or the one made or changed.
AuditRowGone(k) ==
    \/ ~Row(job[k].by)
    \/ job[k].op \in {"update", "create"} /\ ~Row(job[k].on)
    \/ job[k].op = "newcred" /\ ~CredRow(job[k].on)

\* record_audit, a transaction of its own; or a row has gone, which raises.
Audit(k) ==
    /\ pc[k] = "committed"
    /\ \/ /\ ~AuditRowGone(k)
          /\ audit' = audit \cup {<<k, job[k].on>>}
          /\ Ends(k, "done")
       \/ /\ AuditRowGone(k)
          /\ Ends(k, "failed")
          /\ UNCHANGED audit
    /\ UNCHANGED <<hub, userVars, groupOf, changed, stopped, credVars>>

-----------------------------------------------------------------------------
\* Slip: the one field the first backend had is all that is masked.
MutRedacted(v, now) == KeyField[v] = KeyField[CHOOSE x \in Versions : TRUE]

\* _redact_payload: a payload built for version v, and what is registered now
\* (a backend that names a key_field counts it among its sensitive fields).
Redacted(v, now) == KeyField[v] = KeyField[now]

\* dispatch_command up to its first await, for node n: the row is committed
\* and the command on its way.
Dispatch(k, n, v) ==
    /\ changed' = changed \cup {<<k, n>>}
    /\ plain' = IF Redacted(v, cap) THEN plain ELSE plain \cup {<<k, n>>}

\* The nodes u may apply a credential to: one, a group, or all of them.
Targets(u) ==
    {{n} : n \in {m \in Nodes : CanAccessNode(u, m, TRUE)}}
    \cup {{n \in Nodes : groupOf[n] = g} : g \in {h \in Groups : RequireGroupAccess(u, h)}}
    \cup {Nodes : x \in {y \in {u} : Is(y, "admin")}}

\* Apply c.  Of the targets, those online now and when their turn comes are
\* sent the command; with none online nothing at all is done.
StartApply(k, u, c, n, rest) ==
    /\ hub = "up" /\ pc[k] = "idle" /\ Row(u)
    /\ HasCred(c) /\ ActionKnown
    /\ n \notin rest /\ \E t \in Targets(u) : {n} \cup rest \subseteq t
    /\ pc' = [pc EXCEPT ![k] = "waiting"]
    /\ job' = [job EXCEPT ![k] = [op |-> "apply", by |-> u, on |-> n, to |-> cap,
                                  seen |-> c, todo |-> rest]]
    /\ Dispatch(k, n, cap)
    /\ UNCHANGED <<hub, userVars, groupOf, audit, stopped, columns, cred,
                   cap, unsent, shifted, cutOff>>

\* send_frame raises, for the first node or a later one: the socket is closed
\* and still registered.  Nothing catches it between here and the request.
SendRaises(k) ==
    /\ pc[k] = "waiting"
    /\ unsent' = unsent \cup {<<k, job[k].on>>}
    /\ Ends(k, "failed")
    /\ UNCHANGED <<hub, userVars, groupOf, changed, audit, stopped, columns,
                   cred, cap, plain, shifted, cutOff>>

\* The answer, the time-out, or no socket to send to: the audit entry, which
\* needs the asker's row, and then the next node, or last_used_at, which needs
\* the credential's.
Answer(k) ==
    LET j == job[k] IN
    /\ pc[k] = "waiting"
    /\ \/ /\ ~Row(j.by)
          /\ Ends(k, "failed")
          /\ UNCHANGED <<audit, changed, plain>>
       \/ /\ Row(j.by)
          /\ audit' = audit \cup {<<k, j.on>>}
          /\ \/ \E n \in j.todo :
                   /\ Dispatch(k, n, j.to)
                   /\ job' = [job EXCEPT ![k].on = n, ![k].todo = @ \ {n}]
                   /\ UNCHANGED pc
             \/ /\ j.todo = {}
                /\ Ends(k, IF CredRow(j.seen) THEN "done" ELSE "failed")
                /\ UNCHANGED <<changed, plain>>
    /\ UNCHANGED <<hub, userVars, groupOf, stopped, columns, cred, cap,
                   unsent, shifted, cutOff>>

-----------------------------------------------------------------------------
AccessNext ==
    \/ AccountStep /\ UNCHANGED credVars
    \/ Migrate \/ AddColumn \/ CopyRows \/ HubEnds
    \/ \E v \in Versions : UpsertCapabilities(v)
    \/ \E k \in Jobs :
          \/ \E u \in Users, c \in Creds :
                \/ StartNewCred(k, u, c) \/ StartDelCred(k, u, c)
                \/ \E n \in Nodes : \E rest \in SUBSET (Nodes \ {n}) :
                      StartApply(k, u, c, n, rest)
          \/ CommitCred(k) \/ Audit(k) \/ SendRaises(k) \/ Answer(k)

AccessSpec == AccessInit /\ [][AccessNext]_accessVars

-----------------------------------------------------------------------------
\* Between the two commits of a request the change stands without an audit
\* entry, and it stays without one if the hub stops there, if the command's
\* send raises, or if a row the entry is written from is deleted (the asker,
\* the user made or changed, the credential made).  In every other outcome the
\* entry is there, and there is none for a change that was not made.
ChangesAudited ==
    /\ audit \subseteq changed
    /\ \A c \in changed \ audit :
          \/ pc[c[1]] \notin {"done", "failed"}
          \/ c[1] \in stopped
          \/ c \in unsent
          \/ AuditRowGone(c[1])

\* The commands table shows a secret only if, while an earlier node of the
\* same batch was being waited for, a status frame moved the secret to
\* another field: the batch keeps the field it looked up, and each command is
\* redacted by what is registered then (_apply_to_nodes, _redact_payload).
SecretsRedacted ==
    \A c \in plain : c[1] \in shifted /\ \E n \in Nodes : n # c[2] /\ <<c[1], n>> \in audit

\* A hub that serves has brought every credential saved before the upgrade to
\* the new columns, unless a start was cut off between the first ALTER TABLE
\* and the copy (init_db; data-model.md:54 calls the migration idempotent).
UpgradeKeepsCredentials ==
    (hub = "up" /\ ~cutOff) => \A c \in Creds : cred[c] # "old" /\ columns = 3
=============================================================================
