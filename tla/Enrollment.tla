------------------------------ MODULE Enrollment ------------------------------
(***************************************************************************)
(* Enrolling a machine with a pairing token: the hub's tables nodes and    *)
(* pairing_tokens, POST /api/enroll in its worker thread, the command      *)
(* `grid-node enroll' on the machine, and the config.toml it writes.       *)
(* LanPairing adds the other way to enroll, and the specification.         *)
(*                                                                         *)
(* A request makes at most one node, so a node's id is its request.  A     *)
(* SELECT of SQLite's leaves no lock and begins no transaction: what one   *)
(* thread has read may be stale when it commits.                           *)
(***************************************************************************)
CONSTANTS
    Requests,   \* enrollments, whichever way
    Machines,
    Names,      \* display names
    Tokens,     \* pairing tokens
    On,         \* the machine a request's command runs on
    NoNode, NoName, NoToken

ASSUME NoneAssumption ==
    NoNode \notin Requests /\ NoName \notin Names /\ NoToken \notin Tokens

VARIABLES
    minted,     \* rows of pairing_tokens
    usedBy,     \* their used_by_node_id (set together with used_at)
    nodes,      \* the nodes table: the name of each id that has a row
    config,     \* the node_id in each machine's config.toml
    path,       \* "token" or "code", once the request has begun
    pc,         \* where the hub is with each request
    tok, name,  \* its token and the name asked for
    listening,  \* token requests whose client still waits for the answer
    saved,      \* history: ids ever written to a config.toml
    contested   \* history: tokens two requests had found unused at a time

tokenVars  == <<minted, usedBy, tok, listening, contested>>
enrollVars == <<tokenVars, nodes, config, path, pc, name, saved>>

EnrollTypeOK ==
    /\ minted \subseteq Tokens
    /\ usedBy \in [Tokens -> Requests \cup {NoNode}]
    /\ nodes \in [Requests -> Names \cup {NoName}]
    /\ config \in [Machines -> Requests \cup {NoNode}]
    /\ path \in [Requests -> {"none", "token", "code"}]
    /\ tok \in [Requests -> Tokens \cup {NoToken}]
    /\ name \in [Requests -> Names \cup {NoName}]
    /\ listening \subseteq Requests
    /\ saved \subseteq Requests
    /\ contested \subseteq Tokens

EnrollInit ==
    /\ minted = {}
    /\ usedBy = [t \in Tokens |-> NoNode]
    /\ nodes = [r \in Requests |-> NoName]
    /\ config = [m \in Machines |-> NoNode]
    /\ path = [r \in Requests |-> "none"]
    /\ pc = [r \in Requests |-> "idle"]
    /\ tok = [r \in Requests |-> NoToken]
    /\ name = [r \in Requests |-> NoName]
    /\ listening = {}
    /\ saved = {}
    /\ contested = {}

\* A row with this name: found by the query before create_node, and again by
\* the column's UNIQUE constraint when the row is flushed.
Taken(n) == \E r \in Requests : nodes[r] = n

\* create_node's row; it is in the table once its session commits.
NewNode(r) == nodes' = [nodes EXCEPT ![r] = name[r]]

Goto(r, label) == pc' = [pc EXCEPT ![r] = label]

-----------------------------------------------------------------------------
\* An admin or a group manager mints a token.
Mint(t) ==
    /\ t \notin minted
    /\ minted' = minted \cup {t}
    /\ UNCHANGED <<usedBy, tok, listening, contested, nodes, config, path, pc,
                   name, saved>>

\* `grid-node enroll' posts a token that was minted, and a name.
EnrollCommand(r, t, n) ==
    /\ pc[r] = "idle" /\ t \in minted
    /\ Goto(r, "posted")
    /\ path' = [path EXCEPT ![r] = "token"]
    /\ tok' = [tok EXCEPT ![r] = t]
    /\ name' = [name EXCEPT ![r] = n]
    /\ listening' = listening \cup {r}
    /\ UNCHANGED <<minted, usedBy, contested, nodes, config, saved>>

Unused(t) == usedBy[t] = NoNode

\* Requests that have read the row of token t and not committed yet.
Holding(t) == {r \in Requests : tok[r] = t /\ pc[r] \in {"read", "named"}}

ReadToken(r) ==
    /\ pc[r] = "posted"
    /\ Goto(r, IF Unused(tok[r]) THEN "read" ELSE "refused")
    /\ contested' = IF Unused(tok[r]) /\ Holding(tok[r]) # {}
                    THEN contested \cup {tok[r]} ELSE contested
    /\ UNCHANGED <<minted, usedBy, tok, listening, nodes, config, path, name,
                   saved>>

CheckName(r) ==
    /\ pc[r] = "read"
    /\ Goto(r, IF Taken(name[r]) THEN "refused" ELSE "named")
    /\ UNCHANGED <<tokenVars, nodes, config, path, name, saved>>

\* Slip: the token is marked, but after the commit.
MutCommitLeavesToken(r) ==
    /\ pc[r] = "named"
    /\ ~Taken(name[r])
    /\ NewNode(r)
    /\ Goto(r, "enrolled")
    /\ UNCHANGED <<tokenVars, config, path, name, saved>>

\* The new row and the token's mark, in one commit; a name taken meanwhile
\* fails it as a whole ("failed": HTTP 500).
CommitEnroll(r) ==
    /\ pc[r] = "named"
    /\ \/ /\ Taken(name[r])
          /\ Goto(r, "failed")
          /\ UNCHANGED <<usedBy, nodes>>
       \/ /\ ~Taken(name[r])
          /\ NewNode(r)
          /\ usedBy' = [usedBy EXCEPT ![tok[r]] = r]
          /\ Goto(r, "enrolled")
    /\ UNCHANGED <<minted, tok, listening, contested, config, path, name,
                   saved>>

\* The answer arrives and the command writes config.toml.
SaveConfig(r) ==
    /\ pc[r] = "enrolled"
    /\ r \in listening
    /\ config' = [config EXCEPT ![On[r]] = r]
    /\ saved' = saved \cup {r}
    /\ listening' = listening \ {r}
    /\ UNCHANGED <<minted, usedBy, tok, contested, nodes, path, pc, name>>

\* ... or it never does: 15 s are over, the link or the command is cut off.
GivesUp(r) ==
    /\ r \in listening /\ pc[r] \in {"posted", "read", "named", "enrolled"}
    /\ listening' = listening \ {r}
    /\ UNCHANGED <<minted, usedBy, tok, contested, nodes, config, path, pc,
                   name, saved>>

EnrollStep ==
    \/ \E t \in Tokens : Mint(t)
    \/ \E r \in Requests :
          \/ \E t \in Tokens, n \in Names : EnrollCommand(r, t, n)
          \/ ReadToken(r)
          \/ CheckName(r)
          \/ CommitEnroll(r)
          \/ SaveConfig(r)
          \/ GivesUp(r)

-----------------------------------------------------------------------------
\* Two nodes enrolled with one token had both read its row before either
\* marked it; and a token that is marked names a node that has a row.
\* (data-model.md:22: "one-time tokens".)
TokenMakesOneNode ==
    /\ \A q, r \in Requests :
          (q # r /\ tok[q] \in Tokens /\ tok[q] = tok[r]
              /\ nodes[q] # NoName /\ nodes[r] # NoName)
          => tok[r] \in contested
    /\ \A t \in Tokens : usedBy[t] # NoNode => nodes[usedBy[t]] # NoName
=============================================================================
