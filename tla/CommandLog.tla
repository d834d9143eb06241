----------------------------- MODULE CommandLog ------------------------------
(***************************************************************************)
(* What the hub promises of a command, without connections, futures or     *)
(* timers: the row of the commands table, what the node did, and the       *)
(* audit entry.  A command runs at most once and only with its row already *)
(* written; the row is opened once and closed at most once; a row closed   *)
(* as "ok" or "error" says what the node's handler said; an audit entry is *)
(* written for closed rows only.                                           *)
(***************************************************************************)
CONSTANT Commands

VARIABLES
    row,        \* status column of the commands table, "none": no row
    outcome,    \* what the node's handler did with the command
    audit       \* the commands that have their audit_log entry

logVars == <<row, outcome, audit>>

Results  == {"ok", "error"}
Closed   == Results \cup {"timeout"}
Statuses == Closed \cup {"none", "sent"}
Outcomes == Results \cup {"none", "started"}

LogInit ==
    /\ row = [c \in Commands |-> "none"]
    /\ outcome = [c \in Commands |-> "none"]
    /\ audit = {}

\* dispatch_command writes the row.
Open(c) ==
    /\ row[c] = "none"
    /\ row' = [row EXCEPT ![c] = "sent"]
    /\ UNCHANGED <<outcome, audit>>

\* The node starts and finishes the handler, whatever has become of the row.
Start(c) ==
    /\ row[c] # "none"
    /\ outcome[c] = "none"
    /\ outcome' = [outcome EXCEPT ![c] = "started"]
    /\ UNCHANGED <<row, audit>>

Finish(c) ==
    /\ outcome[c] = "started"
    /\ \E st \in Results : outcome' = [outcome EXCEPT ![c] = st]
    /\ UNCHANGED <<row, audit>>

\* dispatch_command closes the row with the node's answer or its absence.
Close(c) ==
    /\ row[c] = "sent"
    /\ \E st \in Closed :
          /\ st \in Results => outcome[c] = st
          /\ row' = [row EXCEPT ![c] = st]
    /\ audit' \in {audit, audit \cup {c}}
    /\ UNCHANGED outcome

LogNext == \E c \in Commands : Open(c) \/ Start(c) \/ Finish(c) \/ Close(c)

LogSpec == LogInit /\ [][LogNext]_logVars
=============================================================================
