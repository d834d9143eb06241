------------------------------ MODULE LanPairing ------------------------------
(***************************************************************************)
(* Enrolling a machine with the code on its screen, next to the enrolling  *)
(* by token of Enrollment.  A machine without a config.toml runs a pairing *)
(* session: it shows a code, advertises itself over mDNS and serves two    *)
(* HTTP calls, /pair (is this the code?) and /pair-complete (take these    *)
(* credentials).  The hub lists the sessions it has seen; for a request of *)
(* the dashboard it makes the two calls and commits the node's row last.   *)
(*                                                                         *)
(* A code is its generation, 1 for a session's first; 0 is any other       *)
(* digits.  Each call of the hub is handled at most once, maybe after the  *)
(* hub has stopped waiting for it.                                         *)
(***************************************************************************)
EXTENDS Enrollment, Naturals

CONSTANTS
    Sessions,       \* pairing sessions, each under a service name of its own
    MaxAttempts,    \* wrong codes before a new one is shown (5)
    MaxCode,        \* bound: codes one session shows
    NoSession

ASSUME PairingAssumption ==
    /\ MaxAttempts \in Nat /\ MaxCode \in Nat \ {0} /\ NoSession \notin Sessions

VARIABLES
    phase,      \* of the process that runs the session
    code, attempts, expired, verified,      \* the PairingSession
    at, typed,  \* the session a request dials and the code typed into it
    call,       \* the request's HTTP call: under way, or its answer
    listed,     \* DiscoveryRegistry._nodes
    lookups,    \* handlers of Added that await the service's details
    news,       \* the last event about a session
    overtaken   \* history: Removed was handled while a lookup was out

sessionVars == <<code, attempts, expired, verified>>
lanVars     == <<listed, lookups, news, overtaken>>
requestVars == <<tok, listening, path, name, at, typed>>
hubTables   == <<minted, usedBy, contested, nodes>>
pairingVars == <<enrollVars, phase, sessionVars, at, typed, call, lanVars>>

PairingTypeOK ==
    /\ EnrollTypeOK
    /\ phase \in [Sessions -> {"unborn", "open", "closing", "over", "dead"}]
    /\ code \in [Sessions -> 0..MaxCode]
    /\ attempts \in [Sessions -> 0..MaxAttempts]
    /\ expired \subseteq Sessions
    /\ verified \subseteq {s \in Sessions : code[s] > 0}
    /\ pc \in [Requests -> {"idle", "posted", "read", "named", "enrolled",
                            "pairing", "completing", "paired", "refused",
                            "failed", "broken", "lost"}]
    /\ at \in [Requests -> Sessions \cup {NoSession}]
    /\ typed \in [Requests -> 0..MaxCode]
    /\ call \in [Requests -> {"none", "pair", "pair_yes", "pair_no", "error",
                              "complete", "complete_yes", "complete_no"}]
    /\ listed \cup lookups \cup overtaken \subseteq Sessions
    /\ news \in [Sessions -> {"none", "added", "removed"}]

PairingInit ==
    /\ EnrollInit
    /\ phase = [s \in Sessions |-> "unborn"]
    /\ code = [s \in Sessions |-> 0]
    /\ attempts = [s \in Sessions |-> 0]
    /\ expired = {} /\ verified = {}
    /\ at = [r \in Requests |-> NoSession]
    /\ typed = [r \in Requests |-> 0]
    /\ call = [r \in Requests |-> "none"]
    /\ listed = {} /\ lookups = {} /\ overtaken = {}
    /\ news = [s \in Sessions |-> "none"]

-----------------------------------------------------------------------------
(***************************************************************************)
(* The machine's side.                                                     *)
(***************************************************************************)
\* Slip: a new code leaves the session verified by the old one.
MutRegenerateKeepsVerified(s) ==
    /\ code[s] < MaxCode
    /\ code' = [code EXCEPT ![s] = @ + 1]
    /\ attempts' = [attempts EXCEPT ![s] = 0]
    /\ expired' = expired \ {s}
    /\ UNCHANGED verified

RegenerateCode(s) ==
    /\ code[s] < MaxCode
    /\ code' = [code EXCEPT ![s] = @ + 1]
    /\ attempts' = [attempts EXCEPT ![s] = 0]
    /\ expired' = expired \ {s}
    /\ verified' = verified \ {s}

\* `grid-node run' finds no config.toml ...
Unconfigured(m) == config[m] = NoNode

\* ... and goes into pairing mode.
StartsPairing(s) ==
    /\ phase[s] = "unborn"
    /\ Unconfigured(On[s])
    /\ \A z \in Sessions : On[z] = On[s] => phase[z] \in {"unborn", "dead"}
    /\ phase' = [phase EXCEPT ![s] = "open"]
    /\ RegenerateCode(s)
    /\ UNCHANGED <<enrollVars, at, typed, call, lanVars>>

\* wait_for_pairing unregisters the service, closes the listener and returns.
StopsPairing(s) ==
    /\ phase[s] = "closing"
    /\ phase' = [phase EXCEPT ![s] = "over"]
    /\ UNCHANGED <<enrollVars, sessionVars, at, typed, call, lanVars>>

NodeDies(s) ==
    /\ phase[s] \in {"open", "closing", "over"}
    /\ phase' = [phase EXCEPT ![s] = "dead"]
    /\ code' = [code EXCEPT ![s] = 0]
    /\ attempts' = [attempts EXCEPT ![s] = 0]
    /\ expired' = expired \ {s} /\ verified' = verified \ {s}
    /\ UNCHANGED <<enrollVars, at, typed, call, lanVars>>

Expires(s) ==
    /\ phase[s] = "open" /\ s \notin expired
    /\ expired' = expired \cup {s}
    /\ UNCHANGED <<enrollVars, phase, code, attempts, verified, at, typed,
                   call, lanVars>>

\* The answer, if the hub still waits for it.
Handled(r, answer) ==
    call' = [call EXCEPT ![r] =
                IF pc[r] \in {"pairing", "completing"} THEN answer ELSE "none"]

UnderWay(r) == IF call[r] \in {"pair", "complete"} THEN call[r] ELSE "none"

CanHandle(r, c) == call[r] = c /\ phase[at[r]] \in {"open", "closing", "over"}

\* Slip: no limit on the attempts.
MutVerifyUnlimited(r) ==
    LET s == at[r] IN
    /\ CanHandle(r, "pair")
    /\ \/ /\ s \in expired
          /\ RegenerateCode(s)
          /\ Handled(r, "pair_no")
       \/ /\ s \notin expired
          /\ typed[r] = code[s]
          /\ verified' = verified \cup {s}
          /\ Handled(r, "pair_yes")
          /\ UNCHANGED <<code, attempts, expired>>
       \/ /\ s \notin expired
          /\ typed[r] # code[s]
          /\ attempts' = [attempts EXCEPT ![s] = @ + 1]
          /\ Handled(r, "pair_no")
          /\ UNCHANGED <<code, expired, verified>>
    /\ UNCHANGED <<enrollVars, phase, at, typed, lanVars>>

\* POST /pair, under the session's lock.
Verify(r) ==
    LET s == at[r]
        renewed == s \in expired \/ attempts[s] >= MaxAttempts
    IN
    /\ CanHandle(r, "pair")
    /\ \/ /\ renewed
          /\ RegenerateCode(s)
          /\ Handled(r, "pair_no")
       \/ /\ ~renewed /\ typed[r] = code[s]
          /\ verified' = verified \cup {s}
          /\ Handled(r, "pair_yes")
          /\ UNCHANGED <<code, attempts, expired>>
       \/ /\ ~renewed /\ typed[r] # code[s]
          /\ attempts' = [attempts EXCEPT ![s] = @ + 1]
          /\ Handled(r, "pair_no")
          /\ UNCHANGED <<code, expired, verified>>
    /\ UNCHANGED <<enrollVars, phase, at, typed, lanVars>>

\* POST /pair-complete, under the lock: config.toml is written and
\* wait_for_pairing woken.  It does not end the session: until the listener
\* is closed, and in handlers already running, both calls still work.
Complete(r) ==
    LET s == at[r] IN
    /\ CanHandle(r, "complete")
    /\ \/ /\ s \notin verified
          /\ Handled(r, "complete_no")
          /\ UNCHANGED <<config, saved, phase>>
       \/ /\ s \in verified
          /\ config' = [config EXCEPT ![On[s]] = r]
          /\ saved' = saved \cup {r}
          /\ Handled(r, "complete_yes")
          /\ phase' = [phase EXCEPT ![s] = IF @ = "open" THEN "closing" ELSE @]
    /\ UNCHANGED <<hubTables, requestVars, pc, sessionVars, lanVars>>

-----------------------------------------------------------------------------
(***************************************************************************)
(* The hub's side: _pair_one on the event loop.                            *)
(***************************************************************************)
Send(s, c) == IF phase[s] \in {"open", "closing"} THEN c ELSE "error"

\* The dashboard asks for session s, alone or in a batch, whose pairs are
\* dialled one after the other's result.  A name left empty is resolved later
\* to the machine's, here n at once.
Asked(r, s, c, n) ==
    /\ path' = [path EXCEPT ![r] = "code"]
    /\ at' = [at EXCEPT ![r] = s]
    /\ typed' = [typed EXCEPT ![r] = c]
    /\ name' = [name EXCEPT ![r] = n]

Dial(r, s, c, n) ==
    /\ pc[r] = "idle"
    /\ Asked(r, s, c, n)
    /\ \/ /\ s \notin listed
          /\ Goto(r, "refused")
          /\ UNCHANGED call
       \/ /\ s \in listed
          /\ Goto(r, "pairing")
          /\ call' = [call EXCEPT ![r] = Send(s, "pair")]
    /\ UNCHANGED <<hubTables, tok, listening, config, saved, phase,
                   sessionVars, lanVars>>

\* Slip: the row is committed before the machine has taken the credentials.
MutAcceptedCommits(r) ==
    /\ pc[r] = "pairing" /\ call[r] = "pair_yes" /\ ~Taken(name[r])
    /\ NewNode(r)
    /\ Goto(r, "completing")
    /\ call' = [call EXCEPT ![r] = Send(at[r], "complete")]
    /\ UNCHANGED <<minted, usedBy, contested, requestVars, config, saved,
                   phase, sessionVars, lanVars>>

\* The code was right: if the name is free, create_node adds the row to the
\* database session, not yet to the database, and the credentials are sent.
Accepted(r) ==
    /\ pc[r] = "pairing" /\ call[r] = "pair_yes"
    /\ \/ /\ Taken(name[r])
          /\ Goto(r, "refused")
          /\ call' = [call EXCEPT ![r] = "none"]
       \/ /\ ~Taken(name[r])
          /\ Goto(r, "completing")
          /\ call' = [call EXCEPT ![r] = Send(at[r], "complete")]
    /\ UNCHANGED <<hubTables, requestVars, config, saved, phase, sessionVars,
                   lanVars>>

\* The machine said no: to the code (400), or to the credentials (rollback).
Rejected(r) ==
    /\ <<pc[r], call[r]>> \in {<<"pairing", "pair_no">>,
                               <<"completing", "complete_no">>}
    /\ Goto(r, "refused")
    /\ call' = [call EXCEPT ![r] = "none"]
    /\ UNCHANGED <<hubTables, requestVars, config, saved, phase, sessionVars,
                   lanVars>>

\* The commit.  A name taken during the call fails it, with HTTP 500 and, in
\* a batch, for every pair after this one.
CommitPairing(r) ==
    /\ pc[r] = "completing" /\ call[r] = "complete_yes"
    /\ \/ /\ Taken(name[r])
          /\ Goto(r, "failed")
          /\ UNCHANGED nodes
       \/ /\ ~Taken(name[r])
          /\ NewNode(r)
          /\ Goto(r, "paired")
    /\ call' = [call EXCEPT ![r] = "none"]
    /\ UNCHANGED <<minted, usedBy, contested, requestVars, config, saved,
                   phase, sessionVars, lanVars>>

\* No answer: refused connection, lost answer, or 10 seconds are over while
\* the machine may still be about to handle the call.
HttpFails(r) ==
    /\ \/ pc[r] = "pairing" /\ Goto(r, "refused")
       \/ pc[r] = "completing" /\ Goto(r, "broken")
    /\ call' = [call EXCEPT ![r] = UnderWay(r)]
    /\ UNCHANGED <<hubTables, requestVars, config, saved, phase, sessionVars,
                   lanVars>>

\* The hub's process ends and is started again; a new browser knows nothing.
HubCrash ==
    /\ pc' = [r \in Requests |->
                 IF pc[r] \in {"posted", "read", "named", "pairing", "completing"}
                 THEN "lost" ELSE pc[r]]
    /\ call' = [r \in Requests |-> UnderWay(r)]
    /\ listed' = {} /\ lookups' = {} /\ overtaken' = {}
    /\ news' = [s \in Sessions |-> "none"]
    /\ UNCHANGED <<hubTables, requestVars, config, saved, phase, sessionVars>>

-----------------------------------------------------------------------------
(***************************************************************************)
(* DiscoveryRegistry._handle_change, one task per mDNS event.              *)
(***************************************************************************)
\* Added or Updated: the details are asked for, and waited for up to 3 s.
Appears(s) ==
    /\ phase[s] = "open"
    /\ news' = [news EXCEPT ![s] = "added"]
    /\ lookups' = lookups \cup {s}
    /\ UNCHANGED <<enrollVars, phase, sessionVars, at, typed, call, listed,
                   overtaken>>

Resolved(s) ==
    /\ s \in lookups
    /\ lookups' = lookups \ {s}
    /\ listed' \in {listed, listed \cup {s}}    \* details found, or not
    /\ UNCHANGED <<enrollVars, phase, sessionVars, at, typed, call, news,
                   overtaken>>

\* Slip: a service that says goodbye stays in the list.
MutDisappearsStays(s) ==
    /\ news[s] = "added" /\ phase[s] # "open"
    /\ news' = [news EXCEPT ![s] = "removed"]
    /\ overtaken' = overtaken \cup (lookups \cap {s})
    /\ UNCHANGED <<enrollVars, phase, sessionVars, at, typed, call, listed,
                   lookups>>

\* Removed: the session said goodbye, or its record ran out (an open one
\* is taken to renew it in time).
Disappears(s) ==
    /\ news[s] = "added" /\ phase[s] # "open"
    /\ news' = [news EXCEPT ![s] = "removed"]
    /\ listed' = listed \ {s}
    /\ overtaken' = overtaken \cup (lookups \cap {s})
    /\ UNCHANGED <<enrollVars, phase, sessionVars, at, typed, call, lookups>>

-----------------------------------------------------------------------------
PairingNext ==
    \/ EnrollStep /\ UNCHANGED <<phase, sessionVars, at, typed, call, lanVars>>
    \/ \E r \in Requests :
          \/ \E s \in Sessions, n \in Names : \E c \in 0..code[s] : Dial(r, s, c, n)
          \/ Verify(r) \/ Complete(r)
          \/ Accepted(r) \/ Rejected(r) \/ CommitPairing(r) \/ HttpFails(r)
    \/ HubCrash
    \/ \E s \in Sessions :
          \/ StartsPairing(s) \/ StopsPairing(s) \/ NodeDies(s) \/ Expires(s)
          \/ Appears(s) \/ Resolved(s) \/ Disappears(s)

PairingSpec == PairingInit /\ [][PairingNext]_pairingVars

-----------------------------------------------------------------------------
\* A session that takes credentials was verified with the code it now shows,
\* typed into a request for this very session: a new code, after too many
\* wrong ones or ten minutes, undoes a verification of the old one
\* (PairingSession._regenerate_code).
VerifiedByCurrentCode ==
    \A s \in verified : \E r \in Requests : at[r] = s /\ typed[r] = code[s]

\* A session in the hub's list is one whose last news was good, unless its
\* goodbye overtook the details of an earlier Added (_handle_change's await).
ListedIsThere == \A s \in listed : news[s] = "added" \/ s \in overtaken

\* By token and by code, enrolling keeps what Handover promises: the first
\* end to know a node's id is the one that can be asked again, and an
\* enrollment answered plainly is known at both ends or at neither.
Ended == {r \in Requests : \/ pc[r] \in {"refused", "paired"}
                           \/ pc[r] = "enrolled" /\ r \in saved}

Known == {r \in Requests : nodes[r] # NoName}

Promise == INSTANCE Handover WITH Requests <- Requests, path <- path,
               known <- Known, saved <- saved, ended <- Ended

ImplementsHandover == Promise!HandoverSpec
=============================================================================
