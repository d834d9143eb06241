------------------------------- MODULE Handover -------------------------------
(***************************************************************************)
(* What enrolling a machine promises, without tokens, codes or HTTP: the   *)
(* hub comes to know a node id and the machine comes to save it.  By token *)
(* the hub is first, by pairing code the machine is; and an enrollment     *)
(* that ends with a plain answer ends the same way at both ends.  One that *)
(* breaks off may leave the first end alone with it.                       *)
(***************************************************************************)
CONSTANT Requests

VARIABLES
    path,       \* how each machine is enrolled, "none": not begun
    known,      \* ids with a row in the nodes table
    saved,      \* ids that have been written to a config.toml
    ended       \* enrollments that ended with a plain answer

handoverVars == <<path, known, saved, ended>>

HandoverInit ==
    /\ path = [r \in Requests |-> "none"]
    /\ known = {}
    /\ saved = {}
    /\ ended = {}

\* r may end with this step, if both ends agree on it.
MayEnd(r) ==
    /\ ended' \in {ended, ended \cup {r}}
    /\ r \in ended' => (r \in known' <=> r \in saved')

Begin(r) ==
    /\ path[r] = "none"
    /\ \E p \in {"token", "code"} : path' = [path EXCEPT ![r] = p]
    /\ MayEnd(r)
    /\ UNCHANGED <<known, saved>>

Know(r) ==
    /\ r \notin ended
    /\ path[r] = "token" \/ (path[r] = "code" /\ r \in saved)
    /\ known' = known \cup {r}
    /\ MayEnd(r)
    /\ UNCHANGED <<path, saved>>

Save(r) ==
    /\ r \notin ended
    /\ path[r] = "code" \/ (path[r] = "token" /\ r \in known)
    /\ saved' = saved \cup {r}
    /\ MayEnd(r)
    /\ UNCHANGED <<path, known>>

End(r) ==
    /\ MayEnd(r)
    /\ UNCHANGED <<path, known, saved>>

HandoverNext == \E r \in Requests : Begin(r) \/ Know(r) \/ Save(r) \/ End(r)

HandoverSpec == HandoverInit /\ [][HandoverNext]_handoverVars
=============================================================================
