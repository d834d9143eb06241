---------------------------- MODULE MCCredentials ----------------------------
(* Two requests at a time in a hub with at most two accounts, a group of *)
(* nodes and a credential; the backend's two versions name the secret      *)
(* differently.                                                            *)
EXTENDS Credentials, TLC

CONSTANTS u1, u2, n1, n2, g1, k1, k2, v1, v2

MCAdmin == [role |-> "admin", scope |-> {Empty}]
Manager == [role |-> "group_manager", scope |-> {g1, Empty}]
Keeper  == [role |-> "machine_manager", scope |-> {n1}]
Viewer  == [role |-> "viewer", scope |-> {Empty}]
MCGrants == {MCAdmin, Manager, Keeper, Viewer}

\* Nobody, two admins, or an admin and a manager.
MCBefore == {[u \in {u1, u2} |-> None], [u \in {u1, u2} |-> MCAdmin],
             [u \in {u1, u2} |-> IF u = u1 THEN MCAdmin ELSE Manager]}

MCKeyField == [v \in {v1, v2} |-> IF v = v1 THEN "account_key" ELSE "token"]

MCSymmetry == Permutations({k1, k2})
=============================================================================
