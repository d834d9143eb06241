---------------------------- MODULE MCLanPairing -----------------------------
(* Two requests, each by token or by code, for one machine that may go     *)
(* through two pairing sessions.                                           *)
EXTENDS LanPairing, TLC

CONSTANTS r1, r2, s1, s2, n1, n2, m1

MCSymmetry ==
    Permutations({r1, r2}) \cup Permutations({s1, s2}) \cup Permutations({n1, n2})

MCOn == [x \in {r1, r2, s1, s2} |-> m1]
=============================================================================
