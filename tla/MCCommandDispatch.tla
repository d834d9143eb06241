--------------------------- MODULE MCCommandDispatch --------------------------
(* CommandDispatch for TLC.                                                  *)
EXTENDS CommandDispatch, TLC

CONSTANTS n1, n2, s1, s2, s3

\* s1 and s2 are successive connections of n1; n2 has one.
MCOwner == [s \in Sockets |-> IF s = s3 THEN n2 ELSE n1]
MCScheduled == {n1}
MCSymmetry == Permutations(Requests)
=============================================================================
