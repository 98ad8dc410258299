--------------------------- MODULE MCLoginLimiter ---------------------------
(* An instance of LoginLimiter, and of the Settings it reads, for TLC.      *)
EXTENDS LoginLimiter, TLC

CONSTANTS f1, f2, u1, l1, l2, textA, textB

Alike == Permutations({f1, f2}) \union Permutations({l1, l2})
=============================================================================
