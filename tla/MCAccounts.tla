----------------------------- MODULE MCAccounts -----------------------------
(* Instances of Accounts for TLC.                                           *)
EXTENDS Accounts, TLC

CONSTANTS r1, r2, d1, d2, d3

Alike == Permutations({r1, r2}) \union Permutations({d1, d2, d3})
=============================================================================
