----------------------------- MODULE MCSessions -----------------------------
(* Instances of Sessions for TLC: a browser with two tabs.                  *)
EXTENDS Sessions, TLC

CONSTANTS r1, r2

Tabs == Permutations({r1, r2})
=============================================================================
