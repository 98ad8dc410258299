-------------------------- MODULE MCDomainStore -----------------------------
(* Instances of DomainStore for TLC: each cfg chooses which tables have a   *)
(* row, how many fields a row has and how far the clocks go.                *)
EXTENDS DomainStore, TLC

CONSTANTS u1, u2, task1, note1, overtime1, event1, absence1, month1, date1,
          title, status, x, y, v, w

\* Fields, updates and values are interchangeable.
Alike == Permutations(Fields) \union Permutations(Updates) \union Permutations(Values)
=============================================================================
