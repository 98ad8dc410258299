---------------------------- MODULE MCSyncFeed ------------------------------
(* Instances of SyncFeed for TLC: one client following the account u1, rows *)
(* a and d in the first of two tables, row b in the second.                 *)
EXTENDS SyncFeed

CONSTANTS u1, u2, c1, a, b, d

MCUserOf == [c \in {c1} |-> u1]
MCTableOf == [r \in Rows |-> IF r = b THEN 2 ELSE 1]
=============================================================================
