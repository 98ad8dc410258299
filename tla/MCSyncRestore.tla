--------------------------- MODULE MCSyncRestore ----------------------------
(* Instance of SyncRestore for TLC: one client, one row in each of two      *)
(* tables.                                                                  *)
EXTENDS SyncRestore

CONSTANTS u1, c1, a, b

MCUserOf == [c \in {c1} |-> u1]
MCTableOf == [r \in Rows |-> IF r = b THEN 2 ELSE 1]
=============================================================================
