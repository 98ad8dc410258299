---------------------------- MODULE MCRealtime ------------------------------
(* Instances of Realtime for TLC.  A buffer of one overflows on the second  *)
(* notice; the code's sixteen would need seventeen writes to do the same.   *)
EXTENDS Realtime

CONSTANTS c1, c2
=============================================================================
