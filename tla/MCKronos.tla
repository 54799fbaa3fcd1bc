------------------------------ MODULE MCKronos ------------------------------
(***************************************************************************)
(* Instance of Kronos for TLC: three buckets two time units wide (a        *)
(* calendar of six units) and times over more than two calendar lengths,   *)
(* so that events of three epochs share a bucket.  Two times may be        *)
(* scheduled in the past: 0, and 3 as the time of an answer that is late.  *)
(***************************************************************************)
EXTENDS Kronos

PastTimes == {0, 3}
=============================================================================
