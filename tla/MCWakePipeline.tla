--------------------------- MODULE MCWakePipeline ---------------------------
(* Instances of WakePipeline: a supervisor and a consumer over two wakes,   *)
(* two supervisors that may share a millisecond, and the fair runs.         *)
EXTENDS WakePipeline, TLC

CONSTANTS s1, s2, c1
=============================================================================
