--------------------------- MODULE MCWaitHealthy ---------------------------
(* Instances of WaitHealthy: an interval shorter and one longer than the   *)
(* time a healthy service takes to answer, the invalid interval 0, a       *)
(* deadline inside and one after the first attempt, and none at all.       *)
EXTENDS WaitHealthy

CONSTANT never

MCIntervals == {0, 1, 2, 3}
MCDeadlines == {0, 2, 7, never}
=============================================================================
