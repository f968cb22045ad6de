------------------------------ MODULE MCSchedule ------------------------------
(* Schedule with two weekdays of two minutes, each of two seconds.   *)
EXTENDS Schedule
=============================================================================
