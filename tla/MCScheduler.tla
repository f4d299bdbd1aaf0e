---------------------------- MODULE MCScheduler -----------------------------
(* Constants for TLC: schedule 1 recurs; calls of two instances.             *)
EXTENDS Scheduler

DueAt     == [s \in Schedules |-> 0]
Every     == [s \in Schedules |-> 2 - s]
Instances == [c \in Calls |-> IF c = "c1" THEN "v1" ELSE "v2"]
=============================================================================
