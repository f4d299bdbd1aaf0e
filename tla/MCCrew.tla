------------------------------- MODULE MCCrew -------------------------------
(* Constants for TLC: a task "a" reviewed at gate "g", and a task "b" after it. *)
EXTENDS Crew, TLC

ReviewedDeps == [t \in Tasks |-> IF t \in Gates THEN Tasks \cap {"a"} ELSE IF t = "b" THEN {"a"} ELSE {}]
ReviewsA     == [g \in Gates |-> "a"]
=============================================================================
