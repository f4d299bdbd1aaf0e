----------------------------- MODULE CrewBoard -----------------------------
(***************************************************************************)
(* The task board of a Crew project (lifecycle.py) and what an execution    *)
(* event does to it (execution_projection.py), as pure operators.           *)
(*                                                                          *)
(* A board maps each task to its status, its assignee, the execution it     *)
(* refers to and the producers of its artifact versions.  Titles, comments, *)
(* blockers, audit entries, channel rows and notifications are left out.    *)
(***************************************************************************)
EXTENDS Naturals, Sequences

CONSTANTS
  Tasks,    \* tasks of the project
  Gates,    \* the review gates among them
  Deps,     \* Deps[t]: depends_on
  Reviews,  \* Reviews[g]: the task gate g reviews
  Members,  \* workspace members
  Agents    \* the members that are Worker Profiles

NoMember == "no member"
ASSUME BoardAssumption ==
  /\ Gates \subseteq Tasks /\ Agents \subseteq Members /\ NoMember \notin Members
  /\ Deps \in [Tasks -> SUBSET Tasks] /\ Reviews \in [Gates -> Tasks \ Gates]

Past     == {"submitted", "done"}
Statuses == {"todo", "blocked", "assigned", "running", "rework"} \cup Past

(* instantiate_project: tasks without dependencies are ready.               *)
NewBoard ==
  [t \in Tasks |-> [status |-> IF Deps[t] = {} THEN "todo" ELSE "blocked",
                    assignee |-> NoMember, run |-> 0, artifacts |-> << >>]]

SetStatus(b, t, status) == [b EXCEPT ![t].status = status]

(* A gate is armed by submitted work, any other task needs it done.         *)
DepsSubmitted(b, t) == \A d \in Deps[t] : b[d].status \in Past  \* a fault: for every task
DepsSatisfied(b, t) ==
  \A d \in Deps[t] : b[d].status \in (IF t \in Gates THEN Past ELSE {"done"})

(* recompute_readiness: any blocked task, whatever blocked it.              *)
Recomputed(b) ==
  [t \in Tasks |->
     IF b[t].status = "blocked" /\ DepsSatisfied(b, t)
     THEN [b[t] EXCEPT !.status = IF b[t].assignee = NoMember THEN "todo" ELSE "assigned"]
     ELSE b[t]]

CanAssignGates(b, t) == b[t].status \in {"todo", "blocked", "assigned"}  \* a fault: gates too
CanAssign(b, t) == t \notin Gates /\ b[t].status \in {"todo", "blocked", "assigned"}
Assigned(b, t, m) ==
  [b EXCEPT ![t].assignee = m, ![t].status = IF @ = "todo" THEN "assigned" ELSE @]

CanStart(b, t) ==
  t \notin Gates /\ (b[t].status = "rework" \/ (b[t].status = "assigned" /\ DepsSatisfied(b, t)))
Started(b, t) == SetStatus(b, t, "running")

CanSubmit(b, t) == t \notin Gates /\ b[t].status \in {"running", "rework"}
Submitted(b, t, producer) ==
  Recomputed([b EXCEPT ![t].artifacts = Append(@, producer),
                       ![t].status = IF \E g \in Gates : Reviews[g] = t THEN "submitted" ELSE "done"])

CanReviewAgain(b, g) == g \in Gates /\ DepsSatisfied(b, g)  \* a fault: reviewed already
CanReview(b, g) ==
  /\ g \in Gates /\ b[g].status # "done"
  /\ b[Reviews[g]].status = "submitted" /\ DepsSatisfied(b, g)
Reviewed(b, g, approved) ==
  IF approved THEN Recomputed([b EXCEPT ![g].status = "done", ![Reviews[g]].status = "done"])
  ELSE [b EXCEPT ![g].status = "blocked", ![Reviews[g]].status = "rework"]

Runnable(b, t) == t \notin Gates /\ b[t].assignee \in Agents /\ b[t].status \in {"assigned", "rework"}
NewlyActive(b, c) == {t \in Tasks : b[t].status = "blocked" /\ c[t].status # "blocked"}

-----------------------------------------------------------------------------
(* mutate_project_for_execution_event: the event of execution e on task t.  *)

Working(b, t)   == b[t].status = "running" \/ CanStart(b, t)
BlockedBy(b, t, e) == [b EXCEPT ![t].status = "blocked", ![t].run = e]

(* The events whose projection raises for a task in its present status.     *)
Refuses(b, t, type) ==
  \/ type = "artifact" /\ ~Working(b, t)
  \/ type \in {"claimed", "question"} /\ b[t].status \notin Past /\ ~Working(b, t)

Projected(b, t, e, type) ==
  CASE type = "started" -> [b EXCEPT ![t].run = e]
    [] type \in {"claimed", "question"} /\ b[t].status \notin Past ->
         [Started(b, t) EXCEPT ![t].run = e]
    [] type = "artifact" -> [Submitted(Started(b, t), t, e) EXCEPT ![t].run = e]
    [] type \in {"agent_blocked", "recovery_blocked"} /\ b[t].status \notin Past -> BlockedBy(b, t, e)
    [] type = "retry_scheduled" /\ b[t].status \notin Past -> [b EXCEPT ![t].run = e]
    [] type \in {"failed", "dead_lettered", "cancelled"}
         /\ b[t].status \in {"assigned", "running", "rework"} -> BlockedBy(b, t, e)
    [] OTHER -> b
=============================================================================
