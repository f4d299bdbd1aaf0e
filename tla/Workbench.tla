------------------------------ MODULE Workbench ------------------------------
(***************************************************************************)
(* The Session Goal of the Workbench facade (apps/harness-service): a goal  *)
(* the Host pursues over several ordinary Runs.  The supervisor's timer and *)
(* the user's requests take one lock per Session; Runs end, are stopped and *)
(* are continued outside it, and the Host may crash at any await.           *)
(*                                                                          *)
(* A Run is named by its source event, goal:<goal_id>:<index>, which        *)
(* createOrGetRun makes unique; run_ids is then 1..goal.n.  A plan is what  *)
(* planProgress tells apart.  Writes of the sidecar file succeed.           *)
(***************************************************************************)
EXTENDS Naturals, FiniteSets, Sequences

CONSTANTS
  Users,        \* requests of the goal routes that may wait for the lock
  MaxRunsLimit, \* GOAL_MAX_RUNS_LIMIT
  Endings,      \* terminal event of a Run that ends by itself, and its plan
  MaxGoals,     \* bound: goals of the Session, one after the other
  MaxResumes,   \* bound: requests to resume
  MaxCrashes    \* bound: crashes of the Host

ASSUME WorkbenchAssumption ==
  /\ "supervisor" \notin Users
  /\ Endings \subseteq {"completed", "failed", "timed_out", "cancelled",
                         "awaiting_input", "awaiting_approval"}
                       \X {"none", "open", "blocked", "done"}
  /\ MaxRunsLimit \in Nat \ {0} /\ {MaxGoals, MaxResumes, MaxCrashes} \subseteq Nat

VARIABLES
  goal,   \* session.goal
  run,    \* the Run records of the sidecar, with the canonical log of each
  op,     \* what each caller does inside withGoalLock
  booted, \* the Host accepts requests
  used    \* counts, for the bounds

vars == <<goal, run, op, booted, used>>

Callers   == Users \cup {"supervisor"}
Keys      == (1 .. MaxGoals) \X (1 .. MaxRunsLimit)
Suspended == {"awaiting_input", "awaiting_approval"}

Idle  == [pc |-> "idle"]
NoRun == [made |-> FALSE, prompt |-> <<>>, admission |-> "none", command |-> FALSE,
          drive |-> "none", ends |-> <<>>, plan |-> "none"]

Init ==
  /\ goal = [id |-> 0, status |-> "none", max |-> 0, n |-> 0]
  /\ run = [k \in Keys |-> NoRun]
  /\ op = [c \in Callers |-> Idle]
  /\ booted = TRUE
  /\ used = [resumes |-> 0, crashes |-> 0]

-----------------------------------------------------------------------------
(* withGoalLock: an operation starts when every earlier one has settled.     *)
LockFreeOfUsers == \A c \in Users : op[c] = Idle   \* a fault: the timer takes no lock
LockFree == \A c \in Callers : op[c] = Idle

Goes(c, to) == op' = [op EXCEPT ![c] = to]

Latest == <<goal.id, goal.n>>

(* goalEvidence: the FIRST terminal event of the latest Run, suspensions     *)
(* included, unless its admission failed.                                    *)
TerminalStatus ==
  IF goal.n = 0 \/ run[Latest].ends = <<>> THEN "none" ELSE Head(run[Latest].ends)

AdmissionFailed == goal.n > 0 /\ run[Latest].admission = "failed"

(* The plan is cumulative: the last Run of the goal that left one.  Nothing  *)
(* is read after a failed admission.                                         *)
Plan ==
  LET left == {i \in 1 .. goal.n : run[<<goal.id, i>>].plan # "none"}
  IN  IF AdmissionFailed \/ left = {} THEN "none"
      ELSE run[<<goal.id, CHOOSE i \in left : \A j \in left : j <= i>>].plan

Prompt(reason) == <<goal.max, reason, Plan>>

Settle(status)   == [kind |-> "settle", status |-> status]
Continue(reason) == [kind |-> "continue", reason |-> reason]
Wait             == [kind |-> "wait"]

SpendOneMore(reason) ==                  \* a fault: off by one
  IF goal.n > goal.max THEN Settle("budget_exhausted") ELSE Continue(reason)

Spend(reason) ==
  IF goal.n >= goal.max THEN Settle("budget_exhausted") ELSE Continue(reason)

(* decideGoal                                                                *)
DecideUnlessExhausted ==                  \* a fault: used-up goals are not settled
  IF goal.n >= goal.max THEN Wait
  ELSE IF AdmissionFailed THEN Settle("failed")
  ELSE IF TerminalStatus = "none" THEN Wait ELSE Settle("paused")

Decide ==
  IF AdmissionFailed THEN Settle("failed")
  ELSE CASE TerminalStatus = "none"                       -> Wait
         [] TerminalStatus \in {"cancelled"} \cup Suspended -> Settle("paused")
         [] TerminalStatus = "failed"                     -> Settle("failed")
         [] TerminalStatus = "timed_out"                  -> Spend("run_timed_out")
         [] OTHER ->
              CASE Plan \in {"none", "done"} -> Settle("awaiting_review")
                [] Plan = "blocked"          -> Settle("paused")
                [] OTHER                     -> Spend("plan_incomplete")

-----------------------------------------------------------------------------
(* advanceGoal, of the supervisor's timer.  Waiting changes nothing here.    *)
Tick ==
  /\ LockFree
  /\ goal.status = "active" /\ Decide # Wait
  /\ Goes("supervisor", [pc |-> "patch", decision |-> Decide])
  /\ UNCHANGED <<goal, run, booted, used>>

Patch(c) ==
  /\ op[c].pc = "patch"
  /\ LET d == op[c].decision IN
       \/ /\ d.kind = "settle"
          /\ goal' = [goal EXCEPT !.status = d.status]
          /\ Goes(c, Idle)
       \/ /\ d.kind = "continue"
          /\ Goes(c, [pc |-> "create", key |-> <<goal.id, goal.n + 1>>,
                      prompt |-> Prompt(d.reason)])
          /\ UNCHANGED goal
  /\ UNCHANGED <<run, booted, used>>

(* submitGoalRun: createOrGetRun, keyed by the source event.                 *)
Create(c) ==
  /\ op[c].pc = "create"
  /\ LET k == op[c].key IN
       \/ /\ ~ run[k].made
          /\ run' = [run EXCEPT ![k] = [NoRun EXCEPT !.made = TRUE, !.prompt = op[c].prompt,
                                                     !.admission = "pending"]]
          /\ Goes(c, [pc |-> "refer", key |-> k, created |-> TRUE])
       \/ /\ run[k].made /\ run[k].prompt = op[c].prompt
          /\ Goes(c, [pc |-> "refer", key |-> k, created |-> FALSE])
          /\ UNCHANGED run
       \/ /\ run[k].made /\ run[k].prompt # op[c].prompt   \* run_conflict
          /\ Goes(c, Idle)
          /\ UNCHANGED run
  /\ UNCHANGED <<goal, booted, used>>

(* The Goal names the Run; an existing one is admitted again only when it    *)
(* has no command, did not fail and nobody is admitting it.                  *)
Refer(c) ==
  /\ op[c].pc = "refer"
  /\ LET k == op[c].key IN
       /\ goal' = IF goal.id = k[1] /\ goal.n < k[2] THEN [goal EXCEPT !.n = k[2]] ELSE goal
       /\ IF op[c].created \/ (~ run[k].command /\ run[k].admission # "failed")
          THEN Goes(c, [pc |-> "admit", key |-> k])
          ELSE Goes(c, Idle)
  /\ UNCHANGED <<run, booted, used>>

(* startWorkbenchRun: runtime.start accepts; or refuses, before or after the *)
(* command is durable, and then no drive was started.                        *)
Admit(c) ==
  /\ op[c].pc = "admit"
  /\ LET k == op[c].key IN
       \/ /\ run' = [run EXCEPT ![k].command = TRUE, ![k].drive = "live"]
          /\ Goes(c, [pc |-> "mark", key |-> k, admission |-> "started"])
       \/ \E durable \in BOOLEAN :
            /\ run' = [run EXCEPT ![k].command = durable,
                                  ![k].drive = IF durable THEN "lost" ELSE "none"]
            /\ Goes(c, [pc |-> "mark", key |-> k, admission |-> "failed"])
  /\ UNCHANGED <<goal, booted, used>>

Mark(c) ==
  /\ op[c].pc = "mark"
  /\ run' = [run EXCEPT ![op[c].key].admission = op[c].admission]
  /\ Goes(c, Idle)
  /\ UNCHANGED <<goal, booted, used>>

-----------------------------------------------------------------------------
(* The goal routes.                                                          *)
CreateGoal(u) ==
  /\ booted /\ LockFree
  /\ goal.status \notin {"active", "paused", "awaiting_review"}
  /\ goal.id < MaxGoals
  /\ \E m \in 1 .. MaxRunsLimit :
       goal' = [id |-> goal.id + 1, status |-> "active", max |-> m, n |-> 0]
  /\ Goes(u, [pc |-> "create", key |-> <<goal.id + 1, 1>>, prompt |-> <<"objective">>])
  /\ UNCHANGED <<run, booted, used>>

Pause(u) ==
  /\ booted /\ LockFree
  /\ goal.status = "active"
  /\ goal' = [goal EXCEPT !.status = "paused"]
  /\ UNCHANGED <<run, op, booted, used>>

Complete(u) ==
  /\ booted /\ LockFree
  /\ goal.status = "awaiting_review"
  /\ goal' = [goal EXCEPT !.status = "completed"]
  /\ UNCHANGED <<run, op, booted, used>>

Stop(u) ==
  /\ booted /\ LockFree
  /\ goal.status \in {"active", "paused", "awaiting_review", "budget_exhausted", "failed"}
  /\ goal' = [goal EXCEPT !.status = "stopped"]
  /\ Goes(u, IF goal.n = 0 THEN Idle ELSE [pc |-> "stop", key |-> Latest])
  /\ UNCHANGED <<run, booted, used>>

(* Its second half: runtime.stop aborts the Run and awaits its completion,   *)
(* when the last terminal event does not make it look ended already.         *)
StopLatest(u) ==
  /\ op[u].pc = "stop"
  /\ LET k == op[u].key IN
       run' = IF run[k].drive = "live" /\ run[k].ends = <<>>
              THEN [run EXCEPT ![k].drive = "none", ![k].ends = <<"cancelled">>]
              ELSE run
  /\ Goes(u, Idle)
  /\ UNCHANGED <<goal, booted, used>>

Resume(u) ==
  /\ booted /\ LockFree
  /\ used.resumes < MaxResumes
  /\ goal.status \in {"paused", "failed", "budget_exhausted"}
  /\ \E m \in 1 .. MaxRunsLimit :
       /\ goal.n < m
       /\ goal' = [goal EXCEPT !.status = "active", !.max = m]
  /\ Goes(u, [pc |-> "resumed"])
  /\ used' = [used EXCEPT !.resumes = @ + 1]
  /\ UNCHANGED <<run, booted>>

LatestEndedAlways == TRUE                \* a fault: resume asks nothing

LatestEnded == goal.n = 0 \/ AdmissionFailed \/ TerminalStatus # "none"

(* Resume starts a Run unless the latest one has not ended.                  *)
Resumed(u) ==
  /\ op[u].pc = "resumed"
  /\ Goes(u, IF LatestEnded
             THEN [pc |-> "create", key |-> <<goal.id, goal.n + 1>>,
                   prompt |-> Prompt("user_resumed")]
             ELSE Idle)
  /\ UNCHANGED <<goal, run, booted, used>>

-----------------------------------------------------------------------------
(* The Runs, outside the lock.                                               *)
RunEnds(k) ==
  /\ run[k].drive = "live"
  /\ \E e \in Endings :
       run' = [run EXCEPT ![k].drive = "none", ![k].ends = Append(@, e[1]), ![k].plan = e[2]]
  /\ UNCHANGED <<goal, op, booted, used>>

(* POST /api/workbench/runs/:id/stop                                         *)
StopRun(k) ==
  /\ booted /\ run[k].drive = "live"
  /\ run' = [run EXCEPT ![k].drive = "none", ![k].ends = Append(@, "cancelled")]
  /\ UNCHANGED <<goal, op, booted, used>>

(* continueTask: runtime.resume of a Run that awaits input.                  *)
ContinueRun(k) ==
  /\ booted /\ run[k].drive = "none" /\ run[k].ends = <<"awaiting_input">>
  /\ run' = [run EXCEPT ![k].drive = "live"]
  /\ UNCHANGED <<goal, op, booted, used>>

(* The sidecar and the event store survive; locks, operations and drives do  *)
(* not.                                                                      *)
Crash ==
  /\ used.crashes < MaxCrashes
  /\ used' = [used EXCEPT !.crashes = @ + 1]
  /\ op' = [c \in Callers |-> Idle]
  /\ run' = [k \in Keys |-> IF run[k].drive = "live" THEN [run[k] EXCEPT !.drive = "lost"]
                                                     ELSE run[k]]
  /\ booted' = FALSE
  /\ UNCHANGED goal

(* settleInterruptedWorkbenchRuns, before the server listens.  A continued   *)
(* Run whose suspension is still its last event is left alone.               *)
Boot ==
  /\ ~ booted /\ booted' = TRUE
  /\ \E spared \in SUBSET {k \in Keys : run[k].drive = "lost" /\ run[k].ends # <<>>} :
       run' = [k \in Keys |->
                IF run[k].drive = "lost"
                THEN [run[k] EXCEPT !.drive = "none",
                        !.ends = IF k \in spared THEN @ ELSE Append(@, "failed")]
                ELSE run[k]]
  /\ UNCHANGED <<goal, op, used>>

-----------------------------------------------------------------------------
Submit(c)  == Create(c) \/ Refer(c) \/ Admit(c) \/ Mark(c)
Working(c) == Patch(c) \/ Submit(c) \/ StopLatest(c) \/ Resumed(c)
Request(u) == CreateGoal(u) \/ Pause(u) \/ Complete(u) \/ Stop(u) \/ Resume(u)

Next ==
  \/ Tick
  \/ \E c \in Callers : Working(c)
  \/ \E u \in Users : Request(u)
  \/ \E k \in Keys : RunEnds(k) \/ StopRun(k) \/ ContinueRun(k)
  \/ Crash
  \/ Boot

(* Promises resolve, the timer fires again and again, Runs end (see          *)
(* EveryRunSettles of RunRuntime) and a Host is started again.               *)
Fairness ==
  /\ WF_vars(Tick) /\ WF_vars(Boot)
  /\ \A c \in Callers : WF_vars(Working(c))
  /\ \A k \in Keys : WF_vars(RunEnds(k))

Spec     == Init /\ [][Next]_vars
FairSpec == Spec /\ Fairness

-----------------------------------------------------------------------------
Terminals == {"completed", "failed", "timed_out", "cancelled"} \cup Suspended
Plans     == {"none", "open", "blocked", "done"}
Reasons   == {"run_timed_out", "plan_incomplete", "user_resumed"}
Prompts   == {<<>>, <<"objective">>} \cup (1 .. MaxRunsLimit) \X Reasons \X Plans
Settled   == {"paused", "awaiting_review", "budget_exhausted", "failed"}
Statuses  == {"none", "active", "completed", "stopped"} \cup Settled
RunRec    == [made : BOOLEAN, prompt : Prompts, command : BOOLEAN, plan : Plans,
              admission : {"none", "pending", "started", "failed"},
              drive : {"none", "live", "lost"}, ends : Seq(Terminals)]
Decisions == [kind : {"settle"}, status : Settled] \cup [kind : {"continue"}, reason : Reasons]
Ops       == [pc : {"idle", "resumed"}] \cup [pc : {"patch"}, decision : Decisions]
             \cup [pc : {"create"}, key : Keys, prompt : Prompts]
             \cup [pc : {"refer"}, key : Keys, created : BOOLEAN]
             \cup [pc : {"admit", "stop"}, key : Keys]
             \cup [pc : {"mark"}, key : Keys, admission : {"started", "failed"}]

(* Every variable keeps its shape, and a goal never names more Runs than the *)
(* user allowed, whoever asked for the next one and however often the limit  *)
(* was changed.                                                              *)
TypeOK ==
  /\ goal \in [id : 0 .. MaxGoals, status : Statuses, max : 0 .. MaxRunsLimit,
               n : 0 .. MaxRunsLimit]
  /\ goal.n <= goal.max
  /\ run \in [Keys -> RunRec]
  /\ op \in [Callers -> Ops]
  /\ booted \in BOOLEAN
  /\ used \in [resumes : 0 .. MaxResumes, crashes : 0 .. MaxCrashes]

(* A Run starts only for the Session's current goal, while that goal is      *)
(* active and within the number of Runs the user allowed; pausing, stopping  *)
(* or completing a goal under the lock of withGoalLock is the last word.     *)
StartsAreAuthorised ==
  [][\A k \in Keys :
       run[k].ends = <<>> /\ run[k].drive # "live" /\ run'[k].drive = "live"
         => goal.id = k[1] /\ goal.status = "active" /\ k[2] <= goal.max]_vars

(* The Runs of a Session's goals follow each other: two of them are never in *)
(* progress together, across resume, retry after a crash, and a new goal     *)
(* after a stopped one.  (A Run the user continues after it asked for input  *)
(* is the user's own, and may overlap the next.)                             *)
OneLiveRun ==
  Cardinality({k \in Keys : run[k].drive = "live" /\ run[k].ends = <<>>}) <= 1

(* An active goal does not stay active for ever: its latest Run ends, and    *)
(* the supervisor settles it or starts one more of the Runs it may use, as   *)
(* long as the Host does not crash.                                          *)
GoalSettles == goal.status = "active" ~> (goal.status # "active" \/ used.crashes > 0)

(* A Run the goal names is admitted, or its admission fails, or the goal is  *)
(* no longer active.  submitGoalRun claims it across crashes: "Reference the *)
(* Run from the Goal before admission so a crash cannot orphan it".          *)
Orphan(k) ==
  /\ goal.id = k[1] /\ k[2] <= goal.n /\ goal.status = "active"
  /\ run[k].admission = "pending" /\ ~ run[k].command

RunNotOrphaned == \A k \in Keys : Orphan(k) ~> ~ Orphan(k)
=============================================================================
