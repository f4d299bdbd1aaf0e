-------------------------- MODULE WorkbenchProofs --------------------------
(***************************************************************************)
(* Theorems about Workbench, for any users, limits, goals and endings.      *)
(***************************************************************************)
EXTENDS Workbench, NatMin, FiniteSetTheorems, TLAPS

-----------------------------------------------------------------------------
(* The inductive invariant.                                                 *)

(* A Run that was started and has not ended once.                           *)
Fresh(k) == run[k].drive = "live" /\ run[k].ends = <<>>
NoFresh  == \A k \in Keys : ~ Fresh(k)

(* A goal begins with its first Run; one lock is held by one caller.        *)
OneHolder == \A c, d \in Callers : op[c].pc # "idle" /\ op[d].pc # "idle" => c = d

Begun ==
  /\ goal.status # "none" => goal.id > 0
  /\ goal.status = "none" => goal.n = 0

(* Only the latest Run of the goal can be in progress, and not once the goal *)
(* was settled because of it.                                                *)
LatestOnly ==
  /\ \A k \in Keys : Fresh(k) => k = Latest /\ run[k].admission # "failed"
  /\ goal.status \in {"awaiting_review", "budget_exhausted", "failed", "completed"} => NoFresh
  /\ goal.status = "stopped" =>
       NoFresh \/ \E c \in Callers : op[c] = [pc |-> "stop", key |-> Latest]

(* What the holder of the lock knows, although Runs end beside it.          *)
Holds(o) ==
  /\ o.pc \in {"patch", "create", "refer", "admit", "resumed"} => goal.status = "active"
  /\ o.pc \in {"patch", "create", "refer", "admit"} => NoFresh
  /\ o.pc = "patch" /\ o.decision.kind = "continue" => goal.n < goal.max
  /\ o.pc \in {"create", "refer"} => o.key = <<goal.id, goal.n + 1>>
  /\ o.pc \in {"create", "refer", "resumed"} => goal.n < goal.max
  /\ o.pc = "refer" /\ o.created => run[o.key].admission # "failed"
  /\ o.pc = "admit" => o.key = Latest /\ run[o.key].admission # "failed"
  /\ o.pc = "mark" /\ o.admission = "failed" => ~ Fresh(o.key)
  /\ o.pc = "stop" => goal.status = "stopped" /\ o.key = Latest

GoalInv == TypeOK /\ OneHolder /\ Begun /\ LatestOnly /\ \A c \in Callers : Holds(op[c])

LEMMA OpFields ==
  ASSUME NEW o \in Ops
  PROVE  /\ o.pc \in {"idle", "resumed", "patch", "create", "refer", "admit", "stop", "mark"}
         /\ o.pc = "idle" => o = Idle
         /\ o.pc = "patch" => o.decision \in Decisions
         /\ o.pc \in {"create", "refer", "admit", "stop", "mark"} => o.key \in Keys
         /\ o.pc = "create" => o.prompt \in Prompts
         /\ o.pc = "refer" => o.created \in BOOLEAN
         /\ o.pc = "mark" => o.admission \in {"started", "failed"}
<1>1. CASE o \in [pc : {"idle", "resumed"}]
  BY <1>1 DEF Idle
<1>2. CASE o \in [pc : {"patch"}, decision : Decisions]
  BY <1>2
<1>3. CASE o \in [pc : {"create"}, key : Keys, prompt : Prompts]
  BY <1>3
<1>4. CASE o \in [pc : {"refer"}, key : Keys, created : BOOLEAN]
  BY <1>4
<1>5. CASE o \in [pc : {"admit", "stop"}, key : Keys]
  BY <1>5
<1>6. CASE o \in [pc : {"mark"}, key : Keys, admission : {"started", "failed"}]
  BY <1>6
<1> QED BY <1>1, <1>2, <1>3, <1>4, <1>5, <1>6 DEF Ops

LEMMA OpsMade ==
  /\ Idle \in Ops /\ Idle.pc = "idle" /\ [pc |-> "resumed"] \in Ops
  /\ \A d \in Decisions : [pc |-> "patch", decision |-> d] \in Ops
  /\ \A k \in Keys, p \in Prompts : [pc |-> "create", key |-> k, prompt |-> p] \in Ops
  /\ \A k \in Keys, b \in BOOLEAN : [pc |-> "refer", key |-> k, created |-> b] \in Ops
  /\ \A k \in Keys : [pc |-> "admit", key |-> k] \in Ops /\ [pc |-> "stop", key |-> k] \in Ops
  /\ \A k \in Keys, a \in {"started", "failed"} : [pc |-> "mark", key |-> k, admission |-> a] \in Ops
<1>1. \A k \in Keys, p \in Prompts : [pc |-> "create", key |-> k, prompt |-> p] \in Ops
  BY DEF Ops
<1>2. \A k \in Keys, b \in BOOLEAN : [pc |-> "refer", key |-> k, created |-> b] \in Ops
  BY DEF Ops
<1>3. \A k \in Keys : [pc |-> "admit", key |-> k] \in Ops /\ [pc |-> "stop", key |-> k] \in Ops
  BY DEF Ops
<1>4. \A k \in Keys, a \in {"started", "failed"} : [pc |-> "mark", key |-> k, admission |-> a] \in Ops
  BY DEF Ops
<1>5. \A d \in Decisions : [pc |-> "patch", decision |-> d] \in Ops
  BY DEF Ops
<1>6. Idle \in Ops /\ Idle.pc = "idle" /\ [pc |-> "resumed"] \in Ops
  BY DEF Ops, Idle
<1> QED BY <1>1, <1>2, <1>3, <1>4, <1>5, <1>6

(* The lock changes hands or its holder moves on; nobody else is inside.    *)
LEMMA GoesAlone ==
  ASSUME TypeOK, OneHolder, NEW c \in Callers, op[c].pc # "idle" \/ LockFree,
         NEW to \in Ops, Goes(c, to)
  PROVE  /\ op' \in [Callers -> Ops] /\ op'[c] = to
         /\ \A d \in Callers : d # c => op'[d] = Idle
         /\ OneHolder'
<1>1. op \in [Callers -> Ops]
  BY DEF TypeOK
<1>2. op' \in [Callers -> Ops] /\ op'[c] = to /\ \A d \in Callers : d # c => op'[d] = op[d]
  BY <1>1 DEF Goes
<1>3. \A d \in Callers : d # c => op[d] = Idle
  BY <1>1, OpFields, OpsMade DEF LockFree, OneHolder
<1>4. OneHolder'
  BY <1>2, <1>3, OpsMade DEF OneHolder
<1> QED BY <1>2, <1>3, <1>4

LEMMA HolderStep ==
  ASSUME GoalInv, NEW c \in Callers, op[c].pc # "idle" \/ LockFree, NEW to \in Ops, Goes(c, to),
         op' \in [Callers -> Ops] => TypeOK', Begun', LatestOnly', op'[c] = to => Holds(op[c])'
  PROVE  GoalInv'
<1>1. /\ op' \in [Callers -> Ops] /\ op'[c] = to
      /\ \A d \in Callers : d # c => op'[d] = Idle
      /\ OneHolder'
  BY GoesAlone DEF GoalInv
<1>2. ASSUME NEW d \in Callers PROVE Holds(op[d])'
  BY <1>1, OpsMade DEF Holds
<1> QED BY <1>1, <1>2 DEF GoalInv

(* What happens outside the lock starts no Run and touches no admission.    *)
LEMMA OutsideStep ==
  ASSUME GoalInv, UNCHANGED <<goal, op>>, TypeOK',
         \A k \in Keys : /\ Fresh(k)' => Fresh(k)
                         /\ run'[k].admission = run[k].admission
  PROVE  GoalInv'
<1>1. NoFresh => NoFresh'
  BY DEF NoFresh
<1>2. LatestOnly'
  BY <1>1 DEF GoalInv, LatestOnly, Latest
<1>3. ASSUME NEW c \in Callers PROVE Holds(op[c])'
  <2>1. op[c] \in Ops
    BY DEF GoalInv, TypeOK
  <2>2. op[c].pc \in {"refer", "admit", "mark"} => op[c].key \in Keys
    BY <2>1, OpFields
  <2> QED BY <1>1, <2>2 DEF GoalInv, Holds, Latest
<1> QED BY <1>2, <1>3 DEF GoalInv, OneHolder, Begun

(* Runs whose drive or log changed keep their shape.                        *)
LEMMA RecKept ==
  ASSUME NEW r \in RunRec, NEW drive \in {"none", "live", "lost"}, NEW ends \in Seq(Terminals),
         NEW plan \in Plans
  PROVE  [r EXCEPT !.drive = drive, !.ends = ends, !.plan = plan] \in RunRec
BY DEF RunRec

LEMMA NoRunTyped == NoRun \in RunRec /\ NoRun.drive = "none"
<1>1. <<>> \in Seq(Terminals) /\ "none" \in Plans /\ <<>> \in Prompts
  BY DEF Plans, Prompts
<1> QED BY <1>1 DEF NoRun, RunRec

LEMMA KeyTyped == \A k \in Keys : k = <<k[1], k[2]>> /\ k[1] \in 1 .. MaxGoals /\ k[2] \in 1 .. MaxRunsLimit
BY DEF Keys

LEMMA RunEndsStep ==
  ASSUME GoalInv, NEW k \in Keys, RunEnds(k)
  PROVE  GoalInv'
<1>1. PICK e \in Endings :
        run' = [run EXCEPT ![k].drive = "none", ![k].ends = Append(@, e[1]), ![k].plan = e[2]]
  BY DEF RunEnds
<1>2. e[1] \in Terminals /\ e[2] \in Plans
  BY WorkbenchAssumption DEF Terminals, Plans, Suspended
<1>3. run \in [Keys -> RunRec] /\ run[k].ends \in Seq(Terminals)
  BY DEF GoalInv, TypeOK, RunRec
<1>4. Append(run[k].ends, e[1]) \in Seq(Terminals)
  BY <1>2, <1>3
<1>5. /\ run'[k] = [run[k] EXCEPT !.drive = "none", !.ends = Append(run[k].ends, e[1]), !.plan = e[2]]
      /\ \A j \in Keys : j # k => run'[j] = run[j]
      /\ run' \in [Keys -> RunRec]
  <2>1. [run[k] EXCEPT !.drive = "none", !.ends = Append(run[k].ends, e[1]), !.plan = e[2]] \in RunRec
    BY <1>2, <1>3, <1>4, RecKept
  <2> QED BY <1>1, <1>3, <2>1
<1>6. run'[k].drive = "none" /\ run'[k].admission = run[k].admission
  BY <1>3, <1>5 DEF RunRec
<1>7. TypeOK' /\ UNCHANGED <<goal, op>>
  BY <1>5 DEF GoalInv, TypeOK, RunEnds
<1> QED BY <1>5, <1>6, <1>7, OutsideStep DEF Fresh

LEMMA StopRunStep ==
  ASSUME GoalInv, NEW k \in Keys, StopRun(k)
  PROVE  GoalInv'
<1>1. run \in [Keys -> RunRec] /\ run[k].ends \in Seq(Terminals) /\ run[k].plan \in Plans
  BY DEF GoalInv, TypeOK, RunRec
<1>2. Append(run[k].ends, "cancelled") \in Seq(Terminals)
  BY <1>1 DEF Terminals
<1> DEFINE rec == [run[k] EXCEPT !.drive = "none", !.ends = Append(run[k].ends, "cancelled")]
<1>3. rec \in RunRec /\ rec.drive = "none" /\ rec.admission = run[k].admission
  BY <1>1, <1>2 DEF RunRec
<1>4. run' = [run EXCEPT ![k] = rec]
  BY <1>1 DEF StopRun
<1> HIDE DEF rec
<1>5. TypeOK' /\ UNCHANGED <<goal, op>>
  BY <1>1, <1>3, <1>4 DEF GoalInv, TypeOK, StopRun
<1> QED BY <1>1, <1>3, <1>4, <1>5, OutsideStep DEF Fresh

LEMMA ContinueRunStep ==
  ASSUME GoalInv, NEW k \in Keys, ContinueRun(k)
  PROVE  GoalInv'
<1>1. run \in [Keys -> RunRec]
  BY DEF GoalInv, TypeOK
<1> DEFINE rec == [run[k] EXCEPT !.drive = "live"]
<1>2. rec \in RunRec /\ rec.ends = run[k].ends /\ rec.admission = run[k].admission /\ rec.ends # <<>>
  <2>1. run[k].ends # <<>>
    BY DEF ContinueRun
  <2> QED BY <1>1, <2>1 DEF RunRec
<1>3. run' = [run EXCEPT ![k] = rec]
  BY <1>1 DEF ContinueRun
<1> HIDE DEF rec
<1>4. TypeOK' /\ UNCHANGED <<goal, op>>
  BY <1>1, <1>2, <1>3 DEF GoalInv, TypeOK, ContinueRun
<1> QED BY <1>1, <1>2, <1>3, <1>4, OutsideStep DEF Fresh

LEMMA BootStep ==
  ASSUME GoalInv, Boot
  PROVE  GoalInv'
<1>1. run \in [Keys -> RunRec]
  BY DEF GoalInv, TypeOK
<1>2. PICK spared \in SUBSET {k \in Keys : run[k].drive = "lost" /\ run[k].ends # <<>>} :
        run' = [k \in Keys |->
                 IF run[k].drive = "lost"
                 THEN [run[k] EXCEPT !.drive = "none",
                         !.ends = IF k \in spared THEN @ ELSE Append(@, "failed")]
                 ELSE run[k]]
  BY DEF Boot
<1>3. ASSUME NEW k \in Keys
      PROVE  /\ run'[k] \in RunRec /\ run'[k].admission = run[k].admission
             /\ run'[k].drive = "none" \/ run'[k] = run[k]
  <2>1. run[k] \in RunRec /\ run[k].ends \in Seq(Terminals)
    BY <1>1 DEF RunRec
  <2>2. Append(run[k].ends, "failed") \in Seq(Terminals)
    BY <2>1 DEF Terminals
  <2> QED BY <1>2, <2>1, <2>2 DEF RunRec
<1>4. run' \in [Keys -> RunRec]
  BY <1>2, <1>3
<1>5. TypeOK' /\ UNCHANGED <<goal, op>>
  BY <1>4 DEF GoalInv, TypeOK, Boot
<1> QED BY <1>3, <1>5, OutsideStep DEF Fresh

(* A crash frees every lock; no Run is in progress any more.                *)
LEMMA CrashStep ==
  ASSUME GoalInv, Crash
  PROVE  GoalInv'
<1>1. run \in [Keys -> RunRec]
  BY DEF GoalInv, TypeOK
<1>2. ASSUME NEW k \in Keys PROVE run'[k] \in RunRec /\ ~ Fresh(k)'
  <2>1. run[k] \in RunRec /\ run'[k] = IF run[k].drive = "live" THEN [run[k] EXCEPT !.drive = "lost"]
                                                                 ELSE run[k]
    BY <1>1 DEF Crash
  <2> QED BY <2>1 DEF RunRec, Fresh
<1>3. run' \in [Keys -> RunRec]
  BY <1>2 DEF Crash
<1>4. op' \in [Callers -> Ops] /\ \A c \in Callers : op'[c] = Idle
  BY OpsMade DEF Crash
<1>5. TypeOK'
  <2>1. used' \in [resumes : 0 .. MaxResumes, crashes : 0 .. MaxCrashes]
    BY WorkbenchAssumption DEF GoalInv, TypeOK, Crash
  <2> QED BY <1>3, <1>4, <2>1 DEF GoalInv, TypeOK, Crash
<1>6. OneHolder' /\ \A c \in Callers : Holds(op[c])'
  BY <1>4, OpsMade DEF OneHolder, Holds
<1>7. NoFresh' /\ Begun'
  BY <1>2 DEF NoFresh, GoalInv, Begun, Crash
<1>8. LatestOnly'
  BY <1>2, <1>7 DEF LatestOnly, NoFresh
<1> QED BY <1>5, <1>6, <1>7, <1>8 DEF GoalInv

-----------------------------------------------------------------------------
(* Inside the lock.                                                         *)

LEMMA GoalTyped ==
  ASSUME GoalInv
  PROVE  /\ goal.id \in 0 .. MaxGoals /\ goal.n \in 0 .. MaxRunsLimit /\ goal.max \in 0 .. MaxRunsLimit
         /\ {MaxGoals, MaxRunsLimit} \subseteq Nat /\ goal.n <= goal.max /\ goal.status \in Statuses
BY WorkbenchAssumption DEF GoalInv, TypeOK

LEMMA LatestTyped ==
  ASSUME GoalInv, goal.n > 0
  PROVE  Latest \in Keys
BY GoalTyped DEF GoalInv, Begun, Latest, Keys

LEMMA NextKey ==
  ASSUME GoalInv, goal.status = "active", goal.n < goal.max
  PROVE  <<goal.id, goal.n + 1>> \in Keys
BY GoalTyped DEF GoalInv, Begun, Keys

(* A Run that ended once, or was refused, is over; so is every other one.   *)
LEMMA LatestOver ==
  ASSUME GoalInv, LatestEnded
  PROVE  NoFresh
<1>1. ASSUME NEW k \in Keys, Fresh(k) PROVE FALSE
  <2>1. k = Latest /\ run[k].admission # "failed" /\ run[k].ends = <<>>
    BY <1>1 DEF GoalInv, LatestOnly, Fresh
  <2>2. goal.n # 0
    BY <2>1, KeyTyped, GoalTyped DEF Latest
  <2> QED BY <2>1, <2>2 DEF LatestEnded, AdmissionFailed, TerminalStatus
<1> QED BY <1>1 DEF NoFresh

LEMMA PlanTyped ==
  ASSUME GoalInv
  PROVE  Plan \in Plans
<1> DEFINE left == {i \in 1 .. goal.n : run[<<goal.id, i>>].plan # "none"}
<1>1. CASE AdmissionFailed \/ left = {}
  BY <1>1 DEF Plan, Plans
<1>2. CASE ~ AdmissionFailed /\ left # {}
  <2>1. goal.n \in Nat /\ left \in SUBSET (0 .. goal.n)
    BY GoalTyped
  <2>2. \E i \in left : \A j \in left : j <= i
    <3> HIDE DEF left
    <3> QED BY <1>2, <2>1, LargestExists
  <2> DEFINE i == CHOOSE x \in left : \A j \in left : j <= x
  <2>3. i \in left
    <3> HIDE DEF left
    <3> QED BY <2>2
  <2>4. Plan = run[<<goal.id, i>>].plan
    BY <1>2 DEF Plan
  <2> HIDE DEF i
  <2>5. goal.n > 0 /\ i \in 1 .. goal.n
    BY <2>1, <2>3
  <2>6. <<goal.id, i>> \in Keys
    BY <2>5, GoalTyped DEF GoalInv, Begun, Keys
  <2> QED BY <2>4, <2>6 DEF GoalInv, TypeOK, RunRec
<1> QED BY <1>1, <1>2

LEMMA PromptTyped ==
  ASSUME GoalInv, goal.max > 0, NEW reason \in Reasons
  PROVE  Prompt(reason) \in Prompts
BY PlanTyped, GoalTyped DEF Prompt, Prompts

LEMMA Decided ==
  ASSUME GoalInv, Decide # Wait
  PROVE  /\ Decide \in Decisions /\ NoFresh
         /\ Decide.kind = "continue" => goal.n < goal.max
<1>1. LatestEnded
  <2>1. ~ AdmissionFailed /\ TerminalStatus = "none" => Decide = Wait
    BY DEF Decide, Suspended
  <2> QED BY <2>1 DEF LatestEnded
<1>2. ASSUME NEW reason \in Reasons
      PROVE  /\ Spend(reason) \in Decisions
             /\ Spend(reason).kind = "continue" => goal.n < goal.max
  BY GoalTyped DEF Spend, Settle, Continue, Decisions, Settled
<1>3. ASSUME NEW status \in Settled
      PROVE  Settle(status) \in Decisions /\ Settle(status).kind = "settle"
  BY DEF Settle, Decisions
<1>4. \/ \E status \in Settled : Decide = Settle(status)
      \/ \E reason \in Reasons : Decide = Spend(reason)
  BY DEF Decide, Settled, Reasons
<1> QED BY <1>1, <1>2, <1>3, <1>4, LatestOver

LEMMA TickStep ==
  ASSUME GoalInv, Tick
  PROVE  GoalInv'
<1> DEFINE to == [pc |-> "patch", decision |-> Decide]
<1>1. /\ Goes("supervisor", to) /\ LockFree /\ "supervisor" \in Callers
      /\ goal.status = "active" /\ Decide # Wait /\ UNCHANGED <<goal, run, booted, used>>
  BY DEF Tick, Callers
<1>2. /\ Decide \in Decisions /\ NoFresh
      /\ Decide.kind = "continue" => goal.n < goal.max
  BY <1>1, Decided
<1>3. to \in Ops /\ to.pc = "patch" /\ to.decision = Decide
  BY <1>2, OpsMade
<1> HIDE DEF to
<1>4. op' \in [Callers -> Ops] => TypeOK'
  BY <1>1 DEF GoalInv, TypeOK
<1>5. NoFresh'
  BY <1>1, <1>2 DEF NoFresh, Fresh
<1>6. LatestOnly' /\ Begun'
  BY <1>1, <1>5 DEF LatestOnly, NoFresh, GoalInv, Begun
<1>7. op'["supervisor"] = to => Holds(op["supervisor"])'
  BY <1>1, <1>2, <1>3, <1>5 DEF Holds
<1> QED BY <1>1, <1>3, <1>4, <1>6, <1>7, HolderStep

LEMMA PatchStep ==
  ASSUME GoalInv, NEW c \in Callers, Patch(c)
  PROVE  GoalInv'
<1> DEFINE d == op[c].decision
<1>1. /\ op[c].pc = "patch" /\ op[c] \in Ops /\ Holds(op[c])
      /\ UNCHANGED <<run, booted, used>>
  BY DEF Patch, GoalInv, TypeOK
<1>2. /\ d \in Decisions /\ goal.status = "active" /\ NoFresh
      /\ d.kind = "continue" => goal.n < goal.max
  BY <1>1, OpFields DEF Holds
<1>3. NoFresh'
  BY <1>1, <1>2 DEF NoFresh, Fresh
<1>4. LatestOnly'
  BY <1>3 DEF LatestOnly, NoFresh
<1>5. CASE d.kind = "settle"
  <2>1. goal' = [goal EXCEPT !.status = d.status] /\ Goes(c, Idle) /\ d.status \in Statuses
    BY <1>1, <1>2, <1>5 DEF Patch, Decisions, Statuses
  <2>2. op' \in [Callers -> Ops] => TypeOK'
    BY <1>1, <2>1 DEF GoalInv, TypeOK
  <2>3. Begun'
    <3>1. goal'.id = goal.id /\ goal.id > 0 /\ goal'.n = goal.n /\ goal'.status = d.status
      BY <1>2, <2>1 DEF GoalInv, TypeOK, Begun
    <3>2. d.status # "none"
      BY <1>2, <1>5 DEF Decisions, Settled
    <3> QED BY <3>1, <3>2 DEF Begun
  <2>4. op'[c] = Idle => Holds(op[c])'
    BY OpsMade DEF Holds
  <2> QED BY <1>1, <1>4, <2>1, <2>2, <2>3, <2>4, OpsMade, HolderStep
<1>6. CASE d.kind = "continue"
  <2> DEFINE to == [pc |-> "create", key |-> <<goal.id, goal.n + 1>>, prompt |-> Prompt(d.reason)]
  <2>1. Goes(c, to) /\ UNCHANGED goal /\ d.reason \in Reasons
    BY <1>1, <1>2, <1>6 DEF Patch, Decisions, Statuses
  <2>2. goal.max > 0
    BY <1>2, <1>6, GoalTyped
  <2>3. to \in Ops /\ to.pc = "create" /\ to.key = <<goal.id, goal.n + 1>>
    BY <1>2, <1>6, <2>1, <2>2, PromptTyped, NextKey, OpsMade
  <2> HIDE DEF to
  <2>4. (op' \in [Callers -> Ops] => TypeOK') /\ Begun'
    BY <1>1, <2>1 DEF GoalInv, TypeOK, Begun
  <2>5. op'[c] = to => Holds(op[c])'
    BY <1>2, <1>3, <1>6, <2>1, <2>3 DEF Holds
  <2> QED BY <1>1, <1>4, <2>1, <2>3, <2>4, <2>5, HolderStep
<1> QED BY <1>2, <1>5, <1>6 DEF Decisions

(* submitGoalRun: a Run record is created, named by the goal and admitted.  *)
LEMMA CreateStep ==
  ASSUME GoalInv, NEW c \in Callers, Create(c)
  PROVE  GoalInv'
<1> DEFINE k == op[c].key
<1>1. /\ op[c].pc = "create" /\ op[c] \in Ops /\ Holds(op[c]) /\ UNCHANGED <<goal, booted, used>>
      /\ run \in [Keys -> RunRec]
  BY DEF Create, GoalInv, TypeOK
<1>2. /\ k \in Keys /\ op[c].prompt \in Prompts /\ goal.status = "active" /\ NoFresh
      /\ k = <<goal.id, goal.n + 1>> /\ goal.n < goal.max
  BY <1>1, OpFields DEF Holds
<1>3. CASE ~ run[k].made
  <2> DEFINE rec == [NoRun EXCEPT !.made = TRUE, !.prompt = op[c].prompt, !.admission = "pending"]
             to == [pc |-> "refer", key |-> k, created |-> TRUE]
  <2>1. run' = [run EXCEPT ![k] = rec] /\ Goes(c, to)
    BY <1>1, <1>3 DEF Create
  <2>2. rec \in RunRec /\ rec.drive = "none" /\ rec.admission = "pending"
    <3>1. NoRun \in RunRec
      BY NoRunTyped
    <3> QED BY <1>2, <3>1 DEF RunRec, NoRun
  <2>3. to \in Ops /\ to.pc = "refer" /\ to.key = k
    BY <1>2, OpsMade
  <2> HIDE DEF rec, to
  <2>4. NoFresh' /\ run'[k].admission = "pending"
    BY <1>1, <1>2, <2>1, <2>2 DEF NoFresh, Fresh
  <2>5. (op' \in [Callers -> Ops] => TypeOK') /\ Begun'
    BY <1>1, <2>1, <2>2 DEF GoalInv, TypeOK, Begun
  <2>6. LatestOnly'
    BY <2>4 DEF LatestOnly, NoFresh
  <2>7. op'[c] = to => Holds(op[c])'
    BY <1>1, <1>2, <2>3, <2>4 DEF Holds
  <2> QED BY <1>1, <2>1, <2>3, <2>5, <2>6, <2>7, HolderStep
<1>4. CASE run[k].made
  <2>1. /\ UNCHANGED <<goal, run, booted, used>>
        /\ \/ Goes(c, [pc |-> "refer", key |-> k, created |-> FALSE])
           \/ Goes(c, Idle)
    BY <1>1, <1>4 DEF Create
  <2>2. /\ op' \in [Callers -> Ops] => TypeOK'
        /\ Begun' /\ NoFresh'
    BY <1>2, <2>1 DEF GoalInv, TypeOK, Begun, NoFresh, Fresh
  <2>3. LatestOnly'
    BY <2>2 DEF LatestOnly, NoFresh
  <2>4. ASSUME NEW to \in Ops, Goes(c, to),
               to.pc = "idle" \/ (to.pc = "refer" /\ to.key = k /\ to.created = FALSE)
        PROVE  GoalInv'
    <3>1. op'[c] = to => Holds(op[c])'
      BY <1>2, <2>1, <2>2, <2>4 DEF Holds
    <3> QED BY <1>1, <2>2, <2>3, <2>4, <3>1, HolderStep
  <2> DEFINE to == [pc |-> "refer", key |-> k, created |-> FALSE]
  <2>5. to \in Ops /\ to.pc = "refer" /\ to.key = k /\ to.created = FALSE
    BY <1>2, OpsMade
  <2> QED BY <2>1, <2>4, <2>5, OpsMade
<1> QED BY <1>3, <1>4

LEMMA ReferStep ==
  ASSUME GoalInv, NEW c \in Callers, Refer(c)
  PROVE  GoalInv'
<1> DEFINE k == op[c].key
           to == [pc |-> "admit", key |-> k]
<1>1. /\ op[c].pc = "refer" /\ op[c] \in Ops /\ Holds(op[c]) /\ UNCHANGED <<run, booted, used>>
  BY DEF Refer, GoalInv, TypeOK
<1>2. /\ k \in Keys /\ goal.status = "active" /\ NoFresh
      /\ k = <<goal.id, goal.n + 1>> /\ goal.n < goal.max
      /\ op[c].created => run[k].admission # "failed"
  BY <1>1, OpFields DEF Holds
<1>3. k[1] = goal.id /\ k[2] = goal.n + 1 /\ goal.n < k[2]
  BY <1>2, GoalTyped
<1>4. goal' = [goal EXCEPT !.n = goal.n + 1]
  BY <1>1, <1>3 DEF Refer
<1>5. /\ goal'.id = goal.id /\ goal'.n = goal.n + 1 /\ goal'.status = "active"
      /\ goal'.max = goal.max /\ goal'.n <= goal.max
  BY <1>2, <1>4, GoalTyped DEF GoalInv, TypeOK
<1>6. op' \in [Callers -> Ops] => TypeOK'
  BY <1>1, <1>4, <1>5, GoalTyped DEF GoalInv, TypeOK
<1>7. NoFresh' /\ Begun'
  BY <1>1, <1>2, <1>5 DEF NoFresh, Fresh, GoalInv, Begun
<1>8. LatestOnly'
  BY <1>7 DEF LatestOnly, NoFresh
<1>9. ASSUME NEW next \in Ops, Goes(c, next),
             next.pc = "idle" \/ (next.pc = "admit" /\ next.key = k /\ run[k].admission # "failed")
      PROVE  GoalInv'
  <2>1. k = Latest'
    BY <1>2, <1>5 DEF Latest
  <2>2. op'[c] = next => Holds(op[c])'
    BY <1>1, <1>5, <1>7, <1>9, <2>1 DEF Holds
  <2> QED BY <1>1, <1>6, <1>7, <1>8, <1>9, <2>2, HolderStep
<1>10. to \in Ops /\ to.pc = "admit" /\ to.key = k
  BY <1>2, OpsMade
<1>11. Goes(c, Idle) \/ (Goes(c, to) /\ run[k].admission # "failed")
  BY <1>1, <1>2 DEF Refer
<1> HIDE DEF to
<1> QED BY <1>9, <1>10, <1>11, OpsMade

LEMMA AdmitStep ==
  ASSUME GoalInv, NEW c \in Callers, Admit(c)
  PROVE  GoalInv'
<1> DEFINE k == op[c].key
<1>1. /\ op[c].pc = "admit" /\ op[c] \in Ops /\ Holds(op[c]) /\ UNCHANGED <<goal, booted, used>>
      /\ run \in [Keys -> RunRec]
  BY DEF Admit, GoalInv, TypeOK
<1>2. /\ k \in Keys /\ goal.status = "active" /\ NoFresh
      /\ k = Latest /\ run[k].admission # "failed"
  BY <1>1, OpFields DEF Holds
<1>3. ASSUME NEW command \in BOOLEAN, NEW drive \in {"none", "live", "lost"},
             NEW admission \in {"started", "failed"}, admission = "failed" => drive # "live",
             run' = [run EXCEPT ![k].command = command, ![k].drive = drive],
             Goes(c, [pc |-> "mark", key |-> k, admission |-> admission])
      PROVE  GoalInv'
  <2> DEFINE rec == [run[k] EXCEPT !.command = command, !.drive = drive]
             to == [pc |-> "mark", key |-> k, admission |-> admission]
  <2>1. run' = [run EXCEPT ![k] = rec]
    BY <1>1, <1>2, <1>3
  <2>2. rec \in RunRec /\ rec.drive = drive /\ rec.admission = run[k].admission
    BY <1>1, <1>2 DEF RunRec
  <2>3. to \in Ops /\ to.pc = "mark" /\ to.key = k /\ to.admission = admission /\ Goes(c, to)
    BY <1>2, <1>3, OpsMade
  <2> HIDE DEF rec, to
  <2>4. (op' \in [Callers -> Ops] => TypeOK') /\ Begun'
    BY <1>1, <2>1, <2>2 DEF GoalInv, TypeOK, Begun
  <2>5. \A j \in Keys : Fresh(j)' => j = k /\ drive = "live" /\ run'[j].admission # "failed"
    BY <1>1, <1>2, <2>1, <2>2 DEF NoFresh, Fresh
  <2>6. LatestOnly'
    BY <1>1, <1>2, <2>5 DEF LatestOnly, Latest
  <2>7. op'[c] = to => Holds(op[c])'
    BY <1>2, <1>3, <2>3, <2>5 DEF Holds
  <2> QED BY <1>1, <2>3, <2>4, <2>6, <2>7, HolderStep
<1>4. \/ /\ run' = [run EXCEPT ![k].command = TRUE, ![k].drive = "live"]
         /\ Goes(c, [pc |-> "mark", key |-> k, admission |-> "started"])
      \/ \E durable \in BOOLEAN :
           /\ run' = [run EXCEPT ![k].command = durable,
                                 ![k].drive = IF durable THEN "lost" ELSE "none"]
           /\ Goes(c, [pc |-> "mark", key |-> k, admission |-> "failed"])
  BY DEF Admit
<1> QED BY <1>3, <1>4

LEMMA MarkStep ==
  ASSUME GoalInv, NEW c \in Callers, Mark(c)
  PROVE  GoalInv'
<1> DEFINE k == op[c].key
           rec == [run[k] EXCEPT !.admission = op[c].admission]
<1>1. /\ op[c].pc = "mark" /\ op[c] \in Ops /\ Holds(op[c]) /\ UNCHANGED <<goal, booted, used>>
      /\ run \in [Keys -> RunRec] /\ Goes(c, Idle)
  BY DEF Mark, GoalInv, TypeOK
<1>2. /\ k \in Keys /\ op[c].admission \in {"started", "failed"}
      /\ op[c].admission = "failed" => ~ Fresh(k)
  BY <1>1, OpFields DEF Holds
<1>3. run' = [run EXCEPT ![k] = rec]
  BY <1>1 DEF Mark
<1>4. rec \in RunRec /\ rec.drive = run[k].drive /\ rec.ends = run[k].ends
      /\ rec.admission = op[c].admission
  BY <1>1, <1>2 DEF RunRec
<1> HIDE DEF rec
<1>5. (op' \in [Callers -> Ops] => TypeOK') /\ Begun'
  BY <1>1, <1>3, <1>4 DEF GoalInv, TypeOK, Begun
<1>6. \A j \in Keys : /\ Fresh(j)' <=> Fresh(j)
                      /\ Fresh(j) /\ run'[j].admission = "failed" => run[j].admission = "failed"
  BY <1>1, <1>2, <1>3, <1>4 DEF Fresh
<1>7. LatestOnly'
  <2>1. NoFresh <=> NoFresh'
    BY <1>6 DEF NoFresh
  <2>2. \A j \in Keys : Fresh(j)' => j = Latest' /\ run'[j].admission # "failed"
    BY <1>1, <1>6 DEF GoalInv, LatestOnly, Latest
  <2>3. \A d \in Callers : op[d].pc # "stop"
    BY <1>1, OpsMade DEF GoalInv, OneHolder
  <2>4. goal.status = "stopped" => NoFresh
    BY <2>3 DEF GoalInv, LatestOnly
  <2> QED BY <1>1, <2>1, <2>2, <2>4 DEF GoalInv, LatestOnly
<1>8. op'[c] = Idle => Holds(op[c])'
  BY OpsMade DEF Holds
<1> QED BY <1>1, <1>5, <1>7, <1>8, OpsMade, HolderStep

(* The routes.                                                              *)
LEMMA CreateGoalStep ==
  ASSUME GoalInv, NEW u \in Users, CreateGoal(u)
  PROVE  GoalInv'
<1> DEFINE k == <<goal.id + 1, 1>>
           to == [pc |-> "create", key |-> k, prompt |-> <<"objective">>]
<1>1. /\ u \in Callers /\ LockFree /\ goal.id < MaxGoals /\ Goes(u, to)
      /\ goal.status \notin {"active", "paused", "awaiting_review"}
      /\ UNCHANGED <<run, booted, used>>
  BY DEF CreateGoal, Callers
<1>2. PICK m \in 1 .. MaxRunsLimit :
        goal' = [id |-> goal.id + 1, status |-> "active", max |-> m, n |-> 0]
  BY DEF CreateGoal
<1>3. goal.id + 1 \in 1 .. MaxGoals /\ 1 \in 1 .. MaxRunsLimit
  BY <1>1, GoalTyped, WorkbenchAssumption
<1>4. k \in Keys /\ <<"objective">> \in Prompts
  BY <1>3 DEF Keys, Prompts
<1>5. to \in Ops /\ to.pc = "create" /\ to.key = k
  BY <1>4, OpsMade
<1> HIDE DEF to
<1>6. NoFresh
  <2>1. CASE goal.status = "none"
    <3>1. goal.n = 0
      BY <2>1 DEF GoalInv, Begun
    <3> QED BY <3>1, LatestOver DEF LatestEnded
  <2>2. CASE goal.status = "stopped"
    <3>1. \A c \in Callers : op[c].pc # "stop"
      BY <1>1, OpsMade DEF LockFree
    <3> QED BY <2>2, <3>1 DEF GoalInv, LatestOnly
  <2>3. CASE goal.status \in {"budget_exhausted", "failed", "completed"}
    BY <2>3 DEF GoalInv, LatestOnly
  <2> QED BY <1>1, <2>1, <2>2, <2>3, GoalTyped DEF Statuses, Settled
<1>7. NoFresh' /\ Begun'
  BY <1>1, <1>2, <1>3, <1>6 DEF NoFresh, Fresh, Begun
<1>8. LatestOnly'
  BY <1>7 DEF LatestOnly, NoFresh
<1>9. op' \in [Callers -> Ops] => TypeOK'
  <2>1. goal' \in [id : 0 .. MaxGoals, status : Statuses, max : 0 .. MaxRunsLimit, n : 0 .. MaxRunsLimit]
        /\ goal'.n <= goal'.max
    <3>1. /\ goal.id + 1 \in 0 .. MaxGoals /\ m \in 0 .. MaxRunsLimit /\ 0 \in 0 .. MaxRunsLimit
          /\ 0 <= m /\ "active" \in Statuses
      BY <1>3, WorkbenchAssumption DEF Statuses
    <3> QED BY <1>2, <3>1
  <2> QED BY <1>1, <2>1 DEF GoalInv, TypeOK
<1>10. op'[u] = to => Holds(op[u])'
  BY <1>2, <1>5, <1>7 DEF Holds
<1> QED BY <1>1, <1>5, <1>7, <1>8, <1>9, <1>10, HolderStep

(* Pausing or completing a goal takes the lock and frees it at once.        *)
LEMMA VerdictStep ==
  ASSUME GoalInv, NEW u \in Users, Pause(u) \/ Complete(u)
  PROVE  GoalInv'
<1>1. /\ LockFree /\ UNCHANGED <<run, op, booted, used>>
      /\ \/ goal.status = "active" /\ goal' = [goal EXCEPT !.status = "paused"]
         \/ goal.status = "awaiting_review" /\ goal' = [goal EXCEPT !.status = "completed"]
  BY DEF Pause, Complete
<1>2. /\ goal'.id = goal.id /\ goal'.n = goal.n /\ goal'.max = goal.max
      /\ \/ goal'.status = "paused"
         \/ goal.status = "awaiting_review" /\ goal'.status = "completed"
      /\ goal.status # "none"
  BY <1>1 DEF GoalInv, TypeOK
<1>3. TypeOK' /\ Begun'
  BY <1>1, <1>2 DEF GoalInv, TypeOK, Statuses, Settled, Begun
<1>4. \A c \in Callers : op'[c] = Idle
  BY <1>1 DEF LockFree
<1>5. OneHolder' /\ \A c \in Callers : Holds(op[c])'
  BY <1>4, OpsMade DEF OneHolder, Holds
<1>6. \A k \in Keys : Fresh(k)' <=> Fresh(k)
  BY <1>1 DEF Fresh
<1>7. LatestOnly'
  BY <1>1, <1>2, <1>6 DEF GoalInv, LatestOnly, Latest, NoFresh
<1> QED BY <1>3, <1>5, <1>7 DEF GoalInv

LEMMA StopStep ==
  ASSUME GoalInv, NEW u \in Users, Stop(u)
  PROVE  GoalInv'
<1> DEFINE to == [pc |-> "stop", key |-> Latest]
<1>1. /\ u \in Callers /\ LockFree /\ goal.status # "none" /\ UNCHANGED <<run, booted, used>>
      /\ goal' = [goal EXCEPT !.status = "stopped"]
      /\ Goes(u, IF goal.n = 0 THEN Idle ELSE to)
  BY DEF Stop, Callers
<1>2. /\ goal'.id = goal.id /\ goal'.n = goal.n /\ goal'.max = goal.max /\ goal'.status = "stopped"
      /\ Latest' = Latest
  BY <1>1 DEF GoalInv, TypeOK, Latest
<1>3. (op' \in [Callers -> Ops] => TypeOK') /\ Begun'
  BY <1>1, <1>2 DEF GoalInv, TypeOK, Statuses, Begun
<1>4. \A k \in Keys : Fresh(k)' => k = Latest' /\ run'[k].admission # "failed"
  BY <1>1, <1>2 DEF GoalInv, LatestOnly, Fresh
<1>5. CASE goal.n = 0
  <2>1. NoFresh
    BY <1>5, LatestOver DEF LatestEnded
  <2>2. NoFresh'
    BY <1>1, <2>1 DEF NoFresh, Fresh
  <2>3. LatestOnly'
    BY <2>2 DEF LatestOnly, NoFresh
  <2>4. op'[u] = Idle => Holds(op[u])'
    BY OpsMade DEF Holds
  <2> QED BY <1>1, <1>3, <1>5, <2>3, <2>4, OpsMade, HolderStep
<1>6. CASE goal.n # 0
  <2>1. to \in Ops /\ to.pc = "stop" /\ to.key = Latest
    <3>1. goal.n > 0
      BY <1>6, GoalTyped
    <3> QED BY <3>1, LatestTyped, OpsMade
  <2>2. Goes(u, to)
    BY <1>1, <1>6
  <2>3. op'[u] = to
    BY <1>1, <2>1, <2>2, GoesAlone DEF GoalInv
  <2>4. \E c \in Callers : op'[c] = [pc |-> "stop", key |-> Latest']
    BY <1>1, <1>2, <2>3
  <2>5. LatestOnly'
    BY <1>2, <1>4, <2>4 DEF LatestOnly
  <2> HIDE DEF to
  <2>6. op'[u] = to => Holds(op[u])'
    BY <1>2, <2>1 DEF Holds
  <2> QED BY <1>1, <1>3, <2>1, <2>2, <2>5, <2>6, HolderStep
<1> QED BY <1>5, <1>6

LEMMA StopLatestStep ==
  ASSUME GoalInv, NEW u \in Callers, StopLatest(u)
  PROVE  GoalInv'
<1> DEFINE k == op[u].key
           rec == [run[k] EXCEPT !.drive = "none", !.ends = <<"cancelled">>]
<1>1. /\ op[u].pc = "stop" /\ op[u] \in Ops /\ Holds(op[u]) /\ UNCHANGED <<goal, booted, used>>
      /\ run \in [Keys -> RunRec] /\ Goes(u, Idle)
  BY DEF StopLatest, GoalInv, TypeOK
<1>2. k \in Keys /\ k = Latest /\ goal.status = "stopped"
  BY <1>1, OpFields DEF Holds
<1>3. rec \in RunRec /\ rec.drive = "none"
  <2>1. <<"cancelled">> \in Seq(Terminals)
    BY DEF Terminals
  <2> QED BY <1>1, <1>2, <2>1 DEF RunRec
<1>4. run' = IF Fresh(k) THEN [run EXCEPT ![k] = rec] ELSE run
  BY <1>1, <1>2 DEF StopLatest, Fresh
<1> HIDE DEF rec
<1>5. (op' \in [Callers -> Ops] => TypeOK') /\ Begun'
  BY <1>1, <1>3, <1>4 DEF GoalInv, TypeOK, Begun
<1>6. NoFresh'
  <2>1. \A j \in Keys : Fresh(j) => j = k
    BY <1>2 DEF GoalInv, LatestOnly
  <2>2. CASE Fresh(k)
    <3>1. run'[k].drive = "none" /\ \A j \in Keys : j # k => run'[j] = run[j]
      BY <1>1, <1>2, <1>3, <1>4, <2>2
    <3> QED BY <2>1, <3>1 DEF NoFresh, Fresh
  <2>3. CASE ~ Fresh(k)
    <3>1. run' = run
      BY <1>4, <2>3
    <3> QED BY <2>1, <2>3, <3>1 DEF NoFresh, Fresh
  <2> QED BY <2>2, <2>3
<1>7. LatestOnly'
  BY <1>6 DEF LatestOnly, NoFresh
<1>8. op'[u] = Idle => Holds(op[u])'
  BY OpsMade DEF Holds
<1> QED BY <1>1, <1>5, <1>7, <1>8, OpsMade, HolderStep

LEMMA ResumeStep ==
  ASSUME GoalInv, NEW u \in Users, Resume(u)
  PROVE  GoalInv'
<1> DEFINE to == [pc |-> "resumed"]
<1>1. /\ u \in Callers /\ LockFree /\ Goes(u, to) /\ UNCHANGED <<run, booted>>
      /\ goal.status # "none" /\ used.resumes < MaxResumes
      /\ used' = [used EXCEPT !.resumes = @ + 1]
  BY DEF Resume, Callers
<1>2. PICK m \in 1 .. MaxRunsLimit :
        goal.n < m /\ goal' = [goal EXCEPT !.status = "active", !.max = m]
  BY DEF Resume
<1>3. /\ goal'.id = goal.id /\ goal'.n = goal.n /\ goal'.max = m /\ goal'.status = "active"
      /\ goal' \in [id : 0 .. MaxGoals, status : Statuses, max : 0 .. MaxRunsLimit, n : 0 .. MaxRunsLimit]
      /\ goal'.n < goal'.max /\ goal'.n <= goal'.max
  <2>1. /\ m \in 0 .. MaxRunsLimit /\ "active" \in Statuses /\ goal.n <= m
        /\ goal \in [id : 0 .. MaxGoals, status : Statuses, max : 0 .. MaxRunsLimit, n : 0 .. MaxRunsLimit]
    BY <1>2, GoalTyped DEF GoalInv, TypeOK, Statuses
  <2> QED BY <1>2, <2>1
<1>4. used' \in [resumes : 0 .. MaxResumes, crashes : 0 .. MaxCrashes]
  BY <1>1, WorkbenchAssumption DEF GoalInv, TypeOK
<1>5. (op' \in [Callers -> Ops] => TypeOK') /\ Begun'
  BY <1>1, <1>3, <1>4 DEF GoalInv, TypeOK, Begun
<1>6. LatestOnly'
  BY <1>1, <1>3 DEF GoalInv, LatestOnly, Latest, Fresh
<1>7. to \in Ops /\ to.pc = "resumed"
  BY OpsMade
<1> HIDE DEF to
<1>8. op'[u] = to => Holds(op[u])'
  BY <1>3, <1>7 DEF Holds
<1> QED BY <1>1, <1>5, <1>6, <1>7, <1>8, HolderStep

LEMMA ResumedStep ==
  ASSUME GoalInv, NEW u \in Callers, Resumed(u)
  PROVE  GoalInv'
<1>1. /\ op[u].pc = "resumed" /\ op[u] \in Ops /\ Holds(op[u])
      /\ UNCHANGED <<goal, run, booted, used>>
  BY DEF Resumed, GoalInv, TypeOK
<1>2. goal.status = "active" /\ goal.n < goal.max
  BY <1>1 DEF Holds
<1>3. (op' \in [Callers -> Ops] => TypeOK') /\ Begun'
  BY <1>1 DEF GoalInv, TypeOK, Begun
<1>4. LatestOnly'
  BY <1>1, <1>2 DEF GoalInv, LatestOnly, Latest, Fresh
<1>5. CASE LatestEnded
  <2> DEFINE to == [pc |-> "create", key |-> <<goal.id, goal.n + 1>>, prompt |-> Prompt("user_resumed")]
  <2>1. goal.max > 0 /\ "user_resumed" \in Reasons /\ Goes(u, to)
    BY <1>2, <1>5, GoalTyped DEF Reasons, Resumed
  <2>2. to \in Ops /\ to.pc = "create" /\ to.key = <<goal.id, goal.n + 1>>
    BY <1>2, <2>1, PromptTyped, NextKey, OpsMade
  <2> HIDE DEF to
  <2>3. NoFresh
    BY <1>5, LatestOver
  <2>4. NoFresh'
    BY <1>1, <2>3 DEF NoFresh, Fresh
  <2>5. op'[u] = to => Holds(op[u])'
    BY <1>1, <1>2, <2>2, <2>4 DEF Holds
  <2> QED BY <1>1, <1>3, <1>4, <2>1, <2>2, <2>5, HolderStep
<1>6. CASE ~ LatestEnded
  <2>1. Goes(u, Idle)
    BY <1>6 DEF Resumed
  <2>2. op'[u] = Idle => Holds(op[u])'
    BY OpsMade DEF Holds
  <2> QED BY <1>1, <1>3, <1>4, <2>1, <2>2, OpsMade, HolderStep
<1> QED BY <1>5, <1>6

-----------------------------------------------------------------------------
LEMMA InitGoal == Init => GoalInv
<1> SUFFICES ASSUME Init PROVE GoalInv
  OBVIOUS
<1>1. NoRun \in RunRec /\ NoRun.drive = "none"
  BY NoRunTyped
<1>2. \A k \in Keys : ~ Fresh(k)
  BY <1>1 DEF Init, Fresh
<1>3. op \in [Callers -> Ops] /\ \A c \in Callers : op[c] = Idle
  BY OpsMade DEF Init
<1>4. TypeOK
  BY <1>1, <1>3, WorkbenchAssumption DEF Init, TypeOK, Statuses
<1>5. OneHolder /\ \A c \in Callers : Holds(op[c])
  BY <1>3, OpsMade DEF OneHolder, Holds
<1>6. Begun /\ LatestOnly
  BY <1>2 DEF Init, Begun, LatestOnly, NoFresh
<1> QED BY <1>4, <1>5, <1>6 DEF GoalInv

LEMMA NextGoal ==
  ASSUME GoalInv, [Next]_vars
  PROVE  GoalInv'
<1>1. ASSUME NEW c \in Callers, Working(c) PROVE GoalInv'
  BY <1>1, PatchStep, CreateStep, ReferStep, AdmitStep, MarkStep, StopLatestStep, ResumedStep
     DEF Working, Submit
<1>2. ASSUME NEW u \in Users, Request(u) PROVE GoalInv'
  BY <1>2, CreateGoalStep, VerdictStep, StopStep, ResumeStep DEF Request
<1>3. ASSUME NEW k \in Keys, RunEnds(k) \/ StopRun(k) \/ ContinueRun(k) PROVE GoalInv'
  BY <1>3, RunEndsStep, StopRunStep, ContinueRunStep
<1>4. CASE UNCHANGED vars
  <2>1. TypeOK' /\ UNCHANGED <<goal, op>> /\ UNCHANGED run
    BY <1>4 DEF GoalInv, TypeOK, vars
  <2> QED BY <2>1, OutsideStep DEF Fresh
<1> QED BY <1>1, <1>2, <1>3, <1>4, TickStep, CrashStep, BootStep DEF Next

LEMMA AlwaysGoal == Spec => []GoalInv
<1>1. GoalInv /\ [Next]_vars => GoalInv'
  BY NextGoal
<1> QED BY <1>1, InitGoal, PTL DEF Spec

(* All state keeps its shape, and a goal never names more Runs than its     *)
(* max_runs, which resume may change at any time.                           *)
THEOREM GoalStaysInBudget == Spec => []TypeOK
<1>1. GoalInv => TypeOK
  BY DEF GoalInv
<1> QED BY <1>1, AlwaysGoal, PTL

(* goalEvidence and the admission keep the Runs of the Session's goals apart: *)
(* whatever ends, crashes, is stopped or resumed, at most one started Run    *)
(* has not ended.                                                            *)
THEOREM RunsFollowEachOther == Spec => []OneLiveRun
<1>1. ASSUME GoalInv PROVE OneLiveRun
  <2> DEFINE S == {k \in Keys : run[k].drive = "live" /\ run[k].ends = <<>>}
  <2>1. S \subseteq {Latest}
    BY <1>1 DEF GoalInv, LatestOnly, Fresh
  <2>2. IsFiniteSet({Latest}) /\ Cardinality({Latest}) = 1
    BY FS_Singleton
  <2> HIDE DEF S
  <2>3. Cardinality(S) <= 1
    BY <2>1, <2>2, FS_Subset
  <2> QED BY <2>3 DEF S, OneLiveRun
<1> QED BY <1>1, AlwaysGoal, PTL

(* Who holds withGoalLock has the last word: a Run is started only for the   *)
(* current goal, while it is active and within its limit.                    *)
THEOREM OnlyActiveGoalsStart == Spec => StartsAreAuthorised
<1> DEFINE Authorised ==
      \A k \in Keys : run[k].ends = <<>> /\ run[k].drive # "live" /\ run'[k].drive = "live"
                        => goal.id = k[1] /\ goal.status = "active" /\ k[2] <= goal.max
<1>1. ASSUME GoalInv, [Next]_vars, UNCHANGED run PROVE Authorised
  BY <1>1
<1>2. ASSUME GoalInv, NEW c \in Callers, Admit(c) PROVE Authorised
  <2>1. /\ op[c].pc = "admit" /\ op[c] \in Ops /\ Holds(op[c]) /\ run \in [Keys -> RunRec]
    BY <1>2 DEF Admit, GoalInv, TypeOK
  <2>2. goal.status = "active" /\ op[c].key = Latest /\ goal.n <= goal.max
    BY <1>2, <2>1, GoalTyped DEF Holds
  <2>3. \A k \in Keys : k # op[c].key => run'[k] = run[k]
    BY <1>2, <2>1 DEF Admit
  <2> QED BY <2>2, <2>3 DEF Latest
<1>3. ASSUME GoalInv, NEW c \in Callers, Create(c) \/ Mark(c) \/ StopLatest(c) PROVE Authorised
  <2>1. /\ op[c] \in Ops /\ op[c].pc \in {"create", "mark", "stop"} /\ run \in [Keys -> RunRec]
    BY <1>3 DEF GoalInv, TypeOK, Create, Mark, StopLatest
  <2>2. op[c].key \in Keys /\ NoRun.drive = "none"
    BY <2>1, OpFields, NoRunTyped
  <2>3. PICK r : /\ run' = [run EXCEPT ![op[c].key] = r] \/ run' = run
                 /\ r.drive = "live" => run[op[c].key].drive = "live"
    <3>1. CASE Create(c)
      <4> DEFINE r == [NoRun EXCEPT !.made = TRUE, !.prompt = op[c].prompt, !.admission = "pending"]
      <4>1. r.drive = "none"
        BY DEF NoRun
      <4>2. run' = [run EXCEPT ![op[c].key] = r] \/ run' = run
        BY <3>1 DEF Create
      <4> HIDE DEF r
      <4> QED BY <4>1, <4>2
    <3>2. CASE Mark(c)
      <4> DEFINE r == [run[op[c].key] EXCEPT !.admission = op[c].admission]
      <4>1. r.drive = run[op[c].key].drive
        BY <2>1, <2>2 DEF RunRec
      <4>2. run' = [run EXCEPT ![op[c].key] = r]
        BY <2>1, <2>2, <3>2 DEF Mark
      <4> HIDE DEF r
      <4> QED BY <4>1, <4>2
    <3>3. CASE StopLatest(c)
      <4> DEFINE r == [run[op[c].key] EXCEPT !.drive = "none", !.ends = <<"cancelled">>]
      <4>1. r.drive = "none"
        BY <2>1, <2>2 DEF RunRec
      <4>2. run' = [run EXCEPT ![op[c].key] = r] \/ run' = run
        BY <2>1, <2>2, <3>3 DEF StopLatest
      <4> HIDE DEF r
      <4> QED BY <4>1, <4>2
    <3> QED BY <1>3, <3>1, <3>2, <3>3
  <2> QED BY <2>1, <2>2, <2>3
<1>4. ASSUME GoalInv, NEW j \in Keys, RunEnds(j) \/ StopRun(j) \/ ContinueRun(j) PROVE Authorised
  <2>1. run \in [Keys -> RunRec]
    BY <1>4 DEF GoalInv, TypeOK
  <2>2. ASSUME NEW k \in Keys, run[k].ends = <<>>, run[k].drive # "live"
        PROVE  run'[k] = run[k]
    <3>1. j # k
      <4>1. run[j].drive = "live" \/ run[j].ends = <<"awaiting_input">>
        BY <1>4 DEF RunEnds, StopRun, ContinueRun
      <4>2. <<"awaiting_input">> # <<>>
        OBVIOUS
      <4> QED BY <2>2, <4>1, <4>2, Zenon
    <3>2. CASE RunEnds(j)
      BY <2>1, <3>1, <3>2 DEF RunEnds
    <3>3. CASE StopRun(j)
      BY <2>1, <3>1, <3>3 DEF StopRun
    <3>4. CASE ContinueRun(j)
      BY <2>1, <3>1, <3>4 DEF ContinueRun
    <3> QED BY <1>4, <3>2, <3>3, <3>4
  <2> QED BY <2>2
<1>5. ASSUME GoalInv, Crash \/ Boot PROVE Authorised
  <2>1. run \in [Keys -> RunRec]
    BY <1>5 DEF GoalInv, TypeOK
  <2>2. ASSUME NEW k \in Keys PROVE run'[k].drive = "live" => run[k].drive = "live"
    <3>1. run[k] \in RunRec
      BY <2>1
    <3>2. \/ run'[k] = run[k] \/ run'[k] = [run[k] EXCEPT !.drive = "lost"]
          \/ \E e : run'[k] = [run[k] EXCEPT !.drive = "none", !.ends = e]
      BY <1>5 DEF Crash, Boot
    <3> QED BY <3>1, <3>2 DEF RunRec
  <2> QED BY <2>2
<1>6. GoalInv /\ [Next]_vars => [Authorised]_vars
  <2> SUFFICES ASSUME GoalInv, [Next]_vars, vars' # vars PROVE Authorised
    OBVIOUS
  <2>1. ASSUME NEW c \in Callers, Working(c) PROVE Authorised
    <3>1. CASE Patch(c) \/ Refer(c) \/ Resumed(c)
      BY <1>1, <3>1 DEF Patch, Refer, Resumed
    <3> QED BY <1>2, <1>3, <2>1, <3>1 DEF Working, Submit
  <2>2. ASSUME NEW u \in Users, Request(u) PROVE Authorised
    BY <1>1, <2>2 DEF Request, CreateGoal, Pause, Complete, Stop, Resume
  <2>3. CASE Tick
    BY <1>1, <2>3 DEF Tick
  <2> HIDE DEF Authorised
  <2> QED BY <1>4, <1>5, <2>1, <2>2, <2>3 DEF Next
<1> QED BY <1>6, AlwaysGoal, PTL DEF Spec, StartsAreAuthorised
=============================================================================
