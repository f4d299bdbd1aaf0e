------------------------------ MODULE Scheduler ------------------------------
(***************************************************************************)
(* SchedulerService (packages/scheduler) over the schedule tables of the    *)
(* event store.  tick() and recover() of several service instances, and of  *)
(* one instance, overlap at every await; an instance may crash and come     *)
(* back under a new recoveryOwnerId.                                        *)
(*                                                                          *)
(* An occurrence is <<schedule, dueAt>>; its run and command ids follow     *)
(* from it.  The age of a lease is kept as "fresh or not".                  *)
(***************************************************************************)
EXTENDS Naturals, FiniteSets, FiniteSetsExt

CONSTANTS
  Schedules,   \* schedule ids: numbers, in the order listSchedules returns
  FirstDue,    \* ScheduleRecord.dueAt
  Interval,    \* recurrence.intervalMs, 0 for none
  Services,    \* service instances on one store
  Calls,       \* calls of processDue that may overlap
  ServiceOf,   \* the instance a call belongs to
  MaxTime,     \* bound: the clock
  MaxFaults    \* bound: crashes, failing createRun, renewals that stall

ASSUME SchedulerAssumption ==
  /\ Schedules \subseteq Nat /\ FirstDue \in [Schedules -> Nat] /\ Interval \in [Schedules -> Nat]
  /\ ServiceOf \in [Calls -> Services]
  /\ MaxTime \in Nat /\ MaxFaults \in Nat

VARIABLES
  now,         \* the clock
  schedule,    \* table schedules: the status of each
  catchUp,     \* and its catchUpPolicy
  occurrence,  \* table schedule_occurrences
  lease,       \* table schedule_occurrence_recovery_leases
  notified,    \* table schedule_notifications: occurrence, and createdAt
  events,      \* the lifecycle events of occurrences in the scheduler stream
  runs,        \* calls of createRun so far
  processing,  \* processingOccurrences of each instance
  call,        \* where each call of processDue is
  faults       \* count, for the bound

vars == <<now, schedule, catchUp, occurrence, lease, notified, events, runs, processing, call, faults>>

Occurrences == Schedules \X (0..MaxTime)
Nobody      == "nobody"
NoLease     == [owner |-> Nobody, fresh |-> FALSE]
Quiet       == [pc |-> "idle", recovering |-> FALSE, at |-> 0, todo |-> {}, lost |-> FALSE]

Init ==
  /\ now        = 0
  /\ schedule   = [s \in Schedules |-> "none"]
  /\ catchUp    = [s \in Schedules |-> "none"]
  /\ occurrence = [o \in Occurrences |-> "none"]
  /\ lease      = [o \in Occurrences |-> NoLease]
  /\ notified   = {}
  /\ events     = {}
  /\ runs       = [o \in Occurrences |-> 0]
  /\ processing = [v \in Services |-> {}]
  /\ call       = [c \in Calls |-> Quiet]
  /\ faults     = 0

Fault == faults < MaxFaults /\ faults' = faults + 1

-----------------------------------------------------------------------------
(* schedule() and cancel(); repeated, they change nothing, and a cancelled  *)
(* record is a ScheduleConflictError to create again.  Their own lifecycle  *)
(* events are left out.                                                     *)
CreateSchedule(s, policy) ==
  /\ schedule[s] = "none"
  /\ schedule' = [schedule EXCEPT ![s] = "active"]
  /\ catchUp' = [catchUp EXCEPT ![s] = policy]
  /\ UNCHANGED <<now, occurrence, lease, notified, events, runs, processing, call, faults>>

CancelSchedule(s) ==
  /\ schedule[s] = "active"
  /\ schedule' = [schedule EXCEPT ![s] = "cancelled"]
  /\ UNCHANGED <<now, catchUp, occurrence, lease, notified, events, runs, processing, call, faults>>

-----------------------------------------------------------------------------
(* processDue.                                                              *)

LatestDueAt(s, at) ==
  IF Interval[s] = 0 THEN FirstDue[s]
  ELSE FirstDue[s] + ((at - FirstDue[s]) \div Interval[s]) * Interval[s]

Current(c) == LET s == Min(call[c].todo) IN <<s, LatestDueAt(s, call[c].at)>>
Owner(c)   == ServiceOf[c]

At(c, pc)   == call[c].pc = pc
Goto(c, pc) == call' = [call EXCEPT ![c].pc = pc]
(* continue: the rest of the list this call read when it began.             *)
NextSchedule(c) ==
  LET rest == call[c].todo \ {Current(c)[1]} IN
    call' = [call EXCEPT ![c] = IF rest = {} THEN Quiet
                                ELSE [@ EXCEPT !.pc = "due", !.todo = rest, !.lost = FALSE]]

Begin(c, recovering) ==
  LET due == {s \in Schedules : schedule[s] = "active" /\ FirstDue[s] <= now} IN
    /\ At(c, "idle") /\ due # {}
    /\ call' = [call EXCEPT ![c] = [Quiet EXCEPT !.pc = "due", !.recovering = recovering,
                                                 !.at = now, !.todo = due]]
    /\ UNCHANGED <<now, schedule, catchUp, occurrence, lease, notified, events, runs, processing, faults>>

Skips(c) == call[c].recovering /\ catchUp[Current(c)[1]] = "skip"

(* skipScheduleOccurrence.                                                  *)
SkippableAlways(o) == TRUE                     \* a fault: over a claim
Skippable(o) == schedule[o[1]] = "active" /\ occurrence[o] = "none"
Skip(c) ==
  LET o == Current(c) IN
    /\ At(c, "due") /\ Skips(c)
    /\ occurrence' = [occurrence EXCEPT ![o] = IF Skippable(o) THEN "skipped" ELSE @]
    /\ IF occurrence'[o] = "skipped" THEN Goto(c, "skipped") ELSE NextSchedule(c)
    /\ UNCHANGED <<now, schedule, catchUp, lease, notified, events, runs, processing, faults>>

TellSkipped(c) ==
  /\ At(c, "skipped")
  /\ events' = events \cup {<<"skipped", Current(c)>>}
  /\ NextSchedule(c)
  /\ UNCHANGED <<now, schedule, catchUp, occurrence, lease, notified, runs, processing, faults>>

(* claimScheduleOccurrence: the schedule is looked up again.  recover()     *)
(* goes on with an occurrence nobody was notified of.                       *)
ClaimableWhenListed(o) == occurrence[o] = "none"  \* a fault: trusts the list
Claimable(o) == schedule[o[1]] = "active" /\ occurrence[o] = "none"
ResumableNever(o) == FALSE                     \* a fault: what was claimed is left
Resumable(o) ==
  /\ schedule[o[1]] = "active" /\ occurrence[o] # "skipped"
  /\ \A n \in notified : n[1] # o
Claim(c) ==
  LET o == Current(c) IN
    /\ At(c, "due") /\ ~Skips(c)
    /\ occurrence' = [occurrence EXCEPT ![o] = IF Claimable(o) THEN "claimed" ELSE @]
    /\ IF Claimable(o) \/ (call[c].recovering /\ Resumable(o))
       THEN Goto(c, "claimed") ELSE NextSchedule(c)
    /\ UNCHANGED <<now, schedule, catchUp, lease, notified, events, runs, processing, faults>>

(* claimScheduleOccurrenceRecovery, unless this instance is at it.          *)
Lease(c) ==
  LET o == Current(c) IN
    /\ At(c, "claimed")
    /\ IF o \in processing[Owner(c)] \/ lease[o].fresh
       THEN NextSchedule(c) /\ UNCHANGED lease
       ELSE Goto(c, "leased") /\ lease' = [lease EXCEPT ![o] = [owner |-> Owner(c), fresh |-> TRUE]]
    /\ UNCHANGED <<now, schedule, catchUp, occurrence, notified, events, runs, processing, faults>>

(* claimScheduleOccurrenceExecution: the fence in front of createRun.       *)
FenceByLease(c) ==                             \* a fault: started ones too
  lease[Current(c)] = [owner |-> Owner(c), fresh |-> TRUE]
Fence(c) ==
  /\ lease[Current(c)] = [owner |-> Owner(c), fresh |-> TRUE]
  /\ occurrence[Current(c)] = "claimed"
Start(c) ==
  /\ At(c, "leased")
  /\ IF Fence(c)
     THEN occurrence' = [occurrence EXCEPT ![Current(c)] = "started"] /\ Goto(c, "fenced")
     ELSE NextSchedule(c) /\ UNCHANGED occurrence
  /\ UNCHANGED <<now, schedule, catchUp, lease, notified, events, runs, processing, faults>>

(* An exception ends the whole call.                                        *)
Throw(c) ==
  /\ call' = [call EXCEPT ![c] = Quiet]
  /\ processing' = [processing EXCEPT ![Owner(c)] = @ \ {Current(c)}]

(* Back from the store the call creates the Run, unless parseStartRun       *)
(* refuses what the schedule holds.                                         *)
Create(c) ==
  LET o == Current(c) IN
    /\ At(c, "fenced")
    /\ \/ /\ processing' = [processing EXCEPT ![Owner(c)] = @ \cup {o}]
          /\ runs' = [runs EXCEPT ![o] = @ + 1]
          /\ Goto(c, "creating") /\ UNCHANGED faults
       \/ Throw(c) /\ Fault /\ UNCHANGED runs
    /\ UNCHANGED <<now, schedule, catchUp, occurrence, lease, notified, events>>

(* The timer around createRun: by owner, however old the lease is.          *)
Renew(c) ==
  LET o == Current(c) IN
    /\ At(c, "creating")
    /\ IF lease[o].owner = Owner(c)
       THEN lease' = [lease EXCEPT ![o].fresh = TRUE] /\ UNCHANGED call
       ELSE call' = [call EXCEPT ![c].lost = TRUE] /\ UNCHANGED lease
    /\ UNCHANGED <<now, schedule, catchUp, occurrence, notified, events, runs, processing, faults>>

Created(c) ==
  /\ At(c, "creating")
  /\ \/ call[c].lost /\ Throw(c) /\ UNCHANGED <<events, faults>>
     \/ Throw(c) /\ Fault /\ UNCHANGED events
     \/ /\ ~call[c].lost /\ Goto(c, "notifying")
        /\ events' = events \cup {<<"claimed", Current(c)>>}
        /\ UNCHANGED <<processing, faults>>
  /\ UNCHANGED <<now, schedule, catchUp, occurrence, lease, notified, runs>>

(* recordScheduleNotification: one per occurrence, or a conflict.           *)
Notify(c) ==
  LET n == <<Current(c), call[c].at>> IN
    /\ At(c, "notifying")
    /\ IF \E m \in notified : m[1] = n[1] /\ m # n
       THEN Throw(c) /\ UNCHANGED notified
       ELSE notified' = notified \cup {n} /\ Goto(c, "notified") /\ UNCHANGED processing
    /\ UNCHANGED <<now, schedule, catchUp, occurrence, lease, events, runs, faults>>

TellNotified(c) ==
  /\ At(c, "notified")
  /\ events' = events \cup {<<"notification", Current(c)>>}
  /\ processing' = [processing EXCEPT ![Owner(c)] = @ \ {Current(c)}]
  /\ NextSchedule(c)
  /\ UNCHANGED <<now, schedule, catchUp, occurrence, lease, notified, runs, faults>>

-----------------------------------------------------------------------------
(* Time and crashes.  A lease in use ages out only when its holder stalls.  *)
Tick ==
  /\ now < MaxTime /\ now' = now + 1
  /\ UNCHANGED <<schedule, catchUp, occurrence, lease, notified, events, runs, processing, call, faults>>

Held(o) == \E c \in Calls : /\ call[c].pc \in {"leased", "fenced", "creating"}
                             /\ Current(c) = o /\ Owner(c) = lease[o].owner
Age(o) ==
  /\ lease[o].fresh
  /\ IF Held(o) THEN Fault ELSE UNCHANGED faults
  /\ lease' = [lease EXCEPT ![o].fresh = FALSE]
  /\ UNCHANGED <<now, schedule, catchUp, occurrence, notified, events, runs, processing, call>>

(* The instance that comes back owns none of the leases.                    *)
Crash(v) ==
  /\ Fault /\ \E c \in Calls : Owner(c) = v /\ ~At(c, "idle")
  /\ call' = [c \in Calls |-> IF Owner(c) = v THEN Quiet ELSE call[c]]
  /\ processing' = [processing EXCEPT ![v] = {}]
  /\ lease' = [o \in Occurrences |-> IF lease[o].owner = v THEN [lease[o] EXCEPT !.owner = Nobody] ELSE lease[o]]
  /\ UNCHANGED <<now, schedule, catchUp, occurrence, notified, events, runs>>

-----------------------------------------------------------------------------
Step(c) ==
  \/ Skip(c) \/ TellSkipped(c) \/ Claim(c) \/ Lease(c) \/ Start(c) \/ Create(c)
  \/ Created(c) \/ Notify(c) \/ TellNotified(c)

Next ==
  \/ \E s \in Schedules : CancelSchedule(s) \/ \E policy \in {"skip", "run_latest"} : CreateSchedule(s, policy)
  \/ \E c \in Calls : Step(c) \/ Renew(c) \/ \E recovering \in BOOLEAN : Begin(c, recovering)
  \/ \E o \in Occurrences : Age(o)
  \/ \E v \in Services : Crash(v)
  \/ Tick

(* A call that has begun goes on, leases age, and recover(), which is only  *)
(* ever called explicitly, is called again and again between the ticks.     *)
Fairness ==
  /\ \A c \in Calls : WF_vars(Step(c)) /\ SF_vars(Begin(c, TRUE))
  /\ \A o \in Occurrences : WF_vars(~Held(o) /\ Age(o))

Spec     == Init /\ [][Next]_vars
FairSpec == Spec /\ Fairness

-----------------------------------------------------------------------------
(* Two instances, or a tick and a recovery of one, create the Run of an     *)
(* occurrence at most once, whoever loses a lease, fails or crashes; a      *)
(* skipped occurrence creates none, and whoever is notified has a Run.      *)
RunsOnce ==
  /\ \A o \in Occurrences : /\ runs[o] <= (IF occurrence[o] = "started" THEN 1 ELSE 0)
                            /\ <<"skipped", o>> \in events => occurrence[o] = "skipped"
  /\ \A n \in notified : runs[n[1]] = 1 /\ \A m \in notified : m[1] = n[1] => m = n

(* The decision about an occurrence is final: claimed work is not skipped   *)
(* later, skipped work is not claimed, and nothing is un-started.           *)
DecidedOnce ==
  [][\A o \in Occurrences :
       <<occurrence[o], occurrence'[o]>> \in
          {<<"none", "claimed">>, <<"none", "skipped">>, <<"claimed", "started">>}
       \/ occurrence'[o] = occurrence[o]]_vars

(* After a cancellation no occurrence of the schedule is taken up any more, *)
(* although a call may still hold the list in which it was active.          *)
CancelledNotClaimed ==
  [][\A o \in Occurrences : schedule[o[1]] = "cancelled" /\ occurrence[o] = "none"
                              => occurrence'[o] = "none"]_vars

(* A claimed occurrence of a schedule that catches up is started in the     *)
(* end, although the claimer crashed before it got there; unless the        *)
(* schedule is cancelled or a later occurrence is due.                      *)
Superseded(o) == Interval[o[1]] > 0 /\ now >= o[2] + Interval[o[1]]
ClaimedStarts ==
  \A o \in Occurrences :
    ((occurrence[o] = "claimed" /\ catchUp[o[1]] = "run_latest")
       ~> (occurrence[o] = "started" \/ schedule[o[1]] = "cancelled" \/ Superseded(o)))
=============================================================================
