--------------------------- MODULE ExecutionStore ---------------------------
(***************************************************************************)
(* The AgentExecution kernel of the Python runtime: SQLiteExecutionStore,   *)
(* the ExecutionDriver of each worker, and AgentExecutionRuntime around     *)
(* them.                                                                    *)
(*                                                                          *)
(* A step is one store transaction and the driver code around it.  Time is  *)
(* kept as what the store compares it with: a lease or an outbox claim is   *)
(* live or has lapsed, a retry is due or not.  The loop adapter may return  *)
(* any allowed result for the signals it was given.                         *)
(***************************************************************************)
EXTENDS Naturals, Sequences, FiniteSets, FiniteSetsExt, SequencesExt

CONSTANTS
  MaxExecs,    \* bound: executions, numbered in the order of created_at
  Subjects,    \* subject_ref values
  Requests,    \* request ids of commands
  Workers,     \* owner ids of drivers
  Effects,     \* statuses record_tool_effect may be called with
  MaxQueue,    \* max_queue_depth
  MaxAttempts, \* RetryPolicy.max_attempts
  MaxClaims,   \* bound: from this claim on the adapter answers and ends
  MaxFaults    \* bound: stalls past a lease, crashes, cancelled drives

ASSUME StoreAssumption ==
  /\ MaxExecs \in Nat /\ MaxQueue \in Nat \ {0} /\ MaxAttempts \in Nat \ {0}
  /\ MaxClaims \in Nat /\ MaxFaults \in Nat /\ "nobody" \notin Workers
  /\ Effects \subseteq {"pending", "unknown", "succeeded", "failed"}

VARIABLES
  row,      \* table executions
  log,      \* tables execution_events and execution_outbox, written together
  signals,  \* table execution_signals: the pending ones of each execution
  effect,   \* table execution_tool_effects, one key per execution
  command,  \* table execution_commands
  worker,   \* the driver of each worker
  faults    \* count, for the bound

vars == <<row, log, signals, effect, command, worker, faults>>

-----------------------------------------------------------------------------
Execs         == 1..MaxExecs
Active        == {"queued", "running", "awaiting_signal"}
Terminal      == {"succeeded", "failed", "cancelled"}
TerminalTypes == Terminal \cup {"dead_lettered"}
LoopTypes     == {"frame", "artifact", "agent_blocked", "question"}
EventTypes    == TerminalTypes \cup {"started", "signaled", "claimed", "lease_expired",
                   "recovery_blocked", "result_deferred", "retry_scheduled", "requeued"}
                   \cup LoopTypes
Blockers      == {"pending", "unknown"}
Transitions   == [none |-> {"pending", "unknown", "succeeded", "failed"},
                  pending |-> {"pending", "unknown", "succeeded", "failed"},
                  unknown |-> {"unknown", "succeeded", "failed"},
                  succeeded |-> {"succeeded"}, failed |-> {"failed"}]

Nobody == "nobody"
Unused == [status |-> "unused", subject |-> Nobody, attempt |-> 0, token |-> 0,
           owner |-> Nobody, lease |-> "none", delayed |-> FALSE, checkpoint |-> 0]
Idle   == [pc |-> "idle", exec |-> 0, token |-> 0, seen |-> {}, base |-> 0]
NoCommand == [kind |-> "none", target |-> Nobody, exec |-> 0]

Init ==
  /\ row     = [e \in Execs |-> Unused]
  /\ log     = [e \in Execs |-> << >>]
  /\ signals = [e \in Execs |-> {}]
  /\ effect  = [e \in Execs |-> "none"]
  /\ command = [r \in Requests |-> NoCommand]
  /\ worker  = [w \in Workers |-> Idle]
  /\ faults  = 0

(* _append_event: the event and its outbox row.                             *)
Entries(types) == [i \in DOMAIN types |-> [type |-> types[i], state |-> "new", by |-> Nobody]]
Emit(e, types) == log' = [log EXCEPT ![e] = @ \o Entries(types)]

Fault == faults < MaxFaults /\ faults' = faults + 1

-----------------------------------------------------------------------------
(* dispatch().  A request that is on record is answered from the record (or *)
(* refused when its payload differs) and changes nothing.                   *)

FreshAlways(r) == TRUE                         \* a fault: no command record
Fresh(r) == command[r].kind = "none"

QueuedCount == Cardinality({e \in Execs : row[e].status = "queued"})
ActiveOf(s) == {e \in Execs : row[e].subject = s /\ row[e].status \in Active}
Unborn      == {e \in Execs : row[e].status = "unused"}

(* The command is recorded also when the queue is full.  An execution that  *)
(* breaks the unique index of active subjects rolls everything back.        *)
Create(r, kind, target, s) ==
  /\ Fresh(r)
  /\ \/ /\ QueuedCount >= MaxQueue
        /\ command' = [command EXCEPT ![r] = [kind |-> kind, target |-> target, exec |-> 0]]
        /\ UNCHANGED <<row, log>>
     \/ /\ QueuedCount < MaxQueue /\ ActiveOf(s) = {} /\ Unborn # {}
        /\ LET e == Min(Unborn) IN
             /\ row' = [row EXCEPT ![e] = [Unused EXCEPT !.status = "queued", !.subject = s]]
             /\ Emit(e, <<"started">>)
             /\ command' = [command EXCEPT ![r] = [kind |-> kind, target |-> target, exec |-> e]]
  /\ UNCHANGED <<signals, effect, worker, faults>>

DispatchStart(r, s) == Create(r, "start", s, s)
DispatchRedrive(r, e) ==
  row[e].status \in {"failed", "cancelled"} /\ Create(r, "redrive", e, row[e].subject)

DispatchSignal(r, e) ==
  /\ Fresh(r) /\ row[e].status \in Active
  /\ signals' = [signals EXCEPT ![e] = @ \cup {r}]
  /\ Emit(e, <<"signaled">>)
  /\ command' = [command EXCEPT ![r] = [kind |-> "signal", target |-> e, exec |-> e]]
  /\ UNCHANGED <<row, effect, worker, faults>>

ReleasedInPart(x, status) == [x EXCEPT !.status = status, !.delayed = FALSE]  \* a fault
Released(x, status) ==
  [x EXCEPT !.status = status, !.owner = Nobody, !.lease = "none", !.delayed = FALSE]

(* Not fenced: it takes the lease from whoever holds it.                    *)
DispatchCancel(r, e) ==
  /\ Fresh(r) /\ row[e].status \in Active
  /\ row' = [row EXCEPT ![e] = [Released(@, "cancelled") EXCEPT !.delayed = row[e].delayed]]
  /\ Emit(e, <<"cancelled">>)
  /\ command' = [command EXCEPT ![r] = [kind |-> "cancel", target |-> e, exec |-> e]]
  /\ UNCHANGED <<signals, effect, worker, faults>>

RecordToolEffect(e, status) ==
  /\ row[e].status # "unused" /\ status \in Transitions[effect[e]] \ {effect[e]}
  /\ effect' = [effect EXCEPT ![e] = status]
  /\ UNCHANGED <<row, log, signals, command, worker, faults>>

-----------------------------------------------------------------------------
(* Claims.                                                                  *)

ExpiredNever(e) == FALSE                       \* a fault: leases do not expire
Expired(e)   == row[e].status = "running" /\ row[e].lease = "lapsed"
Uncertain(e) == effect[e] \in Blockers
BlindlyTakeable(e) ==                          \* a fault: an expired one is just taken
  \/ row[e].status = "queued" /\ ~row[e].delayed
  \/ row[e].status = "awaiting_signal" /\ signals[e] # {}
  \/ Expired(e)
Takeable(e) ==
  \/ row[e].status = "queued" /\ ~row[e].delayed
  \/ row[e].status = "awaiting_signal" /\ signals[e] # {}
  \/ Expired(e) /\ (Uncertain(e) => signals[e] # {})

(* claim_next: oldest first; an expired execution with an unsettled effect  *)
(* met on the way is blocked for recovery, and is then as claimable as any  *)
(* that awaits a signal.                                                    *)
Taken(e, w) ==
  [row[e] EXCEPT !.status = "running", !.owner = w, !.lease = "live", !.delayed = FALSE,
                 !.attempt = @ + 1, !.token = @ + 1]
ClaimEvents(d, e) ==
  IF d > e THEN << >>
  ELSE (IF Expired(d) /\ Uncertain(d) THEN <<"recovery_blocked">>
        ELSE IF Expired(d) /\ d = e THEN <<"lease_expired">> ELSE << >>)
       \o (IF d = e THEN <<"claimed">> ELSE << >>)

ClaimNext(w) ==
  /\ worker[w].pc = "idle"
  /\ \E e \in Execs :
       /\ Takeable(e) /\ \A d \in 1..(e - 1) : ~Takeable(d)
       /\ row' = [d \in Execs |->
            IF d = e THEN Taken(e, w)
            ELSE IF d < e /\ Expired(d) THEN Released(row[d], "awaiting_signal") ELSE row[d]]
       /\ log' = [d \in Execs |-> log[d] \o Entries(ClaimEvents(d, e))]
       /\ worker' = [worker EXCEPT ![w] = [Idle EXCEPT !.pc = "claimed", !.exec = e,
                                                       !.token = row[e].token + 1]]
  /\ UNCHANGED <<signals, effect, command, faults>>

(* No execution is left to claim: all the blocked ones are put aside.       *)
ClaimNothing(w) ==
  /\ worker[w].pc = "idle" /\ \A e \in Execs : ~Takeable(e)
  /\ \E e \in Execs : Expired(e)
  /\ row' = [e \in Execs |-> IF Expired(e) THEN Released(row[e], "awaiting_signal") ELSE row[e]]
  /\ log' = [e \in Execs |-> IF Expired(e) THEN log[e] \o Entries(<<"recovery_blocked">>) ELSE log[e]]
  /\ UNCHANGED <<signals, effect, command, worker, faults>>

(* run_once reads the snapshot and the pending signals after the claim.     *)
Fetch(w) ==
  /\ worker[w].pc = "claimed"
  /\ worker' = [worker EXCEPT ![w].pc = "looping", ![w].seen = signals[worker[w].exec],
                              ![w].base = row[worker[w].exec].checkpoint]
  /\ UNCHANGED <<row, log, signals, effect, command, faults>>

-----------------------------------------------------------------------------
(* What a driver does with its execution; all of it under _assert_fence.    *)

FencedByLease(w) ==                            \* a fault: neither owner nor token
  LET x == row[worker[w].exec] IN x.status = "running" /\ x.lease = "live"
FencedByToken(w) == row[worker[w].exec].token = worker[w].token  \* a fault: nothing else
Fenced(w) ==
  LET x == row[worker[w].exec] IN
    x.status = "running" /\ x.owner = w /\ x.token = worker[w].token /\ x.lease = "live"

Rest(w) == worker' = [worker EXCEPT ![w] = Idle]

Committed(x, status) ==
  [(IF status = "running" THEN x ELSE Released(x, status))
     EXCEPT !.checkpoint = @ + 1, !.delayed = FALSE]

(* commit_loop_result: a terminal result is deferred when a signal is       *)
(* pending that it did not apply.                                           *)
LateNone(e, used) == {}                        \* a fault: no late-signal check
Late(e, used) == signals[e] \ used

Commit(w, status, used, events) ==
  LET e == worker[w].exec IN
    /\ Fenced(w)
    /\ IF status \in Terminal /\ Late(e, used) # {}
       THEN row' = [row EXCEPT ![e] = Released(@, "queued")] /\ Emit(e, <<"result_deferred">>)
       ELSE /\ row' = [row EXCEPT ![e] = Committed(@, status)]
            /\ Emit(e, events \o (IF status \in Terminal THEN <<status>> ELSE << >>))
    /\ signals' = [signals EXCEPT ![e] = @ \ used]
    /\ Rest(w)
    /\ UNCHANGED <<effect, command, faults>>

(* schedule_retry_claimed: manual recovery, dead letter or a delayed retry. *)
ScheduleRetry(w) ==
  LET e == worker[w].exec IN
    /\ Fenced(w)
    /\ \/ /\ Uncertain(e)
          /\ row' = [row EXCEPT ![e] = Released(@, "awaiting_signal")]
          /\ Emit(e, <<"recovery_blocked">>)
       \/ /\ ~Uncertain(e) /\ row[e].attempt >= MaxAttempts
          /\ row' = [row EXCEPT ![e] = Released(@, "failed")]
          /\ Emit(e, <<"dead_lettered">>)
       \/ /\ ~Uncertain(e) /\ row[e].attempt < MaxAttempts
          /\ row' = [row EXCEPT ![e] = [Released(@, "queued") EXCEPT !.delayed = TRUE]]
          /\ Emit(e, <<"retry_scheduled">>)
    /\ Rest(w)
    /\ UNCHANGED <<signals, effect, command, faults>>

(* A driver that is no longer the holder gets a FencingError and lets go.   *)
LoseFence(w) ==
  /\ worker[w].pc \in {"looping", "releasing"} /\ ~Fenced(w)
  /\ Rest(w)
  /\ UNCHANGED <<row, log, signals, effect, command, faults>>

(* The adapter returns, asks for a retry, or raises (fail_execution).       *)
RunOnce(w) ==
  /\ worker[w].pc = "looping"
  /\ \/ \E status \in {"queued", "running", "awaiting_signal", "succeeded", "failed"} :
          \E used \in SUBSET worker[w].seen :
            /\ worker[w].token >= MaxClaims => status = "succeeded" /\ used = worker[w].seen
            /\ Commit(w, status, used, <<"frame">>)
     \/ worker[w].token < MaxClaims /\ ScheduleRetry(w)

(* heartbeat() fails or raises, or the runtime stops: the adapter is        *)
(* cancelled, then the lease is given back.  requeue_claimed.               *)
Interrupt(w) ==
  /\ worker[w].pc = "looping"
  /\ Fenced(w) => Fault
  /\ ~Fenced(w) => UNCHANGED faults
  /\ worker' = [worker EXCEPT ![w].pc = "releasing"]
  /\ UNCHANGED <<row, log, signals, effect, command>>

RequeueClaimed(w) ==
  LET e == worker[w].exec IN
    /\ worker[w].pc = "releasing" /\ Fenced(w)
    /\ row' = [row EXCEPT ![e] = Released(@, "queued")]
    /\ Emit(e, <<"requeued">>)
    /\ Rest(w)
    /\ UNCHANGED <<signals, effect, command, faults>>

(* The adapter raises while it is cancelled: after a lost heartbeat that    *)
(* fails the execution or retries it; at shutdown nothing catches it, and   *)
(* the lease is left to lapse.                                              *)
CancelRaises(w) ==
  /\ worker[w].pc = "releasing"
  /\ \/ Commit(w, "failed", {}, <<"frame">>)
     \/ ScheduleRetry(w)
     \/ Rest(w) /\ UNCHANGED <<row, log, signals, effect, command, faults>>

-----------------------------------------------------------------------------
(* Time and crashes.                                                        *)

(* A lease whose holder still works on it lapses only when heartbeats stall.*)
Held(e) == \E w \in Workers : worker[w].exec = e /\ Fenced(w)
Lapse(e) ==
  /\ row[e].lease = "live"
  /\ IF Held(e) THEN Fault ELSE UNCHANGED faults
  /\ row' = [row EXCEPT ![e].lease = "lapsed"]
  /\ UNCHANGED <<log, signals, effect, command, worker>>

Due(e) ==
  /\ row[e].delayed
  /\ row' = [row EXCEPT ![e].delayed = FALSE]
  /\ UNCHANGED <<log, signals, effect, command, worker, faults>>

Crash(w) ==
  /\ worker[w].pc # "idle" /\ Fault
  /\ Rest(w)
  /\ UNCHANGED <<row, log, signals, effect, command>>

(* AgentExecutionRuntime.start: reconcile_startup before the workers; every *)
(* expired execution is queued again or blocked.                            *)
Reconcile ==
  /\ \A w \in Workers : worker[w].pc = "idle"
  /\ \E e \in Execs : Expired(e)
  /\ row' = [e \in Execs |->
       IF Expired(e) THEN Released(row[e], IF Uncertain(e) THEN "awaiting_signal" ELSE "queued")
       ELSE row[e]]
  /\ log' = [e \in Execs |->
       IF Expired(e)
       THEN log[e] \o Entries(<<IF Uncertain(e) THEN "recovery_blocked" ELSE "requeued">>)
       ELSE log[e]]
  /\ UNCHANGED <<signals, effect, command, worker, faults>>

-----------------------------------------------------------------------------
Dispatch ==
  \/ \E r \in Requests, s \in Subjects : DispatchStart(r, s)
  \/ \E r \in Requests, e \in Execs :
       DispatchSignal(r, e) \/ DispatchCancel(r, e) \/ DispatchRedrive(r, e)
Drive ==
  \/ \E w \in Workers : ClaimNext(w) \/ ClaimNothing(w) \/ Fetch(w) \/ RunOnce(w)
                        \/ LoseFence(w) \/ Interrupt(w) \/ RequeueClaimed(w) \/ CancelRaises(w)
                        \/ Crash(w)
  \/ \E e \in Execs : Lapse(e) \/ Due(e) \/ \E s \in Effects : RecordToolEffect(e, s)
  \/ Reconcile

Next == Dispatch \/ Drive

(* Workers poll without end; leases nobody works on lapse.                  *)
DriveFairness ==
  /\ WF_vars(\E w \in Workers : ClaimNext(w) \/ ClaimNothing(w))
  /\ \A w \in Workers : WF_vars(Fetch(w)) /\ WF_vars(RunOnce(w) \/ LoseFence(w) \/ RequeueClaimed(w))
  /\ \A e \in Execs : WF_vars(~Held(e) /\ Lapse(e)) /\ WF_vars(Due(e))

Spec     == Init /\ [][Next]_vars
FairSpec == Spec /\ DriveFairness

-----------------------------------------------------------------------------
(* Everything stays in its set; a lease exists exactly while an execution   *)
(* runs.                                                                    *)
TypeOK ==
  /\ \A e \in Execs :
       /\ row[e].status \in {"unused"} \cup Active \cup Terminal
       /\ row[e].subject \in Subjects \cup {Nobody} /\ row[e].owner \in Workers \cup {Nobody}
       /\ row[e].lease \in {"none", "live", "lapsed"}
       /\ (row[e].status = "running") <=> (row[e].lease # "none")
       /\ (row[e].status = "running") <=> (row[e].owner # Nobody)
       /\ signals[e] \subseteq Requests /\ effect[e] \in DOMAIN Transitions
       /\ \A n \in DOMAIN log[e] : /\ log[e][n].type \in EventTypes
                                   /\ log[e][n].state \in {"new", "held", "lapsed", "done"}
  /\ \A w \in Workers : worker[w].pc \in {"idle", "claimed", "looping", "releasing"}
  /\ faults \in 0..MaxFaults

(* Whoever commits had read the checkpoint it replaces: a commit merges     *)
(* into what its driver loaded after the claim, so it must not overwrite    *)
(* that of a driver which took the execution over, or of a zombie.          *)
NoLostUpdate ==
  [][\A e \in Execs : row'[e].checkpoint # row[e].checkpoint
       => \E w \in Workers : /\ worker[w].exec = e /\ worker'[w] # worker[w]
                             /\ worker[w].base = row[e].checkpoint]_vars

(* An execution is over exactly when its last event says so, and no event   *)
(* follows that one: late commits, late signals, a cancel that meets a      *)
(* commit and a recovery leave one terminal event.                          *)
OneEnding ==
  \A e \in Execs : \A n \in DOMAIN log[e] :
    (log[e][n].type \in TerminalTypes) <=> (n = Len(log[e]) /\ row[e].status \in Terminal)

(* A success has heard every signal: one that arrives while the loop        *)
(* concludes puts the execution back instead of being dropped.              *)
SuccessHeardAll == \A e \in Execs : row[e].status = "succeeded" => signals[e] = {}

(* Every execution is the recorded answer of the one request that asked for *)
(* it: a repeated dispatch does not start a second one.                     *)
OneStartPerRequest ==
  \A e \in Execs : row[e].status # "unused"
    => \E r \in Requests : command[r].exec = e /\ command[r].kind \in {"start", "redrive"}

(* An execution whose drive died is not run again on its own while an       *)
(* effect of it is unsettled.                                               *)
BlockedWhileUncertain ==
  [][\A e \in Execs : Expired(e) /\ Uncertain(e) /\ signals[e] = {}
                        => row'[e].status # "running" \/ row'[e] = row[e]]_vars

(* An execution that is queued ends or waits for a signal nobody has sent:  *)
(* crashed, stalled and interrupted drives, delayed retries and deferred    *)
(* results do not leave it behind.                                          *)
Settled(e) == row[e].status \in Terminal \/ (row[e].status = "awaiting_signal" /\ signals[e] = {})
EveryExecutionSettles == \A e \in Execs : (row[e].status = "queued") ~> Settled(e)
=============================================================================
