# Anna Agent: formal models of the durable harness

This directory models the parts of Anna Agent that must stay consistent when
calls interleave and processes crash: the Host's event store and durable run
runtime with the kernels that write through it, the ToolGateway that decides
whether a tool's effect may run, the scheduler, the Session Goal of the Workbench,
and on the Python side the execution store with its workers and outbox and the
Crew board that is projected from it.  The modules are TLA+; TLC checks them on
small instances and TLAPS proves the theorems of the `*Proofs` and `*Refines` modules.
Paths below are relative to the repository.

## 1. Inventory

The product is a desktop application, a TypeScript Host ("harness service")
that owns Runs, and Python services.  The Host is the core: everything it knows
of a Run is an append-only stream of events in SQLite.

| component | state it keeps | operations | interacts through |
|---|---|---|---|
| Event store (`packages/event-store`) | streams, stream heads with a terminal fence, claimed commands, projections, schedule tables | `append`, `appendIdempotent`, `read`, `claimStart`, `commitProjection`, schedule claims | one SQLite transaction per call |
| Durable run runtime (`run-runtime.ts`, `run-manager.ts`) | `inFlight`, `active`, `controllers`, `closing` | `start`, `resume`, `stop`, `settleInterrupted`, `close` | event store, kernel promise |
| Contract Eval wrapper (`harness-service/runtime.ts`, `packages/eval`) | the terminal it keeps back | `start` around the kernel | Run stream |
| Pi and OMP kernels (`packages/pi-loop-kernel`, `omp-loop-kernel`) | sequence, transcript, abort signal | `start`, `steer`, `answer` | Run stream, ToolGateway, worker process |
| ToolGateway and tool effects (`packages/harness-v2`) | effect streams, tool streams, approvals on the Run stream, in-memory in-flight effects | `execute`, `answerApproval` | event store, sandbox |
| Scheduler (`packages/scheduler`) | schedules, occurrences with leases and a `started` fence, notifications | `schedule`, `cancel`, `processDue` | event store, `createRun` |
| Projections, memory events, host ownership | projection revisions; memory receipts; lock row | rebuild/commit; append; acquire/release | event store |
| Workbench facade and session (`harness-service/product-*.ts`, `workbench-*.ts`) | sidecar file with sessions, goals and Run records; a lock per Session | goal routes, supervisor tick, send, stop, continue, approve | run runtime, sidecar |
| Python execution runtime (`services/runtime/app/execution`) | runs with leases and fencing tokens, outbox | dispatch, claim, heartbeat, commit, retry, reconcile | SQLite, driver |
| Crew services (`services/crew`) | projects with `project_version`, projection receipts | assign, start, submit, review, run agent, say | execution store, outbox projector |
| Frame journal and run registry (`services/runtime/app`) | ring of frames per Run, followers | append, backfill, follow | SSE |
| Other Python services (chat, memory, ...), desktop UI | own stores | request/response | HTTP |

What is hard, and what makes each part correct:

* **run runtime**: calls of one Run overlap, the kernel runs for minutes, the
  process may end at any step.  Correct: one attempt at a time; one terminal,
  and the last event; what a completion resolved to is what the store keeps;
  recovery only when asked for; every claimed Run settles.
* **Contract Eval and kernels**: several writers of one stream, each with its
  own idea of the next sequence.  Correct: nothing is stored between what was
  evaluated and `run.completed`; an attempt that takes over does not start the
  Run again; an approval suspends the Run.
* **tool effects**: a crash between an effect and its record.  Correct: an
  effect key executes at most once; an unknown outcome stays unknown; the first
  approval answer decides.
* **scheduler**: two processes, leases that expire, a crash between the trigger
  and the Run.  Correct: at most one Run per occurrence; every notification has
  its trigger; nothing due is lost.
* **projections**: concurrent rebuilds.  Correct: a committed projection is the
  fold of a prefix, and revisions only grow.
* **Python execution store**: stale workers.  Correct: a fenced worker writes
  nothing; an outbox event is delivered at least once and acknowledged once.
* **Crew**: members, agents and the projector write one board.  Correct: no
  update is lost, work does not pass its gate, an artifact appears once, and a
  message to a working agent is heard.
* **workbench**: stop, continue and the goal loop.  Correct: Runs start only while
  the goal is active and within its limit, one at a time; an active goal settles.

`PROJECT.json` lists every component, the ones without a model too, and every
hazard at its line.

## 2. Plan

1. `EventLog`, `RunLifecycle`, `RunRuntime`, `RunRuntimeProofs`: done, section 3.
2. `ToolGateway`, `EffectOnce`, `ToolGatewayProofs`, `ToolGatewayRefines`: the
   effect log, gateways of two processes, crashes, approvals: done, section 4.
3. `ExecutionStore`, `ExecutionOutbox`, `ExecutionStoreProofs` (Python): claims, fencing, signals, retries,
   recovery, outbox: done, section 5.
4. `CrewBoard`, `Crew`, `CrewProofs`: the board on top of 3: done, section 6.
5. `Scheduler`: two instances, leases, the started fence, skips, notifications:
   done, section 7.
6. `Workbench`, `WorkbenchProofs`: the goal loop of a Session: done, section 8.
7. Left: the frame journal; projections of the event store; memory receipts; the
   OMP restore protocol; the product-mode Crew worker.

Every safety property and both refinements that the passing runs check are theorems.
Only model-checked are the liveness properties (`EveryRunSettles`, `CloseDrains`, `CallsEnd`,
`EveryExecutionSettles`, `ClaimedStarts`, `GoalSettles`), which are out of the prover's reach.

## 3. The core

### Modules

| module | models |
|---|---|
| `EventLog` | a Run stream as a sequence: the sequence check and terminal fence of `append`, `RunManager.get` as `Status`, the approval queries |
| `RunLifecycle` | the abstract specification: what a client of `RunManager.get` may see a Run do |
| `RunRuntime` | the Host process: `DurableRunRuntime`, `withContractEval`, the kernels' appends, the ToolGateway's approval events, crashes |
| `RunRuntimeProofs` | the theorems |
| `MCRunRuntime` | constants for TLC: one Run, symmetry of call slots |

**State.** `claimed` and `log` are the store and survive a crash.  `begin[r][s]`
is a call in `begin()` (the `inFlight` map), `drive[r][s]` a kernel attempt and
its drive (`active` and its controller); a slot `s` is one call, so that two
attempts of one Run *can* be represented and `SingleDrive` says something.
`settle` and `approver` are the calls in progress of `settleInterrupted` and
`answerApproval`; `closing` is the flag; `result[r]` is what the last completion
resolved to.

**Steps.** A step is one EventStore call and the synchronous code that consumes
its answer.  `begin()` is `Begin` (claim), `BeginReturn`/`BeginProceed`
(`current`), `BeginEnsure`, `BeginEnqueue`, `BeginLaunch`.  An attempt is
`KernelOpen` (history), `KernelStarted`, `KernelContext`*, `KernelPrepare`,
`KernelResumed`, then `KernelWork`, `KernelTool`/`GatewayDecide`/`GatewayAsk`/
`KernelToolEnd`, and `KernelFinish`, which an OMP attempt also reaches from inside a
Tool call (`EndPCs`: its budget or an abort); `KernelSync` is the OMP kernel's read of the
sequence.  The wrapper is `WrapperRead`, `WrapperEval`, `WrapperTerminal`;
`drive()` is `DriveRead`, `DriveAppend`, `DriveCatch`, `DriveFail`.  Every append
is offered at the sequence its code holds and has two outcomes, stored or
conflict, as in `SqliteEventStore.append`.

**Configurations.** `Kernel`, `Gateway`, `ContractEval` and `SettlePolicy` select
what a composition of the Host uses.  The product is OMP with Contract Eval and
settlement at boot before the server listens; the interfaces allow the others
and tests use them.

**Bounds.** `MaxLog` (a kernel that finds this many events stops working; other
writers may exceed it), `MaxBegins`, `MaxCrashes`, `MaxAnswers`, `MaxSettles`
bound calls.  Two call slots are enough for two overlapping calls (`runtime_resume`); one crash
gives a second process; a third attempt is reached with `MaxBegins = 3`.  One Run
is enough: no step reads another Run's state, except that `start` asks for the claim of its `Parent`.
Because calls are bounded the system may stop, so deadlock is not checked.

### Runs

| run | configuration | states | shows |
|---|---|---|---|
| `runtime_product` | OMP, Contract Eval, settle at boot, durable approvals, a crash, fairness | 223k | type invariant; one terminal, last; completed means evaluated; settlement spares live Runs; every claimed Run settles; `close()` drains |
| `runtime_resume` | Pi on a durable gateway, no settlement, a crash, racing calls, an answer | 277k | one drive; `run.started` once; recovery is explicit; `close()` aborts; results are durable; refinement of `RunLifecycle` |
| `runtime_approval` | Pi on a durable gateway | violation | finding 1 |
| `runtime_suspended` | an answered suspension and a restart | violation | finding 2 |

**Fairness** (`FairSpec`): a continuation that is ready runs in the end
(`BeginStep`, `SettleStep`, `AnswerAppend`), and an attempt does not stay for ever
in model and tool calls (`KernelStep \/ DriveStep`: both have deadlines in the
kernels).  Callers and crashes owe nothing.  With settlement at boot the next
boot is part of `SettleStep`.

### Findings

1. `runtime_approval`: the Pi kernel keeps its own sequence
   (`pi-loop-kernel.ts:1026-1035`); the approval request the ToolGateway stores on
   the same stream makes its next append conflict, and the Run fails where the
   handoff document promises `awaiting_approval`.
2. `runtime_suspended`: `settleInterrupted` looks at the last event only
   (`run-runtime.ts:140-141`), so a suspended Run whose approval was answered is
   failed at the next boot, although the comment above it says suspended Runs are
   left untouched.

Limits seen while modelling: `SettleSparesActive` and `ResultIsDurable` do not
hold when `settleInterrupted` may be called at any time (the check and the append
are two calls, and finding 2 applies).  The product settles before it serves, so
both are stated, checked and proved for `SettlePolicy # "anytime"`; everything else
that is proved holds for any moment.  When both the outcome's append and the append
of `run.failed` conflict, the completion rejects and the Run waits for the next
boot; `EveryRunSettles` names that exception.  An OMP attempt does not take up a
history without a transcript (`omp-loop-kernel.ts:1419-1446`): one that was aborted
below Contract Eval can leave a verdict on a stream that is still queued, and the
attempt after it is refused.

### Proofs

`RunRuntimeProofs` proves, for every number of Runs and slots and every bound, every
safety property of the runs and the refinement:

* `TypeCorrect`: `Spec => []TypeOK`.
* `TerminalIsLast`: `Spec => []FinalIsLast`.  Every stored event goes through
  `Accepts`, which refuses a log with a terminal; the lemma on `Accepts` and
  `Append` is proved once and each action cites it.
* `OneDrivePerRun`: `Spec => []SingleDrive`, by `SingleInv`: at most one call of a Run
  is in `begin()`, and none past `manager.get` coexists with a drive.  `SingleDrive`
  alone is not inductive: a call past its look at `active` could launch next to a
  drive.
* `StartIsStoredOnce` and `CompletionIsEvaluated`, by `KnowsInv`: what an attempt knows
  of its stream.  One that is about to store `run.started` found no such event below
  the sequence it holds, one past it knows there is one, and one that is about to
  complete read the verdict just below its sequence.  The store accepts an append
  only at the end, so each of these still holds when the append succeeds; a write of
  somebody else in between turns it into a conflict.  `KnowsKept` shows that events of
  others leave all of it true.
* `CloseAbortsAttempts`: `Spec => []ClosingAborts`, by `AllAborted`: `close()` reaches the
  attempts that run and the calls in `begin()`.
* `OnlyResumeRecovers`: `Spec => []ExplicitRecovery`, by `RecoveryInv`: a call of
  `start()` past its look at the Run holds a fresh stream, because nobody else can
  write to a queued Run (`SingleInv`), so that its attempt has nothing to restore.
* `SettlementSparesAttempts` and `ResultsAreDurable`, for a Host that settles at boot or
  never, by `BootInv` (nothing is begun, driven or resolved while it settles) and
  `ResultInv` (what a completion resolved to is the status of a Run that nobody
  drives).
* `RuntimeImplementsLifecycle`: `Spec => ImplementsLifecycle`, by `LifecycleInv`: a Run
  that is not claimed is untouched (`ClaimedInv`), and a step that stores an event
  moves the status as the lifecycle allows.

`StepWrites` and `StreamStep` say once who may store which event; `DriveChanges` and
`BeginChanges` what may happen to one attempt and to one call.  The steps of the
invariants rest on those four instead of on the actions.  Only model-checked: the
liveness properties `EveryRunSettles` and `CloseDrains`, which are out of the
prover's reach.

### Abstractions

Event payloads, model turns, token budgets, memory contents and schema
validation are left out; `progress`, `transcript`, `context` and `tool` events stand
for what the kernels store.  A Run requests at most one approval.
`run.awaiting_input` is emitted by no kernel and is not told apart from
`run.awaiting_approval`.  A store read is atomic with the code that consumes it.
Every caller of a Run passes the same command, as `claimStart` enforces.

## 4. The ToolGateway

`createToolGateway` (`packages/harness-v2/src/tool-gateway.ts`) runs a tool through
a policy, an approval on the Run stream and an effect ledger: one stream
`effect:<key>` per effect key, which holds `tool.effect.started` and then one
terminal (`succeeded`, `failed`, `unknown`, `cancelled`).

### Modules

| module | models |
|---|---|
| `EffectOnce` | the abstract specification: an effect is opened, performed at most once, settled once, and only the settled result is told |
| `ToolGateway` | `execute()`, `executeEffect` with its in-flight map, `executeDurableEffect`, approval requests and answers, the caller's signal, the end of a process |
| `ToolGatewayProofs` | typing, at-most-once, agreement of callers, conflicts, approvals |
| `ToolGatewayRefines` | `ToolGateway` implements `EffectOnce` |
| `MCToolGateway` | constants for TLC: tools, replay policies, symmetry of calls |

**State.** `effects[k]` and `runlog` are streams and survive a crash.  `calls[c]`
is one `execute()`: where it awaits (`pc`), its scoped store (`seam`), effect key,
intent, signal, how it came to run (`via`), the sequence it appends at (`len`) and
the result.  `answers[a]` is one `answerApproval()`.  `ledgered` and `direct` count
sandbox executions of a key, with and without the ledger; the code has no such
counter.

**Steps.** `Request` (validation), `PolicyDecide`, `ApprovalRead`, `ApprovalAsk`,
`DirectRun`; in the ledger `EffectRead`, `EffectStart`, `EffectRun`, `EffectReturn`,
`EffectSettle` or, for an orphaned start, `EffectUnknown`; then `Tell`.  A call whose
intent is being executed on its seam is `joined` and gets whatever that execution
gives, a rejection too.  Each append has its two outcomes, stored or conflict.

**What the model brings out.**  Executions are shared per scoped store object
(`inFlightEffectsByEvents`), so gateways on different stores meet only in the
stream.  There a second one cannot tell a live execution from an orphan: it
records `unknown`, and the execution's own terminal then conflicts and rejects its
call.  The effect still ran once and nobody was told anything but `unknown`.  A
cancellation keeps the sandbox's result, so a later reader gets that result.
Approvals match key and tool and not the input; nothing refuses a second answer,
and the first one decides.  The signal of the call that leads decides for those
that joined it.

**Bounds.** Calls, seams, keys, intents and approvers are the finite sets of the
cfgs; `MaxOther` bounds the kernel's own events on the Run stream and
`MaxCrashes` the processes that end.  In `gateway_seams` three calls are a leader, one that joins or
conflicts and one that comes later; two seams are two gateways that share
nothing; effect streams never hold more than two events.  All calls may have
ended, so deadlock is not checked.

### Runs

| run | configuration | states | shows |
|---|---|---|---|
| `gateway_seams` | three calls of one effect, two seams, fairness | 510k | type invariant; the sandbox runs a key once; callers agree; a conflict comes from another seam; refinement of `EffectOnce`; every call ends |
| `gateway_approval` | all decisions, two tools on one key, requests without a key, two seams, two approvers, a crash | 3.2M | a key runs once whatever the policy says; no effect without approval, and the first answer decides |

Calls are symmetric in the runs without a liveness property: no definition
tells one from another.

**Fairness**: each call's next step is weakly fair, since awaited promises
settle: the store works synchronously, and of the policy and the sandbox the
Host plugs in it is assumed.  `CallsEnd` then says that nobody waits for an
execution that ended.

### A limit

The ledger guards tools with a replay policy.  After one approval, every call of a
tool whose `replayPolicy` is undefined reaches the sandbox (`tool-gateway.ts:194-201`),
where the plan says "duplicate effect key executes once".  `AtMostOnce` speaks of
ledgered executions; the hazard is listed without a property.

### Proofs

For every set of calls, seams, keys, intents, tools, approvers and every bound:

* `GatewayTypeCorrect`: `Spec => []TypeOK`;
* `EffectRunsOnce`: `Spec => []AtMostOnce`;
* `CallersAgree`: `Spec => []OneTruth`;
* `GatewayKeepsPromise`: `Spec => ImplementsEffectOnce`, the refinement.

They share one inductive invariant, `Core`.  `AtMostOnce` alone says nothing of a
call about to run the sandbox.  `Core` says of each call that it *fits* the ledger
(`Fits`): a call that will append a start holds sequence 0, one past its start
holds 1 and its stream is not empty, the sandbox has not run before `EffectRun`
and has run after it, and a result to be told is the recorded one.
`OneExecutor` adds that at most one call per key is between its start and its
terminal, and that a terminal stored under it by someone else is `unknown`;
`JoinedOK` that a call shares an execution of its own key.  `StreamShape` turns the
ledger queries into facts on the length of a stream; `LocalStep`, `OthersFit`,
`LedgerGrows` and `SettleStep` are the four ways a step can disturb `Core`, and
each action cites them.  The refinement needs `Core` before and after a step and
shows that `EffectStart` opens, `EffectRun` performs, `EffectSettle` and
`EffectUnknown` settle, `Tell` tells, and all else stutters.  The constants are only
assumed to have the types of `ConstantsAssumption` (a seam and an intent exist).

* `ConflictsAreForeign`: `Spec => []ConflictIsForeign`.  `ConflictInv` says that a seam
  and intent have one execution per key, that a joined call shares it, and that an
  execution whose key nobody else used finds the stream as long as it left it.  A
  call conflicts only with a stream that grew, so somebody else used the key.
* `ApprovalComesFirst`: `Spec => []ApprovedFirst`.  The Run stream only grows, the first
  answer of a stream is the first answer of every longer one (`FirstAnswer`), and
  `approvalFor` decides by that one.

Only model-checked: `CallsEnd` (liveness).

### Abstractions

One gateway call per `toolCallId`, so that the `tool:` stream of a call has one
writer.  An intent stands for everything `matchesEffectIntent` compares, the Run
attribution included.  The in-flight entry goes with the promise's settlement, not
one microtask later.  A direct sandbox call is one step: a crash in the middle of
it is a crash after it.

## 5. The execution store and its outbox

`services/runtime/app/execution` runs agents of the Python services: `dispatch()`
stores commands, workers claim executions under a lease and a fencing token, a
loop adapter works on them, and every change is an event with an outbox row that
projectors drain.

### Modules

| module | models |
|---|---|
| `ExecutionStore` | `SQLiteExecutionStore` (commands, claims, commits, retries, recovery), `ExecutionDriver.run_once` and its heartbeat, `AgentExecutionRuntime`'s start and stop |
| `ExecutionOutbox` | `claim_outbox_events`, the projection with its receipt, `ack_outbox_events`; it adds state to `ExecutionStore` and is composed with it by `Crew` |
| `MCExecutionStore` | the module TLC runs |
| `ExecutionStoreProofs` | theorems about `ExecutionStore` |
| `NatMin` | the smallest and the largest element of a set of naturals exist: the facts that the proofs of sections 3 to 8 share |

**State.** `row`, `log`, `signals`, `effect` and `command` are the tables; an outbox row
is kept with its event.  `worker[w]` is one driver: the claim it holds, the signals
and checkpoint it read.  `proj` and `applied` are the batches of projectors and the
receipts they stored.

**Steps.** One store transaction is one step.  `DispatchStart`, `DispatchSignal`,
`DispatchCancel`, `DispatchRedrive`; `ClaimNext` (which also blocks the expired
executions it passes), `ClaimNothing`; `Fetch`; `RunOnce` with `Commit` or
`ScheduleRetry`, `LoseFence` for a `FencingError`; `Interrupt` and `RequeueClaimed` for a
drive that is cancelled, `CancelRaises` when its adapter raises meanwhile; `RecordToolEffect`; `Reconcile` at start-up.  Time is what
the store compares it with: `Lapse` ends a lease, `Due` a retry delay.  A lease whose
holder is at work lapses only as a fault (its heartbeat stalls).

**Bounds.** Two executions on two subjects, two requests and two workers are what a
take-over and a queue order need; `MaxQueue = 1` makes the queue full with the
second.  One fault is one zombie.  From claim `MaxClaims` on the adapter answers and
ends, so that attempts are bounded.  Executions may all be over: deadlock is not
checked.

### Run

| run | states | shows |
|---|---|---|
| `execution` | 317k | a commit replaces the checkpoint its driver had read; one terminal event, and the last; a success has heard all signals; one execution per request; an unsettled effect blocks an automatic retry; every queued execution settles |

**Fairness.** The workers of `AgentExecutionRuntime` poll without end, so the claim is
weakly fair for the workers together, and each driver's next store call for itself;
a lease nobody renews lapses and a delay passes because time does.  Callers,
effects, interrupts and crashes owe nothing.

**What the model brings out.** `DispatchCancel` is not fenced: it takes the lease
away, and the driver learns of it at its next store call.  An execution blocked for
recovery is claimed again as soon as it has a pending signal, the effect being
still unsettled (`BlockedWhileUncertain` says "on its own").  An adapter that parks
an execution with a signal it did not apply makes it claimable again at once and
would spin; the listed hazard has no property, because `MaxClaims` cuts it off.

### Proofs

`ExecutionStoreProofs` shows, for any constants that satisfy `StoreAssumption` (the
bounds are naturals, the effect statuses are statuses, and no worker is called
`Nobody`), every safety property of the run: `StoreTypeCorrect`, `EndsOnce`,
`SuccessHearsAll`, `RequestsStartOnce`, and the action properties `CommitsAreFenced`
and `UncertainStaysBlocked`.

The inductive invariant `IInv` is four parts that are themselves properties (types
with the status, owner and lease of a row in step; one ending; no unheard signal;
one request per execution) and `BaseRead`: a driver that has fetched and is still
the owner in the row has the checkpoint of the row.  `BaseRead` is what fencing
gives, and `NoLostUpdate` does not follow without it: a row changes its checkpoint
only by its owner's commit, which ends the claim, and a claim by anyone makes
that one the owner before it reads.  It is proved from the owner column alone: the
token matters when one worker claims the same execution twice, and then the
driver has forgotten the first claim.

The argument is one for all actions.  `Tables(w)` says what a step with actor `w` may
do to rows and events: new events follow only an execution that was not over, and
only the last of them may be terminal (`Ends`), and a row that keeps an owner other
than `w` keeps its checkpoint.  `EndingKept` derives `OneEnding` from it; `WorkerStep` and
`WorkersStill` derive `BaseRead`.  `QuietStep` (no command, no conclusion),
`DispatchStep` (a command) and `GivesBack` (a driver lets go) conclude; `Commit` is the
one action that needs all parts.  One lemma per action shows `Tables`, and `StepOK`
puts them together.

Only model-checked: `EveryExecutionSettles` (liveness).  The outbox is proved about where it is
composed with its projection: `AppliedInOrder` of section 6.

### Abstractions

One workspace; request payloads are the target of a request; frames and artifacts
are event types.  One effect key per execution.  `QueuedCount` counts delayed
executions too, as the query does.

## 6. Crew

`services/crew` keeps a project as one document with a `project_version`.  Members
change it by load, change, save; agents work on its tasks as executions of section 5,
and `CrewExecutionProjector` applies their events to the board.

### Modules

| module | models |
|---|---|
| `CrewBoard` | `lifecycle.py` and `mutate_project_for_execution_event` as pure operators on a board |
| `Crew` | composes `ExecutionOutbox` and `CrewBoard`: `CrewService` operations, the dispatch of agents, `QueryEngineLoopAdapter` as the loop of the drivers, `project_event` as the projection |
| `MCCrew` | constants: a task, its review gate, a task behind the gate |
| `CrewProofs` | theorems about `Crew`, its board and its outbox |

**State.** `board` and `version` are the stored project; `op[h]` is the operation of a
member between its load and its last dispatch, with its copy; `mode[w]` is what the
adapter found when it began; `asked[e]` is the question in the checkpoint, `letters` the messages that met an active
execution, with the signal chosen for them.  `basis[e]`
records which signals the stored result was made from; the code keeps no such set.

**Steps.** `Assign`, `Start`, `Submit`, `Review` load and change a copy; `Save` compares
versions; `Autorun` dispatches the agents of tasks that became runnable.  `RunAgent`
and `Say` dispatch directly.  For a message that meets an active execution `Say` reads
whether it is an answer (the execution waits for one) or a steer, and `Signal` sends it
in a transaction of its own: the execution may have moved on, and a message to one that
has ended is dropped, as the route does.  `AdapterBegin` reads
the board and `AdapterReturn` concludes by what was read then, through `Commit` of
the store.  `ProjectEvent` is the receipt and the board change in one transaction; the version also
moves when the event changes fields of the task the board leaves out (`run_started_at`, the
text of a blocker: `Changes`, `MayChange`);
`ProjectRefused` is an event the lifecycle raises on.

**Bounds.** One execution, worker, projector and member with six versions: enough for a
submit, a review that reopens the task, and the agent's work in between; the save of
a stale copy needs one member and one projection.  One fault is a crash of a worker
or projector, a lapsed claim or a failed projection.  `MaxVersion` bounds
writes, so the system may stop.  Retries and tool effects are left to `execution`.

### Runs

| run | states | shows |
|---|---|---|
| `crew` | 2.1M | the board stays a board; work does not pass its gate; an artifact is on the board exactly when its event was projected, once; events are applied in order, each once; no step takes history away |
| `crew_steer` | violation | finding 3 |

### Finding

3. `crew_steer`: a message that arrives while the agent concludes defers the result
   (`commit_loop_result`), and in the same transaction the signals that result had
   applied are acknowledged (`store.py:447-450`).  The result and its checkpoint are
   dropped, so the next attempt is given the late message only.  The Crew plan
   accepts the phase by "what is added during a run is not silently lost"
   (`2026-08-16-crew-buzz-rebuild-plan.md:59`).

**What the model brings out.** An artifact event of a task a member submitted
meanwhile is refused for ever: it stays at the head of its execution's outbox and the
events behind it wait.  In product mode `run_agent` holds its copy for the whole Host
Run (`service.py:767`) and loses the artifact to any change in between; that path is not
modelled.  Both are listed as hazards without a property.

### Proofs

`CrewProofs` proves, for any tasks, dependencies, gates, members, messages, workers and
projectors and any number of faults, every safety property of `crew`:

* `BoardStaysBoard`: `CrewSpec => []BoardOK`;
* `WorkPassesItsGate`: `CrewSpec => []GatesHold`;
* `ArtifactsOnce`: `CrewSpec => []ArtifactOnce`;
* `AppliedInOrder`: `CrewSpec => []ProjectedInOrder`;
* `HistoryIsKept`: `CrewSpec => HistoryKept`.

None of them is inductive: the board is written from copies that members loaded before
and from events that projectors hold.  `CrewInv` adds, in five parts,

* `StoreOK`: an execution that was started is about a task, never about a gate (a gate
  has no assignee, so nobody dispatches one);
* `OutboxOK`: the receipts of an execution are a prefix of its events, a projector holds the
  next event at most and acknowledges only what has its receipt.  `claim_outbox_events` hands
  out the first undelivered event, and all before it were applied;
* `BoardInv`: the board is a board and `Gated`;
* `CopiesOK`: a copy whose version is current was made from the board as it is.  This is what
  `save_project` relies on; every projection that changes the board moves the version, so
  a copy made before it is refused;
* `ArtifactInv`: `ArtifactOnce` over the prefix of `OutboxOK`.

The argument about gates is one for all operations.  `Moves(b, c)` says how tasks may go
from board `b` to board `c`: a task stays, goes back to waiting, goes ahead once all it
depends on is done, or is finished together with its gate; a finished one stays.  `GatedKept`
derives `Gated` and the second half of `HistoryKept` from it, and each operator of
`CrewBoard` has a lemma that it `Moves` the board (`AssignedServed`, `StartedServed`,
`SubmittedServed`, `ReviewServed`, `ProjectedMoves`).  In the same way `StoreMoves` covers
every step of the kernel (`StoreStep`), `SameEvents` every step of the outbox that applies
nothing (`OutboxStep`), and `AppliedFirst` is the one step that writes a receipt and the board
together.

The assumptions are those of the constants: `StoreAssumption`, `CrewAssumption` and
`BoardAssumption` (gates are tasks and review tasks that are not gates, and `NoMember` is
no member).  The proofs use neither that there is one agent nor that a task has one gate.
`SteersKept` is finding 3 and does not hold; the run states no liveness.

### Abstractions

Titles, comments, audit entries, channel rows, notifications and AI decomposition are
left out.  There is one agent, so the worker profile of an execution is the
assignee's.  Cancels, retries and redrives of an execution are not offered to the
Crew run; no route of the Crew dispatches them.

## 7. The scheduler

`packages/scheduler` on the schedule tables of the event store.  `Scheduler` models
`schedule()`, `cancel()`, `tick()` and `recover()`; the last two are `processDue`.

**State.** `schedule`, `catchUp`, `occurrence`, `lease`, `notified` and `events` are tables
and survive; `processing[v]` is the in-memory set of an instance, `call[c]` a call of
`processDue` with the list it read when it began and the time it read.  `runs` counts
calls of `createRun`; the code has no such counter.

**Steps.** `Begin` (list), then per schedule `Skip`/`TellSkipped` or `Claim`, `Lease`,
`Start` (the `started` fence), `Create` (`createRun`), `Renew` (the timer), `Created`, `Notify`,
`TellNotified`; `NextSchedule` goes on with the list, an exception ends the call.  `Age`
makes a lease old; that its holder is at work makes it a fault.  A crashed instance
comes back under another owner id, so its leases belong to nobody.

**Bounds.** Two instances with a call each are enough for every race of two writers
of an occurrence; one recurring schedule with two occurrences (`MaxTime = 1`) gives a
superseded one; one fault is a lost lease, a `StartRun` that
is refused, a failed `createRun` or a crash.  The clock
stops, so deadlock is not checked.

| run | states | shows |
|---|---|---|
| `scheduler` | 105k | one Run per occurrence and none for a skipped one, a notification only with a Run, once; decisions are final; after a cancellation nothing is taken up; a claimed occurrence is started in the end |

**Fairness.** A call that has begun goes on, a lease that nobody uses ages.  `recover()` is
not called by a timer in this package: `ClaimedStarts` assumes its host calls it again
and again (`SF` of `Begin(c, TRUE)`: between two calls it is not enabled).

**What the model brings out.** Between `started` and the notification nothing is
retried: when `createRun` fails or the process ends behind the fence, the occurrence
has no Run or no notification and never gets one.  That is the price of at most once;
`ClaimedStarts` therefore ends at `started`.

**Abstractions.** Policy and trigger checks, the events of `schedule()` and `cancel()`, and
the arithmetic of lease times.  `LatestDueAt` is the code's formula.

**Proofs.** `SchedulerProofs` proves, for any schedules, due times, intervals,
instances and calls and any number of faults:

* `OneRunPerOccurrence`: `Spec => []RunsOnce`;
* `DecisionsAreFinal`: `Spec => DecidedOnce`;
* `CancellationHolds`: `Spec => CancelledNotClaimed`.

`RunsOnce` is not inductive: it says nothing of a call that is about to notify.  `IInv`
adds that a call past its list is at a schedule that was due when it began (so that
its occurrence exists: `LatestDueInTime`), that a call behind the fence is at a started
occurrence and one that tells of a skip at a skipped one, that at most one call per
occurrence is behind the fence (`Alone`), and that `runs` is nought while that call
leaves the fence and one when it is further on (`Counted`).  `TableStep` is what any step may do to the table; `CallStep` shows
that one call's progress under it keeps the rest, `SilentStep` serves the actions that
tell nobody, and each action has its lemma.  The assumption is `SchedulerAssumption`:
the types of the constants.  Only model-checked: `ClaimedStarts` (liveness).

## 8. The Workbench goal

`apps/harness-service/src/product-facade.ts` and `workbench-goal.ts` let a Session pursue a
goal over several Runs.  `Workbench` models the supervisor's timer, the goal routes,
`submitGoalRun` with its admission, and the Runs that end beside it.

**State.** `goal` is `session.goal`; `run[k]` the Run record of index `k` with its admission,
its durable command, its drive and the terminal events of its log; `op[c]` is what a
caller does inside `withGoalLock`; `booted` says the Host serves.

**Steps.** `Tick`/`Patch` (`advanceGoal`, `decideGoal`), `Create`, `Refer`, `Admit`, `Mark`
(`submitGoalRun`), `CreateGoal`, `Pause`, `Complete`, `Stop`/`StopLatest`, `Resume`/`Resumed`
(the routes); `RunEnds`, `StopRun`, `ContinueRun` happen outside the lock; `Crash` and
`Boot` (`settleInterruptedWorkbenchRuns`).

**Bounds.** Two goals, so that a new one follows a stopped one; two Runs per goal, so
that the limit is met; one resume, which may raise or lower the limit; one crash.
Endings are the three that lead to different decisions: an open plan, an answer
without a plan, a question.  One user: the lock is the point, and a second user could
only wait for it.

| run | states | shows |
|---|---|---|
| `workbench` | 481k | type invariant; a Run starts only for the current, active goal within its limit; two Runs of a goal's own are never in progress together; an active goal settles |
| `workbench_crash` | violation | finding 4 |

**Fairness.** Awaited promises settle (`Working`), the supervisor's interval fires
(`Tick`), Runs end (`EveryRunSettles` of section 3), and a Host that crashed is started
again (`Boot`).

**Finding 4** (`workbench_crash`): `submitGoalRun` stores the Run and the goal's reference to
it before it admits the Run.  A crash in between leaves a Run that is `pending` and has
no command: settlement does not see it, `decideGoal` waits at every tick and resume
returns because the latest Run has not ended.  The comment at `product-facade.ts:1082`
says "so a crash cannot orphan it".  `GoalSettles` is therefore stated for a Host that
does not crash.

**What the model brings out.** `goalEvidence` takes the first terminal event, so a Run that
asked for input and was continued counts as ended while it works; a resumed goal
starts the next Run beside it.  `OneLiveRun` names that exception, and the hazard is
listed without a property.

**Abstractions.** Writes of the sidecar file succeed.  A plan is what `planProgress` tells
apart.  Files, artifacts, authorisation and the transcript view are left out.

**Proofs.** `WorkbenchProofs` proves, for any goals, users, limits and number of crashes:

* `GoalStaysInBudget`: `Spec => []TypeOK`, by which a goal never names more Runs than its
  limit, although resume may change the limit;
* `RunsFollowEachOther`: `Spec => []OneLiveRun`;
* `OnlyActiveGoalsStart`: `Spec => StartsAreAuthorised`.

`OneLiveRun` says nothing of a caller that is about to start a Run.  `GoalInv` adds that
the lock has one holder (`OneHolder`), that only the latest Run can be in progress, and
not once the goal was settled because of it (`LatestOnly`), and what the holder knows at
each of its steps (`Holds`): while it is about to start a Run the goal is active, no Run
is in progress, the one it creates is the next and within the limit.  Runs end and are stopped beside the
holder, so each part is about what an ending cannot undo.  The assumption is
`WorkbenchAssumption`: the types of the constants.  Only model-checked:
`GoalSettles` (liveness).

## 9. Not modelled

* **Frame journal and run registry**: a ring of frames per Run with ordered
  write-through, backfill and followers; the next module of the plan.
* **Projections of the event store**: each commit is checked against the version it
  read and stored with a receipt; nothing in the product runs two on one projection.
* **Host ownership**: one exclusive SQLite transaction for the life of the Host.  The
  models rely on it: one Host process per store, except where several are modelled
  (sections 4 and 7).
* **Memory**: receipts and a fold over idempotent appends; no concurrency of its own.
* **OMP worker protocol and restore**: digests and checkpoints of a child process;
  section 3 models what the adapter appends.
* **Worktree sandbox, validated patch workflow**: git, file trees, child processes.
* **Production wiring, HTTP, files, MCP and web tools, trace**: composition, request
  handling, I/O and display around the modelled parts.
* **Other agents and services, desktop, scripts**: prompting, CRUD, user interface and
  tooling.
