----------------------------- MODULE RunRuntime -----------------------------
(***************************************************************************)
(* The durable run runtime of one Host process: DurableRunRuntime (start,   *)
(* resume, stop, settleInterrupted, close), the Contract Eval wrapper       *)
(* around the LoopKernel, the kernel's own appends to the Run stream, the   *)
(* ToolGateway's approval events on that stream, and crashes of the Host.   *)
(*                                                                          *)
(* Atomicity.  The Host is single-threaded and every EventStore method is   *)
(* one transaction, so a step is one EventStore call and the code that uses *)
(* its answer, up to the next call.  EventStore is an asynchronous          *)
(* interface, so steps of anything else come between two calls.             *)
(***************************************************************************)
EXTENDS EventLog

CONSTANTS
  Runs,          \* run ids; each is claimed by one command
  Parent,        \* Parent[r]: the Run whose claim start(r) requires, or r
  Slots,         \* start/resume calls of one Run a process could be serving
  Kernel,        \* "pi": keeps its own sequence; "omp": reads it before each append
  Gateway,       \* "durable": approvals are events of the Run stream; "silent"
  ContractEval,  \* the kernel is wrapped by withContractEval
  SettlePolicy,  \* when settleInterrupted is called: "boot", "never", "anytime"
  MaxLog,        \* bound: a kernel that found this many events stops working
  MaxBegins, MaxCrashes, MaxAnswers, MaxSettles   \* bounds on calls

ASSUME ConstantsAssumption ==
  /\ Runs # {}
  /\ Parent \in [Runs -> Runs]
  /\ Kernel \in {"pi", "omp"}
  /\ Gateway \in {"durable", "silent"}
  /\ ContractEval \in BOOLEAN
  /\ SettlePolicy \in {"boot", "never", "anytime"}
  /\ {MaxLog, MaxBegins, MaxCrashes, MaxAnswers, MaxSettles} \subseteq Nat

VARIABLES
  claimed,    \* commands: the Runs whose StartRun command is stored
  log,        \* events: the stored stream of each Run
  begin,      \* inFlight: each call's progress through begin()
  drive,      \* active: the drive a call led to, with its kernel attempt
  settle,     \* the settleInterrupted() call in progress
  approver,   \* the answerApproval() call in progress for each Run
  closing,    \* DurableRunRuntime.closing
  result,     \* what the last completion of each Run resolved to
  used        \* counts of calls, for the bounds

vars   == <<claimed, log, begin, drive, settle, approver, closing, result, used>>

-----------------------------------------------------------------------------
Outcomes == FinalTypes \cup SuspendTypes

BeginPCs  == {"idle", "get", "ensure", "enqueue", "launch"}
KernelPCs == {"kopen", "kstart", "kprep", "kresume", "kagent", "kgate", "kask", "ktool"}
DrivePCs  == KernelPCs \cup {"wread", "weval", "wterm", "dread", "dappend", "dcatch", "dfail"}

IdleBegin == [pc |-> "idle", mode |-> "start", aborted |-> FALSE]
IdleDrive == [pc |-> "idle", mode |-> "start", aborted |-> FALSE,
              kseq |-> 0, synced |-> FALSE, restored |-> FALSE, awaiting |-> FALSE,
              threw |-> FALSE, outcome |-> "none", len |-> 0]
IdleApprover == [pc |-> "idle", decision |-> "approved", len |-> 0]
NewSettle == [pc |-> IF SettlePolicy = "boot" THEN "boot" ELSE "done",
              todo |-> {}, run |-> CHOOSE r \in Runs : TRUE, len |-> 0]

InFlight(r) == \E s \in Slots : begin[r][s].pc # "idle"
Active(r)   == \E s \in Slots : drive[r][s].pc # "idle"

(* createProductFacade awaits settleInterrupted before the server listens.  *)
ServingAtOnce == TRUE                          \* a fault: boot does not wait
Serving == SettlePolicy = "boot" => settle.pc = "done"

Store(r, type, by)   == log' = [log EXCEPT ![r] = Append(@, [type |-> type, by |-> by])]
SetBegin(r, s, b)    == begin' = [begin EXCEPT ![r][s] = b]
SetDrive(r, s, d)    == drive' = [drive EXCEPT ![r][s] = d]
Count(field)         == used' = [used EXCEPT ![field] = @ + 1]

Init ==
  /\ claimed  = {}
  /\ log      = [r \in Runs |-> << >>]
  /\ begin    = [r \in Runs |-> [s \in Slots |-> IdleBegin]]
  /\ drive    = [r \in Runs |-> [s \in Slots |-> IdleDrive]]
  /\ settle   = NewSettle
  /\ approver = [r \in Runs |-> IdleApprover]
  /\ closing  = FALSE
  /\ result   = [r \in Runs |-> "none"]
  /\ used     = [begins |-> 0, crashes |-> 0, answers |-> 0, settles |-> 0]

-----------------------------------------------------------------------------
(* start() and resume(): begin, beginOnce, ensureQueued.  A call while one  *)
(* is in flight returns the same promise, so it changes nothing.            *)

(* begin() up to claimStart.  A parent that is not claimed rejects the call *)
(* before anything is written.                                              *)
Begin(r, s, mode) ==
  /\ Serving /\ ~closing /\ ~InFlight(r)
  /\ begin[r][s].pc = "idle" /\ drive[r][s].pc = "idle"
  /\ used.begins < MaxBegins
  /\ Parent[r] = r \/ Parent[r] \in claimed
  /\ claimed' = claimed \cup {r}
  /\ SetBegin(r, s, [IdleBegin EXCEPT !.pc = "get", !.mode = mode])
  /\ Count("begins")
  /\ UNCHANGED <<log, drive, settle, approver, closing, result>>

(* A settled or active Run is returned as it is; start() of a running Run   *)
(* is RunResumeRequiredError.                                               *)
MustNotDriveIgnoringActive(r, s) ==            \* a fault: no look at active
  \/ Status(log[r]) \in FinalTypes
  \/ begin[r][s].mode = "start" /\ Status(log[r]) \in SuspendTypes \cup {"running"}

MustNotDriveRunning(r, s) ==                   \* a fault: start() also recovers
  Status(log[r]) \in FinalTypes \/ Active(r)

MustNotDrive(r, s) ==
  \/ Status(log[r]) \in FinalTypes
  \/ begin[r][s].mode = "start" /\ Status(log[r]) \in SuspendTypes \cup {"running"}
  \/ Active(r)

(* manager.get: `current`, and what is decided on it.                       *)
BeginReturn(r, s) ==
  /\ begin[r][s].pc = "get"
  /\ MustNotDrive(r, s)
  /\ SetBegin(r, s, IdleBegin)
  /\ UNCHANGED <<claimed, log, drive, settle, approver, closing, result, used>>

BeginProceed(r, s) ==
  /\ begin[r][s].pc = "get"
  /\ ~MustNotDrive(r, s)
  /\ SetBegin(r, s, [begin[r][s] EXCEPT !.pc = "ensure"])
  /\ UNCHANGED <<claimed, log, drive, settle, approver, closing, result, used>>

(* ensureQueued: the Run's first event.                                     *)
BeginEnsure(r, s) ==
  /\ begin[r][s].pc = "ensure"
  /\ SetBegin(r, s, [begin[r][s] EXCEPT
       !.pc = IF log[r] = << >> THEN "enqueue" ELSE "launch"])
  /\ UNCHANGED <<claimed, log, drive, settle, approver, closing, result, used>>

BeginEnqueue(r, s) ==
  /\ begin[r][s].pc = "enqueue"
  /\ \/ /\ Accepts(log[r], 0)
        /\ Store(r, "queued", "runtime")
        /\ SetBegin(r, s, [begin[r][s] EXCEPT !.pc = "launch"])
     \/ /\ ~Accepts(log[r], 0)          \* the conflict rejects start()
        /\ SetBegin(r, s, IdleBegin)
        /\ UNCHANGED log
  /\ UNCHANGED <<claimed, drive, settle, approver, closing, result, used>>

(* manager.get: `queued`; a Run that became terminal meanwhile is an error. *)
(* drive() calls kernel.start and becomes active before anything awaits.    *)
BeginLaunch(r, s) ==
  /\ begin[r][s].pc = "launch"
  /\ SetBegin(r, s, IdleBegin)
  /\ drive' = IF HasFinal(log[r]) THEN drive
              ELSE [drive EXCEPT ![r][s] = [IdleDrive EXCEPT
                      !.pc = "kopen", !.mode = begin[r][s].mode,
                      !.aborted = begin[r][s].aborted]]
  /\ UNCHANGED <<claimed, log, settle, approver, closing, result, used>>

BeginStep(r, s) == BeginReturn(r, s) \/ BeginProceed(r, s) \/ BeginEnsure(r, s)
                   \/ BeginEnqueue(r, s) \/ BeginLaunch(r, s)

-----------------------------------------------------------------------------
(* The kernel.  Whatever it throws reaches the Contract Eval wrapper, or    *)
(* drive()'s catch when there is no wrapper.                                *)
ThrownForgotten(d) ==                          \* a fault: the error is lost
  [d EXCEPT !.pc = IF ContractEval THEN "wread" ELSE "dcatch"]

Thrown(d) == [d EXCEPT !.pc = IF ContractEval THEN "wread" ELSE "dcatch",
                       !.outcome = "failed", !.threw = TRUE]

(* An append at the sequence the kernel holds; a conflict is thrown.  The   *)
(* OMP kernel reads the sequence before each append once it has prepared.   *)
SyncedPCs == {"kresume", "kagent", "ktool"}

KernelAppend(r, s, type, next) ==
  LET k == drive[r][s] IN
  /\ Kernel = "omp" /\ k.pc \in SyncedPCs => k.synced
  /\ \/ /\ Accepts(log[r], k.kseq)
        /\ Store(r, type, "kernel")
        /\ SetDrive(r, s, [k EXCEPT !.pc = next, !.kseq = @ + 1, !.synced = FALSE])
     \/ /\ ~Accepts(log[r], k.kseq)
        /\ UNCHANGED log
        /\ SetDrive(r, s, Thrown(k))

KernelUnchanged == UNCHANGED <<claimed, begin, settle, approver, closing, result, used>>

(* nextSequenceFromSink.                                                    *)
KernelSync(r, s) ==
  /\ Kernel = "omp"
  /\ drive[r][s].pc \in SyncedPCs \cup {"kprep"}
  /\ ~drive[r][s].synced
  /\ SetDrive(r, s, [drive[r][s] EXCEPT !.kseq = Len(log[r]), !.synced = TRUE])
  /\ KernelUnchanged /\ UNCHANGED log

(* Reads the history: a settled Run is refused, and so is an OMP attempt    *)
(* that was cancelled before startup.                                       *)
Refused(r, s) ==
  \/ HasFinal(log[r])
  \/ Kernel = "omp" /\ (drive[r][s].aborted \/ \E t \in SuspendTypes : HasType(log[r], t))

(* The history the attempt takes up: a transcript, for the OMP kernel any   *)
(* event beyond preparation.                                                *)
Preparation == {"queued", "started", "context"}
Restored(r) ==
  \E i \in DOMAIN log[r] :
    log[r][i].type \in (IF Kernel = "omp" THEN EventTypes \ Preparation
                                         ELSE {"transcript", "tool"})

KernelOpenAgain(r, s) ==                       \* a fault: starts unless it restores
  /\ drive[r][s].pc = "kopen"
  /\ SetDrive(r, s,
       IF Refused(r, s) THEN Thrown(drive[r][s])
       ELSE [drive[r][s] EXCEPT !.pc = IF Restored(r) THEN "kprep" ELSE "kstart",
                                !.kseq = Len(log[r]), !.restored = Restored(r)])
  /\ KernelUnchanged /\ UNCHANGED log

KernelOpen(r, s) ==
  /\ drive[r][s].pc = "kopen"
  /\ SetDrive(r, s,
       IF Refused(r, s) THEN Thrown(drive[r][s])
       ELSE [drive[r][s] EXCEPT
               !.pc = IF HasType(log[r], "started") THEN "kprep" ELSE "kstart",
               !.kseq = Len(log[r]), !.restored = Restored(r)])
  /\ KernelUnchanged /\ UNCHANGED log

KernelStarted(r, s) ==
  /\ drive[r][s].pc = "kstart"
  /\ KernelAppend(r, s, "started", "kprep")
  /\ KernelUnchanged

(* Seeds, memory hits and receipts stored while the context is prepared.    *)
KernelContext(r, s) ==
  /\ drive[r][s].pc = "kprep"
  /\ Len(log[r]) < MaxLog
  /\ KernelAppend(r, s, "context", "kprep")
  /\ KernelUnchanged

(* restoreTranscript: the OMP kernel does not take up a history without a   *)
(* transcript.                                                              *)
RestoreFails(r, s) ==
  Kernel = "omp" /\ drive[r][s].restored /\ ~HasType(log[r], "transcript")

(* Context preparation: the Pi kernel reads the history again when the      *)
(* profile reads channel memory; preparation may fail, and the OMP kernel   *)
(* refuses a run.started of another profile (validateStartedFingerprint).   *)
KernelPrepare(r, s) ==
  LET k == drive[r][s] IN
  /\ k.pc = "kprep"
  /\ \/ ~RestoreFails(r, s) /\ \E seq \in {k.kseq, Len(log[r])} :
          /\ seq >= k.kseq
          /\ SetDrive(r, s, [k EXCEPT !.pc = IF k.restored THEN "kresume" ELSE "kagent",
                                      !.kseq = seq])
     \/ SetDrive(r, s, Thrown(k))
  /\ KernelUnchanged /\ UNCHANGED log

KernelResumed(r, s) ==
  /\ drive[r][s].pc = "kresume"
  /\ KernelAppend(r, s, "resumed", "kagent")
  /\ KernelUnchanged

(* Model turns: progress and transcript events.                             *)
KernelWork(r, s) ==
  /\ drive[r][s].pc = "kagent"
  /\ Len(log[r]) < MaxLog
  /\ \E type \in {"progress", "transcript"} : KernelAppend(r, s, type, "kagent")
  /\ KernelUnchanged

KernelTool(r, s) ==
  /\ drive[r][s].pc = "kagent"
  /\ ~drive[r][s].awaiting
  /\ Len(log[r]) < MaxLog
  /\ KernelAppend(r, s, "tool", "kgate")
  /\ KernelUnchanged

(* ToolGateway.execute.  approval_required makes the Pi kernel stop the     *)
(* batch; for the OMP kernel it is one more failed Tool result.             *)
ApprovalRequired(k) == [k EXCEPT !.pc = "ktool", !.awaiting = (Kernel = "pi")]

GatewayDecide(r, s) ==
  LET k == drive[r][s] IN
  /\ k.pc = "kgate"
  /\ \/ SetDrive(r, s, [k EXCEPT !.pc = "ktool"])      \* no approval needed
     \/ /\ Gateway = "silent"
        /\ SetDrive(r, s, ApprovalRequired(k))
     \/ /\ Gateway = "durable"
        /\ Decision(log[r]) = "undecided"
        /\ SetDrive(r, s, IF Requested(log[r]) THEN ApprovalRequired(k)
                          ELSE [k EXCEPT !.pc = "kask", !.len = Len(log[r])])
  /\ KernelUnchanged /\ UNCHANGED log

(* appendApprovalRequest at the length GatewayDecide read; its conflict is  *)
(* an error of the Tool call, and of the whole OMP attempt.                 *)
GatewayAsk(r, s) ==
  LET k == drive[r][s] IN
  /\ k.pc = "kask"
  /\ \/ /\ Accepts(log[r], k.len)
        /\ Store(r, "approval_requested", "gateway")
        /\ SetDrive(r, s, ApprovalRequired(k))
     \/ /\ ~Accepts(log[r], k.len)
        /\ UNCHANGED log
        /\ SetDrive(r, s, IF Kernel = "omp" THEN Thrown(k) ELSE [k EXCEPT !.pc = "ktool"])
  /\ KernelUnchanged

KernelToolEnd(r, s) ==
  /\ drive[r][s].pc = "ktool"
  /\ KernelAppend(r, s, "tool", "kagent")
  /\ KernelUnchanged

(* The terminal the kernel proposes.                                        *)
KernelOutcomes(k) ==
  IF k.pc # "kagent"
  THEN {"timed_out"} \cup (IF k.aborted THEN {"cancelled"} ELSE {})
                     \cup (IF Kernel = "omp" THEN {"failed"} ELSE {})
  ELSE IF Kernel = "omp"
       THEN {"completed", "failed", "timed_out"} \cup (IF k.aborted THEN {"cancelled"} ELSE {})
       ELSE IF k.aborted THEN {"cancelled"}
            ELSE IF k.awaiting THEN {"awaiting_approval", "timed_out"}
                 ELSE {"completed", "failed", "timed_out"}

(* Where an attempt may end: a budget or an abort ends the OMP kernel's     *)
(* inside a Tool call too, without the event of its result.                 *)
EndPCs == {"kprep", "kresume", "kagent"} \cup (IF Kernel = "omp" THEN {"ktool"} ELSE {})

(* The wrapper keeps the proposal back; without it the kernel stores it.    *)
KernelFinish(r, s) ==
  LET k == drive[r][s] IN
  /\ k.pc \in EndPCs
  /\ \E outcome \in KernelOutcomes(k) :
       IF ContractEval
       THEN /\ Kernel = "omp" => k.synced
            /\ SetDrive(r, s, [k EXCEPT !.pc = "wread", !.outcome = outcome])
            /\ UNCHANGED log
       ELSE /\ Kernel = "omp" => k.synced
            /\ \/ /\ Accepts(log[r], k.kseq)
                  /\ Store(r, outcome, "kernel")
                  /\ SetDrive(r, s, [k EXCEPT !.pc = "dread", !.outcome = outcome])
               \/ /\ ~Accepts(log[r], k.kseq)
                  /\ UNCHANGED log
                  /\ SetDrive(r, s, Thrown(k))
  /\ KernelUnchanged

KernelStep(r, s) ==
  KernelSync(r, s) \/ KernelOpen(r, s) \/ KernelStarted(r, s) \/ KernelContext(r, s)
  \/ KernelPrepare(r, s) \/ KernelResumed(r, s) \/ KernelWork(r, s) \/ KernelTool(r, s) \/ GatewayDecide(r, s)
  \/ GatewayAsk(r, s) \/ KernelToolEnd(r, s) \/ KernelFinish(r, s)

-----------------------------------------------------------------------------
(* withContractEval: evaluates the evidence, stores the verdict, then the   *)
(* terminal.  Evidence without run.started, or with two events of one       *)
(* sequence (the proposal and what someone stored meanwhile), fails.        *)
EvalPasses(r, s) ==
  HasType(log[r], "started") /\ drive[r][s].kseq >= Len(log[r])

WrapperRead(r, s) ==
  LET k == drive[r][s] IN
  /\ k.pc = "wread"
  /\ SetDrive(r, s, [k EXCEPT !.pc = "weval", !.len = Len(log[r]),
                              !.outcome = IF ~k.threw /\ EvalPasses(r, s) THEN @ ELSE "failed"])
  /\ KernelUnchanged /\ UNCHANGED log

WrapperAppend(r, s, pc, seq, type, next) ==
  /\ drive[r][s].pc = pc
  /\ \/ /\ Accepts(log[r], seq)
        /\ Store(r, type, "kernel")
        /\ SetDrive(r, s, [drive[r][s] EXCEPT !.pc = next])
     \/ /\ ~Accepts(log[r], seq)
        /\ UNCHANGED log
        /\ SetDrive(r, s, [drive[r][s] EXCEPT !.pc = "dcatch"])
  /\ KernelUnchanged

WrapperTerminalAtEnd(r, s) ==                  \* a fault: rereads the sequence
  WrapperAppend(r, s, "wterm", Len(log[r]), drive[r][s].outcome, "dread")

WrapperEval(r, s)     == WrapperAppend(r, s, "weval", drive[r][s].len, "eval", "wterm")
WrapperTerminal(r, s) ==
  WrapperAppend(r, s, "wterm", drive[r][s].len + 1, drive[r][s].outcome, "dread")

-----------------------------------------------------------------------------
(* drive() after kernel.start: trust the last stored event if it settles    *)
(* the Run, otherwise store the outcome; on any error, run.failed.          *)
Complete(r, s, outcome) ==
  /\ SetDrive(r, s, IdleDrive)
  /\ result' = [result EXCEPT ![r] = outcome]

DriveUnchanged == UNCHANGED <<claimed, begin, settle, approver, closing, used>>

LookTrusting(r, s, pc, next) ==                \* a fault: believes the kernel
  /\ drive[r][s].pc = pc
  /\ Complete(r, s, drive[r][s].outcome)
  /\ UNCHANGED log
  /\ DriveUnchanged

Look(r, s, pc, next) ==
  /\ drive[r][s].pc = pc
  /\ UNCHANGED log
  /\ \/ /\ LastSettled(log[r])
        /\ Complete(r, s, log[r][Len(log[r])].type)
     \/ /\ ~LastSettled(log[r])
        /\ SetDrive(r, s, [drive[r][s] EXCEPT !.pc = next, !.len = Len(log[r])])
        /\ UNCHANGED result
  /\ DriveUnchanged

DriveRead(r, s)  == Look(r, s, "dread", "dappend")
DriveCatch(r, s) == Look(r, s, "dcatch", "dfail")

DriveAppend(r, s) ==
  LET k == drive[r][s] IN
  /\ k.pc = "dappend"
  /\ \/ /\ Accepts(log[r], k.len)
        /\ Store(r, k.outcome, "runtime")
        /\ Complete(r, s, k.outcome)
     \/ /\ ~Accepts(log[r], k.len)
        /\ SetDrive(r, s, [k EXCEPT !.pc = "dcatch"])
        /\ UNCHANGED <<log, result>>
  /\ DriveUnchanged

DriveFailRetrying(r, s) ==                     \* a fault: retries at the old length
  LET k == drive[r][s] IN
  /\ k.pc = "dfail"
  /\ Accepts(log[r], k.len)
  /\ Store(r, "failed", "runtime")
  /\ Complete(r, s, "failed")
  /\ DriveUnchanged

(* A second conflict rejects the completion.                                *)
DriveFail(r, s) ==
  LET k == drive[r][s] IN
  /\ k.pc = "dfail"
  /\ \/ /\ Accepts(log[r], k.len)
        /\ Store(r, "failed", "runtime")
        /\ Complete(r, s, "failed")
     \/ /\ ~Accepts(log[r], k.len)
        /\ Complete(r, s, "rejected")
        /\ UNCHANGED log
  /\ DriveUnchanged

DriveStep(r, s) ==
  WrapperRead(r, s) \/ WrapperEval(r, s) \/ WrapperTerminal(r, s)
  \/ DriveRead(r, s) \/ DriveCatch(r, s) \/ DriveAppend(r, s) \/ DriveFail(r, s)

-----------------------------------------------------------------------------
Aborted(calls) ==
  [s \in Slots |-> IF calls[s].pc = "idle" THEN calls[s]
                                          ELSE [calls[s] EXCEPT !.aborted = TRUE]]

(* stop(): aborts the controller of an active Run; otherwise only reads.    *)
Stop(r) ==
  /\ Serving /\ ~closing /\ Active(r)
  /\ \E s \in Slots : drive[r][s].pc # "idle" /\ ~drive[r][s].aborted
  /\ drive' = [drive EXCEPT ![r] = Aborted(@)]
  /\ UNCHANGED <<claimed, log, begin, settle, approver, closing, result, used>>

CloseActiveOnly ==                             \* a fault: forgets begin()
  /\ Serving /\ ~closing
  /\ closing' = TRUE
  /\ drive' = [r \in Runs |-> Aborted(drive[r])]
  /\ UNCHANGED <<claimed, log, begin, settle, approver, result, used>>

(* close(): no new begin; every controller is aborted.                      *)
Close ==
  /\ Serving /\ ~closing
  /\ closing' = TRUE
  /\ begin' = [r \in Runs |-> Aborted(begin[r])]
  /\ drive' = [r \in Runs |-> Aborted(drive[r])]
  /\ UNCHANGED <<claimed, log, settle, approver, result, used>>

-----------------------------------------------------------------------------
(* settleInterrupted(): the Runs without a terminal, one after the other.   *)
SettleUnchanged == UNCHANGED <<claimed, begin, drive, approver, closing, result>>

SettleCallRunning ==                           \* a fault: only running Runs
  /\ settle.pc = "boot" /\ ~closing
  /\ settle' = [settle EXCEPT !.pc = "scan",
                             !.todo = {r \in claimed : Status(log[r]) = "running"}]
  /\ SettleUnchanged /\ UNCHANGED <<log, used>>

SettleCall ==
  /\ \/ settle.pc = "boot"
     \/ SettlePolicy = "anytime" /\ settle.pc = "done" /\ used.settles < MaxSettles
  /\ ~closing
  /\ settle' = [settle EXCEPT !.pc = "scan", !.todo = {r \in claimed : ~HasFinal(log[r])}]
  /\ IF SettlePolicy = "anytime" THEN Count("settles") ELSE UNCHANGED used
  /\ SettleUnchanged /\ UNCHANGED log

(* A Run this process drives or is about to drive is skipped.               *)
SettleCheck(r) ==
  /\ settle.pc = "scan" /\ r \in settle.todo
  /\ settle' = [settle EXCEPT
       !.todo = @ \ {r}, !.run = r,
       !.pc = IF Active(r) \/ InFlight(r) THEN "scan" ELSE "read"]
  /\ SettleUnchanged /\ UNCHANGED <<log, used>>

SettleRead ==
  /\ settle.pc = "read"
  /\ settle' = [settle EXCEPT
       !.pc = IF LastSettled(log[settle.run]) THEN "scan" ELSE "append",
       !.len = Len(log[settle.run])]
  /\ SettleUnchanged /\ UNCHANGED <<log, used>>

SettleAppend ==
  /\ settle.pc = "append"
  /\ IF Accepts(log[settle.run], settle.len)
     THEN Store(settle.run, "failed", "settle")
     ELSE UNCHANGED log               \* a conflict is skipped
  /\ settle' = [settle EXCEPT !.pc = "scan"]
  /\ SettleUnchanged /\ UNCHANGED used

SettleEnd ==
  /\ settle.pc = "scan" /\ settle.todo = {}
  /\ settle' = [settle EXCEPT !.pc = "done"]
  /\ SettleUnchanged /\ UNCHANGED <<log, used>>

SettleStep == SettleCall \/ (\E r \in Runs : SettleCheck(r)) \/ SettleRead
              \/ SettleAppend \/ SettleEnd

-----------------------------------------------------------------------------
(* answerApproval(): reads the Run stream, then appends the answer.         *)
AnswerRead(r) ==
  /\ Serving
  /\ approver[r].pc = "idle" /\ used.answers < MaxAnswers
  /\ Requested(log[r])
  /\ \E d \in {"approved", "denied"} :
       approver' = [approver EXCEPT ![r] =
         [pc |-> "append", decision |-> d, len |-> Len(log[r])]]
  /\ Count("answers")
  /\ UNCHANGED <<claimed, log, begin, drive, settle, closing, result>>

AnswerAppend(r) ==
  /\ approver[r].pc = "append"
  /\ IF Accepts(log[r], approver[r].len)
     THEN Store(r, approver[r].decision, "approver")
     ELSE UNCHANGED log               \* the conflict is the caller's
  /\ approver' = [approver EXCEPT ![r] = IdleApprover]
  /\ UNCHANGED <<claimed, begin, drive, settle, closing, result, used>>

(* The process ends, at any step, and starts again: the store remains.      *)
Crash ==
  /\ used.crashes < MaxCrashes
  /\ begin'    = [r \in Runs |-> [s \in Slots |-> IdleBegin]]
  /\ drive'    = [r \in Runs |-> [s \in Slots |-> IdleDrive]]
  /\ settle'   = NewSettle
  /\ approver' = [r \in Runs |-> IdleApprover]
  /\ closing'  = FALSE
  /\ result'   = [r \in Runs |-> "none"]
  /\ Count("crashes")
  /\ UNCHANGED <<claimed, log>>

-----------------------------------------------------------------------------
Client(r) == \/ \E s \in Slots, mode \in {"start", "resume"} : Begin(r, s, mode)
             \/ Stop(r) \/ AnswerRead(r) \/ AnswerAppend(r)

Next ==
  \/ \E r \in Runs : Client(r)
  \/ \E r \in Runs, s \in Slots : BeginStep(r, s) \/ KernelStep(r, s) \/ DriveStep(r, s)
  \/ SettleStep \/ Close \/ Crash

Spec == Init /\ [][Next]_vars

(* What the Host's event loop guarantees: a continuation that is ready runs *)
(* in the end, and a kernel attempt ends (its model and tool calls have     *)
(* deadlines).  Clients and crashes owe nothing.                            *)
Fairness ==
  /\ \A r \in Runs : WF_vars(AnswerAppend(r))
  /\ \A r \in Runs, s \in Slots : /\ WF_vars(BeginStep(r, s))
                                  /\ WF_vars(KernelStep(r, s) \/ DriveStep(r, s))
  /\ WF_vars(SettleStep)

FairSpec == Spec /\ Fairness

-----------------------------------------------------------------------------
(* PROPERTIES *)

(* Every variable keeps its shape: the pcs are those of the code above, the *)
(* streams hold only events the components write, and the outcome is known  *)
(* from the step that ends the attempt on.                                  *)
LogOK   == log \in [Runs -> Seq(Event)]
BeginRec == [pc : BeginPCs, mode : {"start", "resume"}, aborted : BOOLEAN]
DriveRec ==
  {d \in [pc : DrivePCs \cup {"idle"}, mode : {"start", "resume"},
           aborted : BOOLEAN, kseq : Nat, synced : BOOLEAN, restored : BOOLEAN,
           awaiting : BOOLEAN, threw : BOOLEAN, outcome : Outcomes \cup {"none"},
           len : Nat] :
     d.pc \in {"wread", "weval", "wterm", "dread", "dappend"} => d.outcome \in Outcomes}
BeginOK == begin \in [Runs -> [Slots -> BeginRec]]
DriveOK == drive \in [Runs -> [Slots -> DriveRec]]
TypeOK ==
  /\ claimed \subseteq Runs
  /\ LogOK /\ BeginOK /\ DriveOK
  /\ settle \in [pc : {"boot", "scan", "read", "append", "done"},
                 todo : SUBSET Runs, run : Runs, len : Nat]
  /\ approver \in [Runs -> [pc : {"idle", "append"},
                            decision : {"approved", "denied"}, len : Nat]]
  /\ closing \in BOOLEAN
  /\ result \in [Runs -> Outcomes \cup {"none", "rejected"}]
  /\ used \in [begins : Nat, crashes : Nat, answers : Nat, settles : Nat]

(* The components racing for the end of a Run (kernel, wrapper, drive(),    *)
(* its catch, settleInterrupted, an approval answer) leave one terminal,    *)
(* and nothing is stored after it.                                          *)
FinalIsLast ==
  \A r \in Runs : \A i \in DOMAIN log[r] : IsFinal(log[r][i]) => i = Len(log[r])

(* However start(), resume(), crashes and settlement interleave, a process  *)
(* has at most one kernel attempt on a Run: the inFlight and active maps    *)
(* together leave no gap.                                                   *)
SingleDrive ==
  \A r \in Runs : \A s, t \in Slots :
    drive[r][s].pc # "idle" /\ drive[r][t].pc # "idle" => s = t

(* No attempt stores a second run.started, whether it is the first one or   *)
(* one that takes over after a crash.                                       *)
StartedOnce ==
  \A r \in Runs : \A i, j \in DOMAIN log[r] :
    log[r][i].type = "started" /\ log[r][j].type = "started" => i = j

(* "Recovery is explicit": what start() launches never continues the        *)
(* history of an earlier attempt; only resume() does.                       *)
ExplicitRecovery ==
  \A r \in Runs, s \in Slots :
    drive[r][s].pc # "idle" /\ drive[r][s].mode = "start" =>
      drive[r][s].pc # "kresume" /\ ~HasType(log[r], "resumed")

(* With Contract Eval a Run is stored as completed only over a stream that  *)
(* started and directly after the verdict on it: nothing slips in between   *)
(* what was evaluated and the terminal.                                     *)
CompletedIsEvaluated ==
  ContractEval =>
    \A r \in Runs : \A i \in DOMAIN log[r] :
      log[r][i].type = "completed" =>
        /\ i > 1 /\ log[r][i - 1].type = "eval"
        /\ \E j \in 1..(i - 2) : log[r][j].type = "started"

(* What a completion resolved to is what every later reader of the Run      *)
(* sees, until someone resumes it.                                          *)
ResultIsDurable ==
  \A r \in Runs :
    result[r] \in Outcomes /\ ~Active(r) /\ ~InFlight(r) => Status(log[r]) = result[r]

(* close() leaves no attempt running on: one that was in begin() when the   *)
(* Host closed starts out aborted.                                          *)
ClosingAborts ==
  closing => \A r \in Runs, s \in Slots :
    drive[r][s].pc # "idle" => drive[r][s].aborted

(* "Runs active in this process ... are left untouched" by                  *)
(* settleInterrupted.                                                       *)
SettleSparesActive ==
  [][SettleStep /\ log' # log =>
       ~Active(settle.run) /\ ~InFlight(settle.run)]_vars

(* "... and suspended Runs (awaiting input/approval, resumable by design)". *)
SettleSparesSuspended ==
  [][SettleStep /\ log' # log =>
       Status(log[settle.run]) \notin SuspendTypes]_vars

(* "approval_required ends the Run as awaiting_approval": an attempt that   *)
(* stopped for an approval, and was not aborted, is not turned into a       *)
(* failure by the conflict of its own writes.                               *)
ApprovalSuspends ==
  \A r \in Runs, s \in Slots :
    drive[r][s].awaiting /\ ~drive[r][s].aborted => drive[r][s].outcome # "failed"

(* The runtime implements the lifecycle a client relies on.                 *)
Lifecycle == INSTANCE RunLifecycle WITH
  st <- [r \in Runs |-> IF r \in claimed THEN Status(log[r]) ELSE "unclaimed"]
ImplementsLifecycle == Lifecycle!Spec

(* A claimed Run reaches a terminal or a suspension, through its attempt or *)
(* through the settlement of the next Host process; the exception is an     *)
(* attempt whose last append lost the race twice.                           *)
EveryRunSettles ==
  \A r \in Runs :
    r \in claimed ~> Status(log[r]) \in Outcomes \/ result[r] = "rejected"

(* close() drains: no attempt and no begin() remains.                       *)
CloseDrains ==
  closing ~> ~closing \/ \A r \in Runs : ~Active(r) /\ ~InFlight(r)
=============================================================================
