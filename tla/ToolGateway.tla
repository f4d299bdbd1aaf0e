---------------------------- MODULE ToolGateway ----------------------------
(***************************************************************************)
(* createToolGateway: policy, approval on the Run stream, and the durable   *)
(* effect ledger (one effect: stream per effect key).  Calls arrive through *)
(* gateways over one or several scoped stores; a crash loses the calls of a *)
(* process and keeps the streams.                                           *)
(*                                                                          *)
(* A step is one EventStore, policy or sandbox call and the code using its  *)
(* answer.  The tool: stream of a call has one writer, the call, so its     *)
(* lifecycle events are part of the steps that append them.                 *)
(***************************************************************************)
EXTENDS Naturals, Sequences, FiniteSets

CONSTANTS
  Calls,      \* execute() calls
  Seams,      \* scoped stores; gateways on one share inFlightEffectsByEvents
  Keys,       \* effect keys
  NoKey,      \* a request without effectKey
  Intents,    \* what matchesEffectIntent tells apart: a tool and its input
  Tool,       \* Tool[i]: the tool of intent i
  Replay,     \* Replay[t]: the tool's replayPolicy, "none" when it has none
  Decisions,  \* what the policy may decide
  Approvers,  \* answerApproval() calls
  MaxOther,   \* bound: events the kernel appends to the Run stream meanwhile
  MaxCrashes  \* bound: processes that end

ASSUME ConstantsAssumption ==
  /\ NoKey \notin Keys /\ Seams # {} /\ Intents # {}
  /\ Decisions \subseteq {"allow", "deny", "require_approval"}
  /\ Replay \in [{Tool[i] : i \in Intents} -> {"never", "safe", "none"}]
  /\ Tool \in [Intents -> {Tool[i] : i \in Intents}]
  /\ MaxOther \in Nat /\ MaxCrashes \in Nat

VARIABLES
  effects,    \* the effect: stream of each key
  runlog,     \* the Run stream, as far as approvals and sequences go
  calls,      \* progress and result of each call
  answers,    \* progress of each answerApproval()
  ledgered,   \* how often the sandbox ran a key through the ledger
  direct,     \* how often it ran a key without it
  used        \* counts, for the bounds

vars == <<effects, runlog, calls, answers, ledgered, direct, used>>

-----------------------------------------------------------------------------
Results   == {"succeeded", "failed", "unknown"}
Terminals == Results \cup {"cancelled"}
Ended     == {"told", "rejected", "lost"}
Executing == {"eread", "estart", "esandbox", "erunning", "esettle", "eunknown"}

IdleCall(c) == [pc |-> "idle", seam |-> CHOOSE s \in Seams : TRUE, key |-> NoKey,
             intent |-> CHOOSE i \in Intents : TRUE, aborted |-> FALSE, via |-> "none",
             leader |-> c, len |-> 0, type |-> "none",
             outcome |-> "none"]
IdleAnswer == [pc |-> "idle", decision |-> "approved", key |-> NoKey, len |-> 0]

Policy(c) == Replay[Tool[calls[c].intent]]

(* EventStore.append at the sequence the caller computed.                   *)
AcceptsAny(stream, seq) == seq <= Len(stream)  \* a fault: no sequence check
Accepts(stream, seq) == seq = Len(stream)

HasStarted(k) == \E i \in DOMAIN effects[k] : effects[k][i].type = "started"
Conflicts(k, intent) ==
  \E i \in DOMAIN effects[k] :
    effects[k][i].type = "started" /\ effects[k][i].intent # intent
IsRecorded(k) == \E i \in DOMAIN effects[k] : effects[k][i].type \in Terminals
Recorded(k) ==
  effects[k][CHOOSE i \in DOMAIN effects[k] : effects[k][i].type \in Terminals].result

(* approvalFor: the first answer after the request of this key and tool.    *)
RequestedAt(k, t) ==
  {i \in DOMAIN runlog : runlog[i] = [type |-> "requested", key |-> k, tool |-> t,
                                      decision |-> "none"]}
AnsweredAt(k, t) ==
  {j \in DOMAIN runlog : /\ runlog[j].type = "answered" /\ runlog[j].key = k
                         /\ \E i \in RequestedAt(k, t) : i < j}
DecisionOfLast(k, t) ==                        \* a fault: the last answer decides
  IF AnsweredAt(k, t) = {} THEN "none"
  ELSE runlog[CHOOSE j \in AnsweredAt(k, t) :
                \A other \in AnsweredAt(k, t) : other <= j].decision
Decision(k, t) ==
  IF AnsweredAt(k, t) = {} THEN "none"
  ELSE runlog[CHOOSE j \in AnsweredAt(k, t) :
                \A other \in AnsweredAt(k, t) : j <= other].decision

Init ==
  /\ effects  = [k \in Keys |-> << >>]
  /\ runlog   = << >>
  /\ calls    = [c \in Calls |-> IdleCall(c)]
  /\ answers  = [a \in Approvers |-> IdleAnswer]
  /\ ledgered = [k \in Keys |-> 0]
  /\ direct   = [k \in Keys |-> 0]
  /\ used     = [other |-> 0, crashes |-> 0]

SetCall(c, rec) == calls' = [calls EXCEPT ![c] = rec]
Result(c, outcome) == [calls[c] EXCEPT !.pc = "tell", !.outcome = outcome]
Refuse(c) == SetCall(c, Result(c, "refused"))
CallsOnly == UNCHANGED <<effects, runlog, answers, ledgered, direct, used>>

-----------------------------------------------------------------------------
(* execute() up to the sandbox or the ledger.                               *)

(* tool.requested; a request outside the scope, the catalog or the tool's   *)
(* schema is refused.                                                       *)
Request(c, seam, key, intent) ==
  /\ calls[c].pc = "idle"
  /\ \E pc \in {"policy", "tell"} :
       SetCall(c, [IdleCall(c) EXCEPT !.pc = pc, !.seam = seam, !.key = key,
                     !.intent = intent, !.outcome = IF pc = "tell" THEN "refused" ELSE "none"])
  /\ CallsOnly

(* executeEffect: a call whose intent is being executed on this seam shares *)
(* that execution.                                                          *)
Leaders(c) ==
  {d \in Calls : /\ calls[d].pc \in Executing
                 /\ calls[d].seam = calls[c].seam /\ calls[d].key = calls[c].key
                 /\ calls[d].intent = calls[c].intent}

EnterLedgerAlone(c, via) ==                    \* a fault: shares nothing
  SetCall(c, [calls[c] EXCEPT !.pc = "eread", !.via = via])

EnterLedger(c, via) ==
  IF Leaders(c) = {}
  THEN SetCall(c, [calls[c] EXCEPT !.pc = "eread", !.via = via])
  ELSE \E d \in Leaders(c) :
         SetCall(c, [calls[c] EXCEPT !.pc = "joined", !.via = via, !.leader = d])

(* The policy's decision, if it gives one, and what follows from it.        *)
RunsDirectly(c, decision) ==
  decision = "allow" /\ Policy(c) = "safe" /\ calls[c].key = NoKey
RunsLedgered(c, decision) ==
  decision = "allow" /\ Policy(c) # "none" /\ calls[c].key # NoKey
NeedsApproval(c, decision) ==
  decision = "require_approval" /\ calls[c].key # NoKey

PolicyDecide(c) ==
  /\ calls[c].pc = "policy"
  /\ \E decision \in Decisions \cup {"unavailable"} :
       \/ /\ RunsDirectly(c, decision)
          /\ SetCall(c, [calls[c] EXCEPT !.pc = "direct", !.via = "direct"])
       \/ RunsLedgered(c, decision) /\ EnterLedger(c, "allowed")
       \/ /\ NeedsApproval(c, decision)
          /\ SetCall(c, [calls[c] EXCEPT !.pc = "approval"])
       \/ /\ ~RunsDirectly(c, decision) /\ ~RunsLedgered(c, decision)
          /\ ~NeedsApproval(c, decision)
          /\ Refuse(c)
  /\ CallsOnly

(* The Run stream: approved goes on, denied and undecided are refused, the  *)
(* latter after asking once.                                                *)
ApprovalRead(c) ==
  LET k == calls[c].key
      t == Tool[calls[c].intent] IN
  /\ calls[c].pc = "approval"
  /\ \/ /\ Decision(k, t) = "approved" /\ Policy(c) # "none"
        /\ EnterLedger(c, "approved")
     \/ /\ Decision(k, t) = "approved" /\ Policy(c) = "none"
        /\ SetCall(c, [calls[c] EXCEPT !.pc = "direct", !.via = "direct"])
     \/ /\ Decision(k, t) # "approved"
        /\ Decision(k, t) = "denied" \/ RequestedAt(k, t) # {}
        /\ Refuse(c)
     \/ /\ RequestedAt(k, t) = {}
        /\ SetCall(c, [calls[c] EXCEPT !.pc = "ask", !.len = Len(runlog)])
  /\ CallsOnly

ApprovalAsk(c) ==
  /\ calls[c].pc = "ask"
  /\ \/ /\ Accepts(runlog, calls[c].len)
        /\ runlog' = Append(runlog, [type |-> "requested", key |-> calls[c].key,
                              tool |-> Tool[calls[c].intent], decision |-> "none"])
        /\ Refuse(c)
     \/ /\ ~Accepts(runlog, calls[c].len)
        /\ SetCall(c, [calls[c] EXCEPT !.pc = "rejected"])
        /\ UNCHANGED runlog
  /\ UNCHANGED <<effects, answers, ledgered, direct, used>>

(* Without a ledger the sandbox runs at once; its error rejects the call.   *)
DirectRun(c) ==
  /\ calls[c].pc = "direct"
  /\ direct' = IF calls[c].key = NoKey THEN direct
               ELSE [direct EXCEPT ![calls[c].key] = @ + 1]
  /\ \/ \E r \in Results : SetCall(c, Result(c, r))
     \/ SetCall(c, [calls[c] EXCEPT !.pc = "rejected"])
  /\ UNCHANGED <<effects, runlog, answers, ledgered, used>>

-----------------------------------------------------------------------------
(* executeDurableEffect.                                                    *)

(* The execution settles for its call and for the calls that share it.      *)
SettleCalls(c, pc, outcome) ==
  calls' = [d \in Calls |->
    IF d = c \/ (calls[d].pc = "joined" /\ calls[d].leader = c)
    THEN [calls[d] EXCEPT !.pc = pc, !.outcome = outcome] ELSE calls[d]]

Finish(c, outcome) == SettleCalls(c, "tell", outcome)
RejectAlone(c)     == SetCall(c, [calls[c] EXCEPT !.pc = "rejected"])   \* a fault
Reject(c)          == SettleCalls(c, "rejected", "none")

EffectReadForgetful(c) ==                      \* a fault: an orphan runs again
  /\ calls[c].pc = "eread"
  /\ IF IsRecorded(calls[c].key) THEN Finish(c, Recorded(calls[c].key))
     ELSE SetCall(c, [calls[c] EXCEPT !.pc = "estart", !.len = Len(effects[calls[c].key])])
  /\ CallsOnly

(* The recorded result, the recorded conflict, an orphaned start, or none.  *)
EffectRead(c) ==
  LET k == calls[c].key IN
  /\ calls[c].pc = "eread"
  /\ \/ Conflicts(k, calls[c].intent) /\ Finish(c, "refused")
     \/ /\ ~Conflicts(k, calls[c].intent)
        /\ \/ IsRecorded(k) /\ Finish(c, Recorded(k))
           \/ /\ ~IsRecorded(k)
              /\ SetCall(c, [calls[c] EXCEPT
                   !.pc = IF HasStarted(k) THEN "eunknown" ELSE "estart",
                   !.len = Len(effects[k])])
  /\ CallsOnly

EffectAppend(c, type, result) ==
  effects' = [effects EXCEPT ![calls[c].key] =
    Append(@, [type |-> type, intent |-> calls[c].intent, result |-> result])]
LedgerOnly == UNCHANGED <<runlog, answers, ledgered, direct, used>>

EffectStart(c) ==
  /\ calls[c].pc = "estart"
  /\ \/ /\ Accepts(effects[calls[c].key], calls[c].len)
        /\ EffectAppend(c, "started", "none")
        /\ SetCall(c, [calls[c] EXCEPT !.pc = "esandbox", !.len = @ + 1])
     \/ /\ ~Accepts(effects[calls[c].key], calls[c].len)
        /\ Reject(c)
        /\ UNCHANGED effects
  /\ LedgerOnly

(* An allowed effect whose signal is aborted by now is not performed.       *)
EffectRun(c) ==
  /\ calls[c].pc = "esandbox"
  /\ IF calls[c].via = "allowed" /\ calls[c].aborted
     THEN /\ SetCall(c, [calls[c] EXCEPT !.pc = "esettle", !.type = "cancelled",
                                        !.outcome = "failed"])
          /\ UNCHANGED ledgered
     ELSE /\ SetCall(c, [calls[c] EXCEPT !.pc = "erunning"])
          /\ ledgered' = [ledgered EXCEPT ![calls[c].key] = @ + 1]
  /\ UNCHANGED <<effects, runlog, answers, direct, used>>

(* The sandbox answers; a throw is an unknown outcome, an aborted signal or *)
(* a result that says so makes the record a cancellation with that result.  *)
EffectReturn(c) ==
  /\ calls[c].pc = "erunning"
  /\ \E r \in Results, type \in Terminals :
       /\ \/ r = "unknown" /\ type = "unknown"
          \/ r # "unknown" /\ type = "cancelled"
          \/ r # "unknown" /\ type = r /\ ~calls[c].aborted
       /\ SetCall(c, [calls[c] EXCEPT !.pc = "esettle", !.type = type, !.outcome = r])
  /\ CallsOnly

EffectSettleAnyway(c) ==                       \* a fault: ignores the conflict
  /\ calls[c].pc = "esettle"
  /\ Finish(c, calls[c].outcome)
  /\ effects' = IF Accepts(effects[calls[c].key], calls[c].len)
                THEN [effects EXCEPT ![calls[c].key] =
                       Append(@, [type |-> calls[c].type, intent |-> calls[c].intent,
                                  result |-> calls[c].outcome])]
                ELSE effects
  /\ LedgerOnly

EffectSettleRetold(c) ==                       \* a fault: a cancellation is a failure
  /\ calls[c].pc = "esettle"
  /\ \/ /\ Accepts(effects[calls[c].key], calls[c].len)
        /\ EffectAppend(c, calls[c].type, IF calls[c].type = "cancelled" THEN "failed"
                                          ELSE calls[c].outcome)
        /\ Finish(c, calls[c].outcome)
     \/ /\ ~Accepts(effects[calls[c].key], calls[c].len)
        /\ Reject(c)
        /\ UNCHANGED effects
  /\ LedgerOnly

EffectSettle(c) ==
  /\ calls[c].pc = "esettle"
  /\ \/ /\ Accepts(effects[calls[c].key], calls[c].len)
        /\ EffectAppend(c, calls[c].type, calls[c].outcome)
        /\ Finish(c, calls[c].outcome)
     \/ /\ ~Accepts(effects[calls[c].key], calls[c].len)
        /\ Reject(c)
        /\ UNCHANGED effects
  /\ LedgerOnly

(* appendUnknownEffectTerminal for an orphaned start.                       *)
EffectUnknown(c) ==
  /\ calls[c].pc = "eunknown"
  /\ \/ /\ Accepts(effects[calls[c].key], calls[c].len)
        /\ EffectAppend(c, "unknown", "unknown")
        /\ Finish(c, "unknown")
     \/ /\ ~Accepts(effects[calls[c].key], calls[c].len)
        /\ Reject(c)
        /\ UNCHANGED effects
  /\ LedgerOnly

(* terminalResult: tool.result, and the call's promise resolves.            *)
Tell(c) ==
  /\ calls[c].pc = "tell"
  /\ SetCall(c, [calls[c] EXCEPT !.pc = "told"])
  /\ CallsOnly

CallStep(c) ==
  \/ PolicyDecide(c) \/ ApprovalRead(c) \/ ApprovalAsk(c) \/ DirectRun(c)
  \/ EffectRead(c) \/ EffectStart(c) \/ EffectRun(c) \/ EffectReturn(c)
  \/ EffectSettle(c) \/ EffectUnknown(c) \/ Tell(c)

-----------------------------------------------------------------------------
(* The caller's signal.                                                     *)
Abort(c) ==
  /\ calls[c].pc \notin Ended \cup {"idle"} /\ ~calls[c].aborted
  /\ SetCall(c, [calls[c] EXCEPT !.aborted = TRUE])
  /\ CallsOnly

(* answerApproval(): finds the request, then appends; nothing looks for an  *)
(* earlier answer.                                                          *)
AnswerRead(a) ==
  /\ answers[a].pc = "idle"
  /\ \E i \in DOMAIN runlog, d \in {"approved", "denied"} :
       /\ runlog[i].type = "requested"
       /\ answers' = [answers EXCEPT ![a] = [pc |-> "append", decision |-> d,
                                             key |-> runlog[i].key, len |-> Len(runlog)]]
  /\ UNCHANGED <<effects, runlog, calls, ledgered, direct, used>>

AnswerAppend(a) ==
  /\ answers[a].pc = "append"
  /\ runlog' = IF Accepts(runlog, answers[a].len)
               THEN Append(runlog, [type |-> "answered", key |-> answers[a].key,
                                    tool |-> "none", decision |-> answers[a].decision])
               ELSE runlog             \* the conflict is the caller's
  /\ answers' = [answers EXCEPT ![a].pc = "done"]
  /\ UNCHANGED <<effects, calls, ledgered, direct, used>>

(* The kernel's own events on the Run stream.                               *)
OtherEvent ==
  /\ used.other < MaxOther
  /\ runlog' = Append(runlog, [type |-> "other", key |-> NoKey, tool |-> "none",
                               decision |-> "none"])
  /\ used' = [used EXCEPT !.other = @ + 1]
  /\ UNCHANGED <<effects, calls, answers, ledgered, direct>>

(* The process behind a seam ends: its calls are lost, the streams stay.    *)
Crash(seam) ==
  /\ used.crashes < MaxCrashes
  /\ calls' = [c \in Calls |->
       IF calls[c].seam = seam /\ calls[c].pc \notin Ended \cup {"idle"}
       THEN [calls[c] EXCEPT !.pc = "lost"] ELSE calls[c]]
  /\ used' = [used EXCEPT !.crashes = @ + 1]
  /\ UNCHANGED <<effects, runlog, answers, ledgered, direct>>

-----------------------------------------------------------------------------
Next ==
  \/ \E c \in Calls, seam \in Seams, key \in Keys \cup {NoKey}, intent \in Intents :
       Request(c, seam, key, intent)
  \/ \E c \in Calls : CallStep(c) \/ Abort(c)
  \/ \E a \in Approvers : AnswerRead(a) \/ AnswerAppend(a)
  \/ OtherEvent
  \/ \E seam \in Seams : Crash(seam)

Spec == Init /\ [][Next]_vars

(* Awaited promises settle: the store's are synchronous inside, and of the  *)
(* policy and the sandbox the Host plugs in it is assumed.                  *)
FairSpec == Spec /\ \A c \in Calls : WF_vars(CallStep(c))

-----------------------------------------------------------------------------
(* PROPERTIES *)

EffectEvent == [type : {"started"} \cup Terminals, intent : Intents,
                result : Results \cup {"none"}]
RunEvent == [type : {"requested", "answered", "other"}, key : Keys \cup {NoKey},
             tool : {Tool[i] : i \in Intents} \cup {"none"},
             decision : {"approved", "denied", "none"}]
CallPCs == {"idle", "policy", "approval", "ask", "direct", "joined", "tell"}
           \cup Executing \cup Ended
CallRec == [pc : CallPCs, seam : Seams, key : Keys \cup {NoKey}, intent : Intents,
            aborted : BOOLEAN, via : {"none", "direct", "allowed", "approved"},
            leader : Calls, len : Nat, type : Terminals \cup {"none"},
            outcome : Results \cup {"refused", "none"}]

(* Every variable keeps its shape; an effect stream is a start, then at     *)
(* most one terminal.                                                       *)
TypeOK ==
  /\ effects \in [Keys -> Seq(EffectEvent)]
  /\ \A k \in Keys : /\ Len(effects[k]) <= 2
                      /\ \A i \in DOMAIN effects[k] :
                           effects[k][i].type = "started" <=> i = 1
  /\ runlog \in Seq(RunEvent)
  /\ calls \in [Calls -> CallRec]
  /\ \A c \in Calls : calls[c].pc \in Executing => calls[c].key \in Keys
  /\ answers \in [Approvers -> [pc : {"idle", "append", "done"},
                                decision : {"approved", "denied"},
                                key : Keys \cup {NoKey}, len : Nat]]
  /\ ledgered \in [Keys -> Nat] /\ direct \in [Keys -> Nat]
  /\ used \in [other : Nat, crashes : Nat]

(* "duplicate effect key executes at most once": whatever seams, retries,   *)
(* crashes and intents meet on a key, the ledger lets the sandbox run once. *)
AtMostOnce == \A k \in Keys : ledgered[k] <= 1

(* Two callers who asked for the same effect and were told its outcome were *)
(* told the same: the executor, those who shared its execution, those who   *)
(* read the ledger later, and those who found it orphaned.                  *)
Informed(c) == calls[c].pc = "told" /\ calls[c].via \in {"allowed", "approved"}
               /\ calls[c].outcome \in Results
OneTruth ==
  \A c, d \in Calls :
    Informed(c) /\ Informed(d) /\ calls[c].key = calls[d].key
      => calls[c].outcome = calls[d].outcome

(* "concurrent Gateway instances sharing the same Event seam await one      *)
(* execution": a ledger call is rejected by a sequence conflict only when   *)
(* another seam or another intent used its key.                             *)
ConflictIsForeign ==
  \A c \in Calls :
    calls[c].pc = "rejected" /\ calls[c].via \in {"allowed", "approved"} =>
      \E d \in Calls : /\ calls[d].key = calls[c].key
                       /\ \/ calls[d].seam # calls[c].seam
                          \/ calls[d].intent # calls[c].intent

(* "approval-required Tool has zero effect before approval", and the first  *)
(* answer is authoritative: who runs by approval has an approval as the     *)
(* first answer to its request, whatever is answered later.                 *)
ApprovedFirst ==
  \A c \in Calls :
    calls[c].via = "approved" \/ (calls[c].via = "direct" /\ calls[c].key # NoKey) =>
      \E i, j \in DOMAIN runlog :
        /\ i < j
        /\ runlog[i].type = "requested" /\ runlog[i].key = calls[c].key
        /\ runlog[i].tool = Tool[calls[c].intent]
        /\ runlog[j].type = "answered" /\ runlog[j].key = calls[c].key
        /\ runlog[j].decision = "approved"
        /\ \A m \in (i + 1)..(j - 1) :
             ~(runlog[m].type = "answered" /\ runlog[m].key = calls[c].key)

(* The ledger keeps the promise of EffectOnce.                              *)
Promise == INSTANCE EffectOnce WITH
  state <- [k \in Keys |-> IF IsRecorded(k) THEN Recorded(k)
                           ELSE IF HasStarted(k) THEN "open" ELSE "none"],
  runs  <- ledgered,
  told  <- [c \in Calls |-> IF Informed(c) THEN calls[c].outcome ELSE "none"]
ImplementsEffectOnce == Promise!Spec

(* Every call is answered or rejected, or lost with its process: nobody     *)
(* waits for an execution that ended.                                       *)
CallsEnd ==
  \A c \in Calls : calls[c].pc # "idle" ~> calls[c].pc \in Ended
=============================================================================
