-------------------------- MODULE RunRuntimeProofs --------------------------
(***************************************************************************)
(* Theorems about RunRuntime, for any set of Runs and calls, either kernel, *)
(* either gateway and every settlement policy.                              *)
(***************************************************************************)
EXTENDS RunRuntime, NatMin, SequenceTheorems, TLAPS

-----------------------------------------------------------------------------
(* What the steps do to a drive and to the streams.                         *)

(* A stream is left alone, or takes one event more while it has no terminal.*)
LogStep ==
  \/ UNCHANGED log
  \/ \E r \in Runs, t \in EventTypes, w \in Writers :
       ~HasFinal(log[r]) /\ Store(r, t, w)

(* The drive of one call goes on.                                           *)
DriveMoves(r, s) == \E d \in DriveRec : d.pc # "idle" /\ SetDrive(r, s, d)

(* A thrown error leaves a drive that still has to end.                     *)
LEMMA ThrownOK ==
  ASSUME NEW k \in DriveRec
  PROVE  Thrown(k) \in DriveRec /\ Thrown(k).pc # "idle"
BY DEF Thrown, DriveRec, Outcomes, FinalTypes, DrivePCs

(* An accepted event is a LogStep.                                          *)
LEMMA AcceptedStores ==
  ASSUME NEW r \in Runs, NEW seq, NEW type \in EventTypes, NEW w \in Writers,
         Accepts(log[r], seq), Store(r, type, w)
  PROVE  LogStep
<1>1. ~HasFinal(log[r])
  BY DEF Accepts
<1> QED BY <1>1, Zenon DEF LogStep

(* Whether the stream takes the kernel's event or refuses it, the attempt   *)
(* goes on.                                                                 *)
LEMMA KernelAppendShape ==
  ASSUME TypeOK, NEW r \in Runs, NEW s \in Slots, drive[r][s].pc \in KernelPCs,
         NEW type \in EventTypes, NEW next \in KernelPCs,
         KernelAppend(r, s, type, next)
  PROVE  DriveMoves(r, s) /\ LogStep
<1> DEFINE k == drive[r][s]
           d == [k EXCEPT !.pc = next, !.kseq = @ + 1, !.synced = FALSE]
<1>1. k \in DriveRec
  BY DEF TypeOK, DriveOK
<1>2. d \in DriveRec /\ d.pc # "idle"
  <2>1. /\ next \in DrivePCs /\ next # "idle"
        /\ next \notin {"wread", "weval", "wterm", "dread", "dappend"}
    BY DEF KernelPCs, DrivePCs
  <2> HIDE DEF k
  <2>2. PICK n \in Nat : n = k.kseq + 1
    BY <1>1 DEF DriveRec
  <2>3. [k EXCEPT !.pc = next, !.kseq = n, !.synced = FALSE] \in DriveRec
    BY <1>1, <2>1 DEF DriveRec
  <2>4. d.pc # "idle"
    BY <1>1, <2>1 DEF DriveRec
  <2> QED BY <2>2, <2>3, <2>4
<1>3. Thrown(k) \in DriveRec /\ Thrown(k).pc # "idle"
  BY <1>1, ThrownOK
<1>4. CASE Accepts(log[r], k.kseq) /\ Store(r, type, "kernel") /\ SetDrive(r, s, d)
  <2>1. LogStep
    BY <1>4, AcceptedStores DEF Writers
  <2> HIDE DEF d
  <2> QED BY <1>2, <1>4, <2>1 DEF DriveMoves
<1>5. CASE UNCHANGED log /\ SetDrive(r, s, Thrown(k))
  <2> HIDE DEF k
  <2> QED BY <1>3, <1>5 DEF LogStep, DriveMoves
<1> QED BY <1>4, <1>5 DEF KernelAppend

(* Every step of a kernel attempt rewrites the drive of its own call alone. *)
LEMMA KernelShape ==
  ASSUME TypeOK, NEW r \in Runs, NEW s \in Slots, KernelStep(r, s)
  PROVE  /\ drive[r][s].pc # "idle"
         /\ DriveMoves(r, s)
         /\ KernelUnchanged
         /\ LogStep
<1> DEFINE k == drive[r][s]
<1>0. k \in DriveRec /\ log[r] \in Seq(Event) /\ Len(log[r]) \in Nat
  BY DEF TypeOK, DriveOK, LogOK
<1>a. /\ {"started", "resumed", "progress", "transcript", "tool"} \subseteq EventTypes
      /\ FinalTypes \cup SuspendTypes \subseteq EventTypes
      /\ "approval_requested" \in EventTypes /\ "context" \in EventTypes
      /\ "kernel" \in Writers /\ "gateway" \in Writers
  BY DEF EventTypes, RunningTypes, OtherTypes, Writers
<1>1. CASE KernelSync(r, s)
  <2>1. LET d == [k EXCEPT !.kseq = Len(log[r]), !.synced = TRUE]
        IN  k.pc # "idle" => d \in DriveRec /\ d.pc # "idle"
    BY <1>0 DEF DriveRec
  <2>2. k.pc # "idle"
    BY <1>1 DEF KernelSync, SyncedPCs
  <2> QED BY <1>1, <2>1, <2>2, Zenon DEF KernelSync, LogStep, DriveMoves
<1>2. CASE KernelOpen(r, s)
  <2>1. \A p \in {"kprep", "kstart"}, b \in BOOLEAN :
          LET d == [k EXCEPT !.pc = p, !.kseq = Len(log[r]), !.restored = b]
          IN  d \in DriveRec /\ d.pc # "idle"
    BY <1>0 DEF DriveRec, DrivePCs, KernelPCs
  <2>2. Restored(r) \in BOOLEAN
    BY DEF Restored
  <2>3. DriveMoves(r, s)
    BY <1>0, <1>2, <2>1, <2>2, ThrownOK, Zenon DEF KernelOpen, DriveMoves
  <2>4. k.pc # "idle"
    BY <1>2 DEF KernelOpen
  <2> QED BY <2>3, <2>4, <1>2, Zenon DEF KernelOpen, LogStep
<1>3. CASE KernelStarted(r, s)
  BY <1>a, <1>3, KernelAppendShape DEF KernelStarted, KernelPCs
<1>4. CASE KernelPrepare(r, s)
  <2>1. \A p \in {"kresume", "kagent"}, n \in Nat :
          LET d == [k EXCEPT !.pc = p, !.kseq = n] IN d \in DriveRec /\ d.pc # "idle"
    BY <1>0 DEF DriveRec, DrivePCs, KernelPCs
  <2>2. k.kseq \in Nat
    BY <1>0 DEF DriveRec
  <2>3. DriveMoves(r, s)
    BY <1>0, <1>4, <2>1, <2>2, ThrownOK, Zenon DEF KernelPrepare, DriveMoves
  <2>4. k.pc # "idle"
    BY <1>4 DEF KernelPrepare
  <2> QED BY <2>3, <2>4, <1>4, Zenon DEF KernelPrepare, LogStep
<1>5. CASE KernelResumed(r, s)
  BY <1>a, <1>5, KernelAppendShape DEF KernelResumed, KernelPCs
<1>6. CASE KernelWork(r, s)
  BY <1>a, <1>6, KernelAppendShape DEF KernelWork, KernelPCs
<1>7. CASE KernelTool(r, s)
  BY <1>a, <1>7, KernelAppendShape DEF KernelTool, KernelPCs
<1>8. CASE GatewayDecide(r, s)
  <2>1. /\ [k EXCEPT !.pc = "ktool"] \in DriveRec
        /\ [k EXCEPT !.pc = "ktool"].pc # "idle"
    BY <1>0 DEF DriveRec, DrivePCs, KernelPCs
  <2>2. /\ [k EXCEPT !.pc = "kask", !.len = Len(log[r])] \in DriveRec
        /\ [k EXCEPT !.pc = "kask", !.len = Len(log[r])].pc # "idle"
    BY <1>0 DEF DriveRec, DrivePCs, KernelPCs
  <2>3. ApprovalRequired(k) \in DriveRec /\ ApprovalRequired(k).pc # "idle"
    BY <1>0 DEF ApprovalRequired, DriveRec, DrivePCs, KernelPCs
  <2>4. DriveMoves(r, s)
    BY <1>8, <2>1, <2>2, <2>3, Zenon DEF GatewayDecide, DriveMoves
  <2>5. k.pc # "idle"
    BY <1>8 DEF GatewayDecide
  <2> QED BY <2>4, <2>5, <1>8, Zenon DEF GatewayDecide, LogStep
<1>9. CASE GatewayAsk(r, s)
  <2>1. /\ [k EXCEPT !.pc = "ktool"] \in DriveRec
        /\ [k EXCEPT !.pc = "ktool"].pc # "idle"
    BY <1>0 DEF DriveRec, DrivePCs, KernelPCs
  <2>2. ApprovalRequired(k) \in DriveRec /\ ApprovalRequired(k).pc # "idle"
    BY <1>0 DEF ApprovalRequired, DriveRec, DrivePCs, KernelPCs
  <2>3. DriveMoves(r, s)
    BY <1>0, <1>9, <2>1, <2>2, ThrownOK, Zenon DEF GatewayAsk, DriveMoves
  <2>4. LogStep
    BY <1>a, <1>9, AcceptedStores, Zenon DEF GatewayAsk, LogStep
  <2>5. k.pc # "idle"
    BY <1>9 DEF GatewayAsk
  <2> QED BY <2>3, <2>4, <2>5, <1>9, Zenon DEF GatewayAsk
<1>10. CASE KernelToolEnd(r, s)
  BY <1>a, <1>10, KernelAppendShape DEF KernelToolEnd, KernelPCs
<1>11. CASE KernelFinish(r, s)
  <2>1. \A o \in KernelOutcomes(k) : o \in Outcomes
    BY DEF KernelOutcomes, Outcomes, FinalTypes, SuspendTypes
  <2>2. \A o \in Outcomes, p \in {"wread", "dread"} :
          LET d == [k EXCEPT !.pc = p, !.outcome = o] IN d \in DriveRec /\ d.pc # "idle"
    BY <1>0 DEF DriveRec, DrivePCs
  <2>3. DriveMoves(r, s)
    BY <1>0, <1>11, <2>1, <2>2, ThrownOK, Zenon DEF KernelFinish, DriveMoves
  <2>4. LogStep
    BY <1>a, <1>11, <2>1, AcceptedStores, Zenon DEF KernelFinish, LogStep, Outcomes
  <2>5. k.pc # "idle"
    BY <1>11 DEF KernelFinish, EndPCs
  <2> QED BY <2>3, <2>4, <2>5, <1>11, Zenon DEF KernelFinish
<1>12. CASE KernelContext(r, s)
  BY <1>a, <1>12, KernelAppendShape DEF KernelContext, KernelPCs
<1> QED BY <1>1, <1>2, <1>3, <1>4, <1>5, <1>6, <1>7, <1>8, <1>9, <1>10, <1>11, <1>12
        DEF KernelStep

(* The drive of one call ends, and its completion resolves.                 *)
DriveEnds(r, s) == \E o \in Outcomes \cup {"rejected"} : Complete(r, s, o)

(* After the attempt, a drive goes on or ends.                              *)
LEMMA DriveShape ==
  ASSUME TypeOK, NEW r \in Runs, NEW s \in Slots, DriveStep(r, s)
  PROVE  /\ drive[r][s].pc # "idle"
         /\ \/ DriveMoves(r, s) /\ UNCHANGED result
            \/ DriveEnds(r, s)
         /\ DriveUnchanged
         /\ LogStep
<1> DEFINE k == drive[r][s]
<1>0. k \in DriveRec /\ log[r] \in Seq(Event) /\ Len(log[r]) \in Nat
  BY DEF TypeOK, DriveOK, LogOK
<1>a. Outcomes \subseteq EventTypes /\ "failed" \in Outcomes /\ "eval" \in EventTypes
      /\ "kernel" \in Writers /\ "runtime" \in Writers
  BY DEF Outcomes, EventTypes, FinalTypes, OtherTypes, Writers
<1>b. \A p \in {"wterm", "dread"} : k.pc \in {"weval", "wterm"} =>
        [k EXCEPT !.pc = p] \in DriveRec /\ [k EXCEPT !.pc = p].pc # "idle"
  BY <1>0 DEF DriveRec, DrivePCs
<1>c. [k EXCEPT !.pc = "dcatch"] \in DriveRec /\ [k EXCEPT !.pc = "dcatch"].pc # "idle"
  BY <1>0 DEF DriveRec, DrivePCs
<1>1. CASE WrapperRead(r, s)
  <2>1. \A o \in Outcomes :
          LET d == [k EXCEPT !.pc = "weval", !.len = Len(log[r]), !.outcome = o]
          IN  d \in DriveRec /\ d.pc # "idle"
    BY <1>0 DEF DriveRec, DrivePCs
  <2>2. k.pc # "idle" /\ k.outcome \in Outcomes
    BY <1>0, <1>1 DEF WrapperRead, DriveRec
  <2>3. DriveMoves(r, s)
    BY <1>a, <1>1, <2>1, <2>2, Zenon DEF WrapperRead, DriveMoves
  <2> QED BY <2>2, <2>3, <1>1, Zenon DEF WrapperRead, LogStep, KernelUnchanged, DriveUnchanged
<1>2. CASE WrapperEval(r, s)
  <2>1. k.pc = "weval"
    BY <1>2 DEF WrapperEval, WrapperAppend
  <2>2. DriveMoves(r, s)
    BY <1>2, <1>b, <1>c, <2>1 DEF WrapperEval, WrapperAppend, DriveMoves
  <2>3. LogStep
    BY <1>a, <1>2, AcceptedStores, Zenon DEF WrapperEval, WrapperAppend, LogStep
  <2> QED BY <2>1, <2>2, <2>3, <1>2
          DEF WrapperEval, WrapperAppend, KernelUnchanged, DriveUnchanged
<1>3. CASE WrapperTerminal(r, s)
  <2>1. k.pc = "wterm" /\ k.outcome \in EventTypes
    BY <1>0, <1>a, <1>3 DEF WrapperTerminal, WrapperAppend, DriveRec
  <2>2. DriveMoves(r, s)
    BY <1>3, <1>b, <1>c, <2>1 DEF WrapperTerminal, WrapperAppend, DriveMoves
  <2>3. LogStep
    BY <1>a, <1>3, <2>1, AcceptedStores, Zenon DEF WrapperTerminal, WrapperAppend, LogStep
  <2> QED BY <2>1, <2>2, <2>3, <1>3
          DEF WrapperTerminal, WrapperAppend, KernelUnchanged, DriveUnchanged
<1>4. ASSUME NEW pc \in {"dread", "dcatch"}, NEW next \in {"dappend", "dfail"},
             pc = "dread" \/ next = "dfail", Look(r, s, pc, next)
      PROVE  /\ k.pc # "idle"
             /\ (DriveMoves(r, s) /\ UNCHANGED result) \/ DriveEnds(r, s)
             /\ DriveUnchanged
             /\ LogStep
  <2>1. k.pc # "idle" /\ (next = "dappend" => k.outcome \in Outcomes)
    BY <1>0, <1>4 DEF Look, DriveRec
  <2>2. CASE LastSettled(log[r]) /\ Complete(r, s, log[r][Len(log[r])].type)
    <3>1. log[r][Len(log[r])].type \in Outcomes
      BY <2>2 DEF LastSettled, IsSettled, Outcomes
    <3> QED BY <1>4, <2>1, <2>2, <3>1, Zenon DEF Look, DriveEnds, LogStep
  <2>3. CASE /\ SetDrive(r, s, [k EXCEPT !.pc = next, !.len = Len(log[r])])
             /\ UNCHANGED result
    <3>1. LET d == [k EXCEPT !.pc = next, !.len = Len(log[r])]
          IN  d \in DriveRec /\ d.pc # "idle"
      BY <1>0, <2>1 DEF DriveRec, DrivePCs
    <3> QED BY <1>4, <2>1, <2>3, <3>1, Zenon DEF Look, DriveMoves, LogStep
  <2> QED BY <1>4, <2>2, <2>3, Zenon DEF Look
<1>5. CASE DriveAppend(r, s)
  <2>1. k.pc # "idle" /\ k.outcome \in Outcomes
    BY <1>0, <1>5 DEF DriveAppend, DriveRec
  <2>2. LogStep
    BY <1>a, <1>5, <2>1, AcceptedStores, Zenon DEF DriveAppend, LogStep
  <2> QED BY <1>5, <1>c, <2>1, <2>2, Zenon DEF DriveAppend, DriveMoves, DriveEnds
<1>6. CASE DriveFail(r, s)
  <2>1. k.pc # "idle"
    BY <1>6 DEF DriveFail
  <2>2. LogStep
    BY <1>a, <1>6, AcceptedStores, Zenon DEF DriveFail, LogStep
  <2>3. DriveEnds(r, s)
    BY <1>6, <1>a DEF DriveFail, DriveEnds
  <2> QED BY <1>6, <2>1, <2>2, <2>3, Zenon DEF DriveFail
<1>7. CASE DriveRead(r, s)
  BY <1>4, <1>7 DEF DriveRead
<1>8. CASE DriveCatch(r, s)
  BY <1>4, <1>8 DEF DriveCatch
<1> QED BY <1>1, <1>2, <1>3, <1>5, <1>6, <1>7, <1>8 DEF DriveStep

(* start() and resume() move one call through begin(), and leave the drives *)
(* alone until the call launches its own.                                   *)
LEMMA BeginShape ==
  ASSUME TypeOK, NEW r \in Runs, NEW s \in Slots, BeginStep(r, s)
  PROVE  /\ begin[r][s].pc # "idle"
         /\ \E b \in BeginRec : SetBegin(r, s, b)
         /\ \/ UNCHANGED drive
            \/ /\ begin[r][s].pc = "launch" /\ DriveMoves(r, s)
               /\ SetBegin(r, s, IdleBegin)
         /\ UNCHANGED <<claimed, settle, approver, closing, result, used>>
         /\ LogStep
<1> DEFINE b == begin[r][s]
<1>0. b \in BeginRec
  BY DEF TypeOK, BeginOK
<1>a. IdleBegin \in BeginRec
  BY DEF IdleBegin, BeginRec, BeginPCs
<1>b. \A p \in BeginPCs : [b EXCEPT !.pc = p] \in BeginRec
  BY <1>0 DEF BeginRec
<1>c. {"ensure", "enqueue", "launch"} \subseteq BeginPCs
  BY DEF BeginPCs
<1>1. CASE BeginReturn(r, s)
  BY <1>a, <1>1 DEF BeginReturn, LogStep
<1>2. CASE BeginProceed(r, s)
  BY <1>b, <1>c, <1>2 DEF BeginProceed, LogStep
<1>3. CASE BeginEnsure(r, s)
  <2>1. \E x \in BeginRec : SetBegin(r, s, x)
    BY <1>b, <1>c, <1>3 DEF BeginEnsure
  <2> QED BY <2>1, <1>3 DEF BeginEnsure, LogStep
<1>4. CASE BeginEnqueue(r, s)
  <2>1. \E x \in BeginRec : SetBegin(r, s, x)
    BY <1>a, <1>b, <1>c, <1>4 DEF BeginEnqueue
  <2>2. "queued" \in EventTypes /\ "runtime" \in Writers
    BY DEF EventTypes, OtherTypes, Writers
  <2>3. LogStep
    BY <1>4, <2>2, AcceptedStores, Zenon DEF BeginEnqueue, LogStep
  <2> QED BY <2>1, <2>3, <1>4 DEF BeginEnqueue
<1>5. CASE BeginLaunch(r, s)
  <2>1. LET d == [IdleDrive EXCEPT !.pc = "kopen", !.mode = b.mode, !.aborted = b.aborted]
        IN  d \in DriveRec /\ d.pc # "idle"
    BY <1>0 DEF IdleDrive, DriveRec, BeginRec, DrivePCs, KernelPCs
  <2>2. UNCHANGED drive \/ DriveMoves(r, s)
    BY <1>5, <2>1 DEF BeginLaunch, DriveMoves, SetDrive
  <2>3. b.pc = "launch"
    BY <1>5 DEF BeginLaunch
  <2> QED BY <1>a, <1>5, <2>2, <2>3, Zenon DEF BeginLaunch, LogStep
<1> QED BY <1>1, <1>2, <1>3, <1>4, <1>5 DEF BeginStep

-----------------------------------------------------------------------------
(* Type correctness.                                                        *)

(* One event more is still a stream.                                        *)
LEMMA LogStepOK ==
  ASSUME LogOK, LogStep
  PROVE  LogOK'
<1>1. CASE UNCHANGED log
  BY <1>1 DEF LogOK
<1>2. ASSUME NEW r \in Runs, NEW t \in EventTypes, NEW w \in Writers, Store(r, t, w)
      PROVE  LogOK'
  <2>1. [type |-> t, by |-> w] \in Event
    BY DEF Event
  <2>2. Append(log[r], [type |-> t, by |-> w]) \in Seq(Event)
    BY <2>1 DEF LogOK
  <2> QED BY <1>2, <2>2 DEF LogOK, Store
<1> QED BY <1>1, <1>2 DEF LogStep

(* The drives keep their shape when one of them moves or ends.              *)
LEMMA DriveOKStep ==
  ASSUME DriveOK, NEW r \in Runs, NEW s \in Slots, NEW d \in DriveRec, SetDrive(r, s, d)
  PROVE  DriveOK'
<1>1. [drive[r] EXCEPT ![s] = d] \in [Slots -> DriveRec]
  BY DEF DriveOK
<1> QED BY <1>1 DEF DriveOK, SetDrive

LEMMA BeginOKStep ==
  ASSUME BeginOK, NEW r \in Runs, NEW s \in Slots, NEW b \in BeginRec, SetBegin(r, s, b)
  PROVE  BeginOK'
<1>1. [begin[r] EXCEPT ![s] = b] \in [Slots -> BeginRec]
  BY DEF BeginOK
<1> QED BY <1>1 DEF BeginOK, SetBegin

LEMMA IdleOK == IdleDrive \in DriveRec /\ IdleDrive.pc = "idle"
                /\ IdleBegin \in BeginRec /\ IdleBegin.pc = "idle"
BY DEF IdleDrive, DriveRec, IdleBegin, BeginRec, BeginPCs

(* An abort marks the calls in progress and moves none of them.             *)
LEMMA AbortedDrives ==
  ASSUME NEW calls \in [Slots -> DriveRec]
  PROVE  /\ Aborted(calls) \in [Slots -> DriveRec]
         /\ \A s \in Slots : Aborted(calls)[s].pc = calls[s].pc
<1>1. ASSUME NEW d \in DriveRec
      PROVE  [d EXCEPT !.aborted = TRUE] \in DriveRec /\ [d EXCEPT !.aborted = TRUE].pc = d.pc
  BY DEF DriveRec
<1> QED BY <1>1 DEF Aborted

LEMMA AbortedBegins ==
  ASSUME NEW calls \in [Slots -> BeginRec]
  PROVE  /\ Aborted(calls) \in [Slots -> BeginRec]
         /\ \A s \in Slots : Aborted(calls)[s].pc = calls[s].pc
<1>1. ASSUME NEW d \in BeginRec
      PROVE  [d EXCEPT !.aborted = TRUE] \in BeginRec /\ [d EXCEPT !.aborted = TRUE].pc = d.pc
  BY DEF BeginRec
<1> QED BY <1>1 DEF Aborted

SettleType ==
  settle \in [pc : {"boot", "scan", "read", "append", "done"},
              todo : SUBSET Runs, run : Runs, len : Nat]
ApproverType ==
  approver \in [Runs -> [pc : {"idle", "append"},
                         decision : {"approved", "denied"}, len : Nat]]
ResultType == result \in [Runs -> Outcomes \cup {"none", "rejected"}]
UsedType   == used \in [begins : Nat, crashes : Nat, answers : Nat, settles : Nat]

LEMMA TypeParts ==
  TypeOK <=> /\ claimed \subseteq Runs /\ LogOK /\ BeginOK /\ DriveOK
             /\ SettleType /\ ApproverType /\ closing \in BOOLEAN
             /\ ResultType /\ UsedType
BY DEF TypeOK, SettleType, ApproverType, ResultType, UsedType

LEMMA NewSettleOK == NewSettle \in [pc : {"boot", "scan", "read", "append", "done"},
                                    todo : SUBSET Runs, run : Runs, len : Nat]
<1>1. (CHOOSE r \in Runs : TRUE) \in Runs
  BY ConstantsAssumption DEF ConstantsAssumption
<1> QED BY <1>1 DEF NewSettle

(* The counters of calls stay numbers.                                      *)
LEMMA CountOK ==
  ASSUME UsedType, NEW f \in {"begins", "crashes", "answers", "settles"}, Count(f)
  PROVE  UsedType'
BY DEF UsedType, Count

(* The settlement, one call at a time.                                      *)
LEMMA SettleShape ==
  ASSUME TypeOK, SettleStep
  PROVE  SettleType' /\ UsedType' /\ LogStep /\ SettleUnchanged
<1> USE DEF SettleUnchanged
<1>0. SettleType /\ UsedType /\ LogOK
  BY TypeParts
<1>a. \A r \in Runs : Len(log[r]) \in Nat
  BY <1>0 DEF LogOK
<1>1. CASE SettleCall
  <2>1. SettleType'
    BY <1>0, <1>1 DEF SettleCall, SettleType, TypeOK
  <2>2. UsedType'
    <3>1. CASE Count("settles")
      BY <1>0, <3>1, CountOK
    <3>2. CASE UNCHANGED used
      BY <1>0, <3>2 DEF UsedType
    <3> QED BY <1>1, <3>1, <3>2 DEF SettleCall
  <2> QED BY <1>1, <2>1, <2>2 DEF SettleCall, LogStep
<1>2. ASSUME NEW r \in Runs, SettleCheck(r)
      PROVE  SettleType' /\ UsedType' /\ LogStep /\ SettleUnchanged
  <2>1. SettleType'
    BY <1>0, <1>2 DEF SettleCheck, SettleType
  <2> QED BY <1>0, <1>2, <2>1 DEF SettleCheck, LogStep, UsedType
<1>3. CASE SettleRead
  <2>1. SettleType'
    BY <1>0, <1>a, <1>3 DEF SettleRead, SettleType
  <2> QED BY <1>0, <1>3, <2>1 DEF SettleRead, LogStep, UsedType
<1>4. CASE SettleAppend
  <2>1. SettleType'
    BY <1>0, <1>4 DEF SettleAppend, SettleType
  <2>2. "failed" \in EventTypes /\ "settle" \in Writers /\ settle.run \in Runs
    BY <1>0 DEF EventTypes, FinalTypes, Writers, SettleType
  <2>3. LogStep
    BY <1>4, <2>2, AcceptedStores, Zenon DEF SettleAppend, LogStep
  <2> QED BY <1>0, <1>4, <2>1, <2>3 DEF SettleAppend, UsedType
<1>5. CASE SettleEnd
  <2>1. SettleType'
    BY <1>0, <1>5 DEF SettleEnd, SettleType
  <2> QED BY <1>0, <1>5, <2>1 DEF SettleEnd, LogStep, UsedType
<1> QED BY <1>1, <1>2, <1>3, <1>4, <1>5 DEF SettleStep

(* Answers, stop and close leave the streams and drives well-formed.        *)
LEMMA ClientShape ==
  ASSUME TypeOK, NEW r \in Runs, AnswerRead(r) \/ AnswerAppend(r)
  PROVE  /\ ApproverType' /\ UsedType' /\ LogStep
         /\ UNCHANGED <<claimed, begin, drive, settle, closing, result>>
<1>0. ApproverType /\ UsedType /\ LogOK
  BY TypeParts
<1>1. CASE AnswerRead(r)
  <2>1. PICK d \in {"approved", "denied"} :
          approver' = [approver EXCEPT ![r] =
            [pc |-> "append", decision |-> d, len |-> Len(log[r])]]
    BY <1>1 DEF AnswerRead
  <2>2. ApproverType'
    BY <1>0, <2>1 DEF ApproverType, LogOK
  <2>3. UsedType'
    BY <1>0, <1>1, CountOK DEF AnswerRead
  <2> QED BY <1>1, <2>2, <2>3 DEF AnswerRead, LogStep
<1>2. CASE AnswerAppend(r)
  <2>1. approver[r].decision \in EventTypes /\ "approver" \in Writers
    BY <1>0 DEF ApproverType, EventTypes, OtherTypes, Writers
  <2>2. LogStep
    BY <1>2, <2>1, AcceptedStores, Zenon DEF AnswerAppend, LogStep
  <2>3. ApproverType'
    BY <1>0, <1>2 DEF AnswerAppend, ApproverType, IdleApprover
  <2> QED BY <1>0, <1>2, <2>2, <2>3 DEF AnswerAppend, UsedType
<1> QED BY <1>1, <1>2

(* Every step of the system is a LogStep over well-formed drives.           *)
LEMMA TypeStep ==
  ASSUME TypeOK, [Next]_vars
  PROVE  TypeOK' /\ LogStep
<1>0. /\ claimed \subseteq Runs /\ LogOK /\ BeginOK /\ DriveOK
      /\ SettleType /\ ApproverType /\ closing \in BOOLEAN
      /\ ResultType /\ UsedType
  BY TypeParts
<1> DEFINE Goal == TypeOK' /\ LogStep
<1>log. ASSUME LogStep PROVE LogOK'
  BY <1>0, <1>log, LogStepOK
<1>1. ASSUME NEW r \in Runs, NEW s \in Slots, NEW mode \in {"start", "resume"},
             Begin(r, s, mode)
      PROVE  Goal
  <2>1. [IdleBegin EXCEPT !.pc = "get", !.mode = mode] \in BeginRec
    BY DEF IdleBegin, BeginRec, BeginPCs
  <2>2. BeginOK'
    BY <1>0, <1>1, <2>1, BeginOKStep DEF Begin
  <2>3. UsedType'
    BY <1>0, <1>1, CountOK DEF Begin
  <2> QED BY <1>0, <1>1, <2>2, <2>3 DEF Begin, LogStep, TypeOK, LogOK, DriveOK,
          SettleType, ApproverType, ResultType, UsedType
<1>2. ASSUME NEW r \in Runs, Stop(r) PROVE Goal
  <2>1. DriveOK'
    BY <1>0, <1>2, AbortedDrives DEF Stop, DriveOK
  <2> QED BY <1>0, <1>2, <2>1 DEF Stop, LogStep, TypeOK, LogOK, BeginOK,
          SettleType, ApproverType, ResultType, UsedType
<1>3. ASSUME NEW r \in Runs, AnswerRead(r) \/ AnswerAppend(r) PROVE Goal
  <2>1. /\ ApproverType' /\ UsedType' /\ LogStep
        /\ UNCHANGED <<claimed, begin, drive, settle, closing, result>>
    BY <1>3, ClientShape
  <2> QED BY <1>0, <1>log, <2>1 DEF TypeOK, BeginOK, DriveOK,
          SettleType, ApproverType, ResultType, UsedType
<1>4. ASSUME NEW r \in Runs, NEW s \in Slots, BeginStep(r, s) PROVE Goal
  <2>1. /\ \E b \in BeginRec : SetBegin(r, s, b)
        /\ UNCHANGED drive \/ DriveMoves(r, s)
        /\ UNCHANGED <<claimed, settle, approver, closing, result, used>>
        /\ LogStep
    BY <1>4, BeginShape
  <2>2. BeginOK'
    BY <1>0, <2>1, BeginOKStep
  <2>3. DriveOK'
    BY <1>0, <2>1, DriveOKStep DEF DriveMoves, DriveOK
  <2> QED BY <1>0, <1>log, <2>1, <2>2, <2>3 DEF TypeOK,
          SettleType, ApproverType, ResultType, UsedType
<1>5. ASSUME NEW r \in Runs, NEW s \in Slots, KernelStep(r, s) PROVE Goal
  <2>1. DriveMoves(r, s) /\ KernelUnchanged /\ LogStep
    BY <1>5, KernelShape
  <2>2. DriveOK'
    BY <1>0, <2>1, DriveOKStep DEF DriveMoves
  <2> QED BY <1>0, <1>log, <2>1, <2>2 DEF KernelUnchanged, TypeOK, BeginOK,
          SettleType, ApproverType, ResultType, UsedType
<1>6. ASSUME NEW r \in Runs, NEW s \in Slots, DriveStep(r, s) PROVE Goal
  <2>1. /\ (DriveMoves(r, s) /\ UNCHANGED result) \/ DriveEnds(r, s)
        /\ DriveUnchanged /\ LogStep
    BY <1>6, DriveShape
  <2>2. DriveOK'
    BY <1>0, <2>1, DriveOKStep, IdleOK DEF DriveMoves, DriveEnds, Complete
  <2>3. ResultType'
    BY <1>0, <2>1 DEF DriveEnds, Complete, ResultType
  <2> QED BY <1>0, <1>log, <2>1, <2>2, <2>3 DEF DriveUnchanged, TypeOK, BeginOK,
          SettleType, ApproverType, ResultType, UsedType
<1>7. CASE SettleStep
  <2>1. SettleType' /\ UsedType' /\ LogStep /\ SettleUnchanged
    BY <1>7, SettleShape
  <2> QED BY <1>0, <1>log, <2>1 DEF SettleUnchanged, TypeOK, BeginOK, DriveOK,
          SettleType, ApproverType, ResultType, UsedType
<1>8. CASE Close
  <2>1. BeginOK'
    BY <1>0, <1>8, AbortedBegins DEF Close, BeginOK
  <2>2. DriveOK'
    BY <1>0, <1>8, AbortedDrives DEF Close, DriveOK
  <2> QED BY <1>0, <1>8, <2>1, <2>2 DEF Close, LogStep, TypeOK, LogOK,
          SettleType, ApproverType, ResultType, UsedType
<1>9. CASE Crash
  <2>1. BeginOK' /\ DriveOK'
    BY <1>9, IdleOK DEF Crash, BeginOK, DriveOK
  <2>2. SettleType'
    BY <1>9, NewSettleOK DEF Crash, SettleType
  <2>3. ApproverType' /\ ResultType'
    BY <1>9 DEF Crash, ApproverType, IdleApprover, ResultType
  <2>4. UsedType'
    BY <1>0, <1>9, CountOK DEF Crash
  <2>5. claimed' \subseteq Runs /\ LogOK' /\ closing' \in BOOLEAN /\ LogStep
    BY <1>0, <1>9 DEF Crash, LogOK, LogStep
  <2> QED BY <2>1, <2>2, <2>3, <2>4, <2>5 DEF TypeOK,
          SettleType, ApproverType, ResultType, UsedType
<1>10. CASE UNCHANGED vars
  BY <1>0, <1>10 DEF vars, LogStep, TypeOK, LogOK, BeginOK, DriveOK,
     SettleType, ApproverType, ResultType, UsedType
<1> QED BY <1>1, <1>2, <1>3, <1>4, <1>5, <1>6, <1>7, <1>8, <1>9, <1>10 DEF Next, Client

LEMMA TypeInit == Init => TypeOK
<1> SUFFICES ASSUME Init PROVE TypeOK
  OBVIOUS
<1>1. BeginOK /\ DriveOK
  BY IdleOK DEF Init, BeginOK, DriveOK
<1>2. LogOK
  BY DEF Init, LogOK
<1>3. SettleType
  BY NewSettleOK DEF Init, SettleType
<1>4. ApproverType /\ ResultType /\ UsedType
  BY DEF Init, ApproverType, IdleApprover, ResultType, UsedType
<1> QED BY <1>1, <1>2, <1>3, <1>4, TypeParts DEF Init

(* Every variable of the run runtime keeps its shape, and a drive that has  *)
(* left the kernel knows its outcome.                                       *)
THEOREM TypeCorrect == Spec => []TypeOK
<1>1. Init => TypeOK
  BY TypeInit
<1>2. TypeOK /\ [Next]_vars => TypeOK'
  BY TypeStep
<1> QED BY <1>1, <1>2, PTL DEF Spec

-----------------------------------------------------------------------------
(* At most one terminal, and nothing after it.                              *)

(* An event after which there is none can be added only to a stream that    *)
(* has no terminal yet.                                                     *)
LEMMA FinalIsLastStep ==
  ASSUME LogOK, FinalIsLast, LogStep
  PROVE  FinalIsLast'
<1>1. CASE UNCHANGED log
  BY <1>1 DEF FinalIsLast
<1>2. ASSUME NEW r \in Runs, NEW t \in EventTypes, NEW w \in Writers,
             ~HasFinal(log[r]), Store(r, t, w)
      PROVE  FinalIsLast'
  <2> DEFINE e == [type |-> t, by |-> w]
  <2>1. log' = [log EXCEPT ![r] = Append(log[r], e)] /\ log[r] \in Seq(Event)
    BY <1>2 DEF Store, LogOK
  <2> SUFFICES ASSUME NEW q \in Runs, NEW i \in DOMAIN log'[q], IsFinal(log'[q][i])
               PROVE  i = Len(log'[q])
    BY DEF FinalIsLast
  <2>2. CASE q # r
    BY <2>1, <2>2 DEF FinalIsLast, LogOK
  <2>3. CASE q = r
    <3>1. log'[r] = Append(log[r], e) /\ e \in Event
      BY <2>1 DEF LogOK, Event
    <3>2. i \in 1..(Len(log[r]) + 1) /\ Len(log'[r]) = Len(log[r]) + 1
      BY <2>1, <2>3, <3>1
    <3>3. CASE i \in DOMAIN log[r]
      <4>1. log'[r][i] = log[r][i]
        BY <2>1, <3>1, <3>3
      <4> QED BY <1>2, <2>3, <3>3, <4>1 DEF HasFinal
    <3> QED BY <2>1, <2>3, <3>2, <3>3
  <2> QED BY <2>2, <2>3
<1> QED BY <1>1, <1>2 DEF LogStep

(* However the kernel, the wrapper, drive(), settleInterrupted() and an     *)
(* approval answer race for the end of a Run, its stream has one terminal,  *)
(* as the last event.                                                       *)
THEOREM TerminalIsLast == Spec => []FinalIsLast
<1>1. Init => TypeOK /\ FinalIsLast
  BY TypeInit DEF Init, FinalIsLast
<1>2. TypeOK /\ FinalIsLast /\ [Next]_vars => TypeOK' /\ FinalIsLast'
  BY TypeStep, FinalIsLastStep, TypeParts
<1> QED BY <1>1, <1>2, PTL DEF Spec

-----------------------------------------------------------------------------
(* One attempt at a time.                                                   *)

(* The invariant that makes SingleDrive inductive: at most one call of a    *)
(* Run is in begin(), and once it has found the Run free no drive is there  *)
(* until it launches its own.                                               *)
OneBegin ==
  \A r \in Runs : \A s, t \in Slots :
    begin[r][s].pc # "idle" /\ begin[r][t].pc # "idle" => s = t

CommittedAlone ==
  \A r \in Runs : \A s, t \in Slots :
    begin[r][s].pc \in {"ensure", "enqueue", "launch"} => drive[r][t].pc = "idle"

SingleInv == OneBegin /\ CommittedAlone /\ SingleDrive

(* A drive that moves or ends was there before.                             *)
LEMMA SameDrives ==
  ASSUME TypeOK, SingleInv, NEW r \in Runs, NEW s \in Slots, drive[r][s].pc # "idle",
         NEW d \in DriveRec, SetDrive(r, s, d), UNCHANGED begin
  PROVE  SingleInv'
<1>1. \A q \in Runs, t \in Slots : drive[q][t].pc = "idle" => drive'[q][t].pc = "idle"
  BY DEF SetDrive, TypeOK, DriveOK
<1>2. OneBegin'
  BY DEF SingleInv, OneBegin
<1>3. CommittedAlone'
  BY <1>1 DEF SingleInv, CommittedAlone
<1>4. SingleDrive'
  BY <1>1 DEF SingleInv, SingleDrive
<1> QED BY <1>2, <1>3, <1>4 DEF SingleInv

LEMMA SingleStep ==
  ASSUME TypeOK, SingleInv, [Next]_vars
  PROVE  SingleInv'
<1>0. BeginOK /\ DriveOK
  BY DEF TypeOK
<1>same. ASSUME UNCHANGED begin, UNCHANGED drive PROVE SingleInv'
  BY <1>same DEF SingleInv, OneBegin, CommittedAlone, SingleDrive
<1>1. ASSUME NEW r \in Runs, NEW s \in Slots, NEW mode \in {"start", "resume"},
             Begin(r, s, mode)
      PROVE  SingleInv'
  <2>1. \A t \in Slots : begin[r][t].pc = "idle"
    BY <1>1 DEF Begin, InFlight
  <2>2. /\ \A q \in Runs, t \in Slots : q # r \/ t # s => begin'[q][t] = begin[q][t]
        /\ begin'[r][s].pc = "get"
    BY <1>0, <1>1 DEF Begin, SetBegin, BeginOK, IdleBegin
  <2>3. UNCHANGED drive
    BY <1>1 DEF Begin
  <2>4. OneBegin'
    BY <2>1, <2>2 DEF SingleInv, OneBegin
  <2>5. CommittedAlone'
    <3> SUFFICES ASSUME NEW q \in Runs, NEW t \in Slots, NEW u \in Slots,
                        begin'[q][t].pc \in {"ensure", "enqueue", "launch"}
                 PROVE  drive'[q][u].pc = "idle"
      BY DEF CommittedAlone
    <3>1. q # r \/ t # s
      BY <2>2
    <3> QED BY <2>2, <2>3, <3>1 DEF SingleInv, CommittedAlone
  <2> QED BY <2>3, <2>4, <2>5 DEF SingleInv, SingleDrive
<1>2. ASSUME NEW r \in Runs, Stop(r) PROVE SingleInv'
  <2>1. \A q \in Runs, t \in Slots : drive'[q][t].pc = drive[q][t].pc
    BY <1>0, <1>2, AbortedDrives DEF Stop, DriveOK
  <2>2. UNCHANGED begin
    BY <1>2 DEF Stop
  <2> QED BY <2>1, <2>2 DEF SingleInv, OneBegin, CommittedAlone, SingleDrive
<1>3. ASSUME NEW r \in Runs, AnswerRead(r) \/ AnswerAppend(r) PROVE SingleInv'
  BY <1>3, <1>same, ClientShape
<1>4. ASSUME NEW r \in Runs, NEW s \in Slots, BeginStep(r, s) PROVE SingleInv'
  <2>1. PICK b \in BeginRec : SetBegin(r, s, b)
    BY <1>4, BeginShape
  <2>2. /\ \A q \in Runs, t \in Slots : q # r \/ t # s => begin'[q][t] = begin[q][t]
        /\ begin'[r][s] = b
    BY <1>0, <2>1 DEF SetBegin, BeginOK
  <2>3. begin[r][s].pc # "idle" /\ \A t \in Slots : t # s => begin[r][t].pc = "idle"
    BY <1>4, BeginShape DEF SingleInv, OneBegin
  <2>4. OneBegin'
    BY <2>2, <2>3 DEF SingleInv, OneBegin
  <2>5. CASE UNCHANGED drive
    <3>1. b.pc \in {"ensure", "enqueue", "launch"} => \A t \in Slots : drive[r][t].pc = "idle"
      <4>1. CASE BeginReturn(r, s)
        BY <1>0, <4>1, <2>2, IdleOK DEF BeginReturn, SetBegin, BeginOK
      <4>2. CASE BeginProceed(r, s)
        BY <4>2 DEF BeginProceed, MustNotDrive, Active
      <4>3. CASE begin[r][s].pc \in {"ensure", "enqueue", "launch"}
        BY <4>3 DEF SingleInv, CommittedAlone
      <4> QED BY <1>4, <4>1, <4>2, <4>3 DEF BeginStep, BeginEnsure, BeginEnqueue, BeginLaunch
    <3>2. CommittedAlone'
      BY <2>2, <2>5, <3>1 DEF SingleInv, CommittedAlone
    <3> QED BY <2>4, <2>5, <3>2 DEF SingleInv, SingleDrive
  <2>6. CASE begin[r][s].pc = "launch" /\ DriveMoves(r, s) /\ SetBegin(r, s, IdleBegin)
    <3>1. \A t \in Slots : drive[r][t].pc = "idle"
      BY <2>6 DEF SingleInv, CommittedAlone
    <3>2. \A q \in Runs, t \in Slots : q # r \/ t # s => drive'[q][t] = drive[q][t]
      BY <1>0, <2>6 DEF DriveMoves, SetDrive, DriveOK
    <3>3. \A t \in Slots : begin'[r][t].pc = "idle"
      BY <1>0, <2>2, <2>3, <2>6, IdleOK DEF SetBegin, BeginOK
    <3>4. CommittedAlone'
      BY <2>2, <3>2, <3>3 DEF SingleInv, CommittedAlone
    <3>5. SingleDrive'
      BY <3>1, <3>2 DEF SingleInv, SingleDrive
    <3> QED BY <2>4, <3>4, <3>5 DEF SingleInv
  <2> QED BY <1>4, <2>5, <2>6, BeginShape
<1>5. ASSUME NEW r \in Runs, NEW s \in Slots, KernelStep(r, s) PROVE SingleInv'
  BY <1>5, KernelShape, SameDrives DEF DriveMoves, KernelUnchanged
<1>6. ASSUME NEW r \in Runs, NEW s \in Slots, DriveStep(r, s) PROVE SingleInv'
  BY <1>6, DriveShape, SameDrives, IdleOK DEF DriveMoves, DriveEnds, Complete, DriveUnchanged
<1>7. CASE SettleStep
  BY <1>7, <1>same, SettleShape DEF SettleUnchanged
<1>8. CASE Close
  <2>1. \A q \in Runs, t \in Slots : /\ drive'[q][t].pc = drive[q][t].pc
                                    /\ begin'[q][t].pc = begin[q][t].pc
    BY <1>0, <1>8, AbortedDrives, AbortedBegins DEF Close, DriveOK, BeginOK
  <2> QED BY <2>1 DEF SingleInv, OneBegin, CommittedAlone, SingleDrive
<1>9. CASE Crash
  BY <1>9, IdleOK DEF Crash, SingleInv, OneBegin, CommittedAlone, SingleDrive
<1>10. CASE UNCHANGED vars
  BY <1>10, <1>same DEF vars
<1> QED BY <1>1, <1>2, <1>3, <1>4, <1>5, <1>6, <1>7, <1>8, <1>9, <1>10 DEF Next, Client

(* The inFlight and active maps never leave room for two kernel attempts on *)
(* one Run, whatever start, resume, stop, settlement and crashes do.        *)
THEOREM OneDrivePerRun == Spec => []SingleDrive
<1>1. Init => TypeOK /\ SingleInv
  BY TypeInit, IdleOK DEF Init, SingleInv, OneBegin, CommittedAlone, SingleDrive
<1>2. TypeOK /\ SingleInv /\ [Next]_vars => TypeOK' /\ SingleInv'
  BY TypeStep, SingleStep
<1>3. SingleInv => SingleDrive
  BY DEF SingleInv
<1> QED BY <1>1, <1>2, <1>3, PTL DEF Spec

-----------------------------------------------------------------------------
(* Who stores what.                                                         *)

(* The events the attempt and the drive of one call store, and when.        *)
MayStore(k, L, t) ==
  \/ k.pc = "kstart" /\ t = "started" /\ k.kseq = Len(L)
  \/ k.pc = "kprep" /\ t = "context"
  \/ k.pc = "kresume" /\ t = "resumed"
  \/ k.pc \in {"kagent", "ktool"} /\ t \in {"progress", "transcript", "tool"}
  \/ k.pc = "kask" /\ t = "approval_requested"
  \/ k.pc \in EndPCs /\ ~ContractEval /\ t \in Outcomes
  \/ k.pc = "weval" /\ t = "eval"
  \/ k.pc = "wterm" /\ t = k.outcome /\ Len(L) = k.len + 1
  \/ k.pc = "dappend" /\ t = k.outcome
  \/ k.pc = "dfail" /\ t = "failed"

(* A step of one call stores at most one event, of its own Run.             *)
CallWrites(r, s) ==
  \/ UNCHANGED log
  \/ \E t \in EventTypes, w \in Writers :
       ~HasFinal(log[r]) /\ MayStore(drive[r][s], log[r], t) /\ Store(r, t, w)

(* What start(), the settlement and an approver store, each at its own      *)
(* point.                                                                   *)
MayArrive(r, t) ==
  \/ t = "queued" /\ log[r] = << >> /\ \E s \in Slots : begin[r][s].pc = "enqueue"
  \/ t = "failed" /\ settle.pc = "append" /\ settle.run = r
  \/ t \in {"approved", "denied"} /\ approver[r].pc = "append"

OthersWrite ==
  \/ UNCHANGED log
  \/ \E r \in Runs, t \in EventTypes, w \in Writers :
       ~HasFinal(log[r]) /\ MayArrive(r, t) /\ Store(r, t, w)

CallSteps(r, s) == KernelStep(r, s) \/ DriveStep(r, s)

LEMMA KernelAppendWrites ==
  ASSUME NEW r \in Runs, NEW s \in Slots, NEW t \in EventTypes, NEW next,
         MayStore(drive[r][s], log[r], t) \/ drive[r][s].kseq # Len(log[r]),
         KernelAppend(r, s, t, next)
  PROVE  CallWrites(r, s)
<1>1. CASE Accepts(log[r], drive[r][s].kseq) /\ Store(r, t, "kernel")
  <2>1. MayStore(drive[r][s], log[r], t) /\ ~HasFinal(log[r]) /\ "kernel" \in Writers
    BY <1>1 DEF Accepts, Writers
  <2> QED BY <1>1, <2>1, Zenon DEF CallWrites
<1>2. CASE UNCHANGED log
  BY <1>2 DEF CallWrites
<1> QED BY <1>1, <1>2 DEF KernelAppend

(* An event of the call, once the stream accepted it.                       *)
LEMMA CallAccepted ==
  ASSUME NEW r \in Runs, NEW s \in Slots, NEW seq, NEW t \in EventTypes, NEW w \in Writers,
         Accepts(log[r], seq), MayStore(drive[r][s], log[r], t), Store(r, t, w)
  PROVE  CallWrites(r, s)
<1>1. ~HasFinal(log[r])
  BY DEF Accepts
<1> QED BY <1>1, Zenon DEF CallWrites

LEMMA KernelWrites ==
  ASSUME TypeOK, NEW r \in Runs, NEW s \in Slots, KernelStep(r, s)
  PROVE  CallWrites(r, s)
<1> DEFINE k == drive[r][s]
<1>a. /\ {"started", "resumed", "progress", "transcript", "tool"} \subseteq EventTypes
      /\ FinalTypes \cup SuspendTypes \subseteq EventTypes
      /\ "approval_requested" \in EventTypes /\ "context" \in EventTypes
      /\ "kernel" \in Writers /\ "gateway" \in Writers
  BY DEF EventTypes, RunningTypes, OtherTypes, Writers
<1>1. CASE UNCHANGED log
  BY <1>1 DEF CallWrites
<1>2. CASE KernelStarted(r, s)
  <2>1. MayStore(k, log[r], "started") \/ k.kseq # Len(log[r])
    BY <1>2 DEF KernelStarted, MayStore, EndPCs
  <2> QED BY <1>a, <1>2, <2>1, KernelAppendWrites DEF KernelStarted
<1>3. CASE KernelContext(r, s)
  <2>1. MayStore(k, log[r], "context")
    BY <1>3 DEF KernelContext, MayStore, EndPCs
  <2> QED BY <1>a, <1>3, <2>1, KernelAppendWrites DEF KernelContext
<1>4. CASE KernelResumed(r, s)
  <2>1. MayStore(k, log[r], "resumed")
    BY <1>4 DEF KernelResumed, MayStore, EndPCs
  <2> QED BY <1>a, <1>4, <2>1, KernelAppendWrites DEF KernelResumed
<1>5. CASE KernelWork(r, s)
  <2>1. PICK t \in {"progress", "transcript"} : KernelAppend(r, s, t, "kagent")
    BY <1>5 DEF KernelWork
  <2>2. MayStore(k, log[r], t)
    BY <1>5 DEF KernelWork, MayStore, EndPCs
  <2> QED BY <1>a, <2>1, <2>2, KernelAppendWrites
<1>6. CASE KernelTool(r, s)
  <2>1. MayStore(k, log[r], "tool")
    BY <1>6 DEF KernelTool, MayStore, EndPCs
  <2> QED BY <1>a, <1>6, <2>1, KernelAppendWrites DEF KernelTool
<1>7. CASE KernelToolEnd(r, s)
  <2>1. MayStore(k, log[r], "tool")
    BY <1>7 DEF KernelToolEnd, MayStore, EndPCs
  <2> QED BY <1>a, <1>7, <2>1, KernelAppendWrites DEF KernelToolEnd
<1>8. CASE GatewayAsk(r, s)
  <2>1. CASE Accepts(log[r], k.len) /\ Store(r, "approval_requested", "gateway")
    <3>1. MayStore(k, log[r], "approval_requested")
      BY <1>8 DEF GatewayAsk, MayStore, EndPCs
    <3> QED BY <1>a, <2>1, <3>1, CallAccepted
  <2> QED BY <1>1, <1>8, <2>1 DEF GatewayAsk
<1>9. CASE KernelFinish(r, s)
  <2>1. PICK o \in KernelOutcomes(k) :
          UNCHANGED log \/ (~ContractEval /\ Accepts(log[r], k.kseq) /\ Store(r, o, "kernel"))
    BY <1>9 DEF KernelFinish
  <2>2. o \in Outcomes /\ o \in EventTypes
    BY <1>a DEF KernelOutcomes, Outcomes, FinalTypes, SuspendTypes
  <2>3. CASE ~ContractEval /\ Accepts(log[r], k.kseq) /\ Store(r, o, "kernel")
    <3>1. MayStore(k, log[r], o)
      BY <1>9, <2>2, <2>3 DEF KernelFinish, MayStore, EndPCs
    <3> QED BY <1>a, <2>2, <2>3, <3>1, CallAccepted
  <2> QED BY <1>1, <2>1, <2>3
<1> QED BY <1>1, <1>2, <1>3, <1>4, <1>5, <1>6, <1>7, <1>8, <1>9
        DEF KernelStep, KernelSync, KernelOpen, KernelPrepare, GatewayDecide

LEMMA DriveWrites ==
  ASSUME TypeOK, NEW r \in Runs, NEW s \in Slots, DriveStep(r, s)
  PROVE  CallWrites(r, s)
<1> DEFINE k == drive[r][s]
<1>0. k \in DriveRec
  BY DEF TypeOK, DriveOK
<1>a. Outcomes \subseteq EventTypes /\ "failed" \in EventTypes /\ "eval" \in EventTypes
      /\ "kernel" \in Writers /\ "runtime" \in Writers
  BY DEF Outcomes, EventTypes, FinalTypes, OtherTypes, Writers
<1>1. CASE UNCHANGED log
  BY <1>1 DEF CallWrites
<1>2. CASE WrapperEval(r, s)
  <2>1. MayStore(k, log[r], "eval")
    BY <1>2 DEF WrapperEval, WrapperAppend, MayStore, EndPCs
  <2> QED BY <1>a, <1>1, <1>2, <2>1, CallAccepted DEF WrapperEval, WrapperAppend
<1>3. CASE WrapperTerminal(r, s)
  <2>1. k.pc = "wterm" /\ k.outcome \in EventTypes
    BY <1>0, <1>a, <1>3 DEF WrapperTerminal, WrapperAppend, DriveRec
  <2>2. Accepts(log[r], k.len + 1) => MayStore(k, log[r], k.outcome)
    BY <2>1 DEF Accepts, MayStore, EndPCs
  <2> QED BY <1>a, <1>1, <1>3, <2>1, <2>2, CallAccepted DEF WrapperTerminal, WrapperAppend
<1>4. CASE DriveAppend(r, s)
  <2>1. k.outcome \in EventTypes
    BY <1>0, <1>a, <1>4 DEF DriveAppend, DriveRec
  <2>2. MayStore(k, log[r], k.outcome)
    BY <1>4 DEF DriveAppend, MayStore, EndPCs
  <2> QED BY <1>a, <1>1, <1>4, <2>1, <2>2, CallAccepted DEF DriveAppend
<1>5. CASE DriveFail(r, s)
  <2>1. MayStore(k, log[r], "failed")
    BY <1>5 DEF DriveFail, MayStore, EndPCs
  <2> QED BY <1>a, <1>1, <1>5, <2>1, CallAccepted DEF DriveFail
<1> QED BY <1>1, <1>2, <1>3, <1>4, <1>5
        DEF DriveStep, WrapperRead, DriveRead, DriveCatch, Look

(* An event of the others, once the stream accepted it.                     *)
LEMMA OthersAccepted ==
  ASSUME NEW r \in Runs, NEW seq, NEW t \in EventTypes, NEW w \in Writers,
         Accepts(log[r], seq), MayArrive(r, t), Store(r, t, w)
  PROVE  OthersWrite
<1>1. ~HasFinal(log[r])
  BY DEF Accepts
<1> QED BY <1>1, Zenon DEF OthersWrite

(* Every event is stored by a component that was about to store it, on a    *)
(* stream without a terminal.                                               *)
LEMMA StepWrites ==
  ASSUME TypeOK, [Next]_vars
  PROVE  \/ OthersWrite
         \/ \E r \in Runs, s \in Slots : CallSteps(r, s) /\ CallWrites(r, s)
<1>1. ASSUME UNCHANGED log PROVE OthersWrite
  BY <1>1 DEF OthersWrite
<1>2. ASSUME NEW r \in Runs, Client(r) PROVE OthersWrite
  <2>1. ASSUME AnswerAppend(r) PROVE OthersWrite
    <3>1. /\ approver[r].decision \in {"approved", "denied"} /\ "approver" \in Writers
          /\ {"approved", "denied"} \subseteq EventTypes
      BY TypeParts DEF ApproverType, EventTypes, OtherTypes, Writers
    <3>2. MayArrive(r, approver[r].decision)
      BY <2>1, <3>1 DEF AnswerAppend, MayArrive
    <3>3. ASSUME Accepts(log[r], approver[r].len) PROVE OthersWrite
      BY <2>1, <3>1, <3>2, <3>3, OthersAccepted DEF AnswerAppend
    <3> QED BY <1>1, <2>1, <3>3 DEF AnswerAppend
  <2> QED BY <1>1, <1>2, <2>1 DEF Client, Begin, Stop, AnswerRead
<1>3. ASSUME NEW r \in Runs, NEW s \in Slots, BeginStep(r, s) PROVE OthersWrite
  <2>1. ASSUME Accepts(log[r], 0), Store(r, "queued", "runtime"), begin[r][s].pc = "enqueue"
        PROVE  OthersWrite
    <3>1. log[r] = << >>
      BY <2>1, TypeParts DEF Accepts, LogOK
    <3>2. MayArrive(r, "queued")
      BY <2>1, <3>1 DEF MayArrive
    <3>3. "queued" \in EventTypes /\ "runtime" \in Writers
      BY DEF EventTypes, OtherTypes, Writers
    <3> QED BY <2>1, <3>2, <3>3, OthersAccepted
  <2> QED BY <1>1, <1>3, <2>1
          DEF BeginStep, BeginReturn, BeginProceed, BeginEnsure, BeginEnqueue, BeginLaunch
<1>4. ASSUME SettleAppend PROVE OthersWrite
  <2>1. settle.run \in Runs /\ "failed" \in EventTypes /\ "settle" \in Writers
    BY TypeParts DEF SettleType, EventTypes, FinalTypes, Writers
  <2>2. MayArrive(settle.run, "failed")
    BY <1>4 DEF SettleAppend, MayArrive
  <2>3. ASSUME Accepts(log[settle.run], settle.len) PROVE OthersWrite
    BY <1>4, <2>1, <2>2, <2>3, OthersAccepted DEF SettleAppend
  <2> QED BY <1>1, <1>4, <2>3 DEF SettleAppend
<1>5. ASSUME SettleStep PROVE OthersWrite
  BY <1>1, <1>4, <1>5 DEF SettleStep, SettleCall, SettleCheck, SettleRead, SettleEnd
<1>6. ASSUME NEW r \in Runs, NEW s \in Slots, CallSteps(r, s) PROVE CallWrites(r, s)
  BY <1>6, KernelWrites, DriveWrites DEF CallSteps
<1> QED BY <1>1, <1>2, <1>3, <1>5, <1>6 DEF Next, Close, Crash, CallSteps, vars


-----------------------------------------------------------------------------
(* How streams grow and drives change.                                      *)

(* A stream M continues the stream L.                                       *)
Continues(M, L) ==
  /\ L \in Seq(Event) /\ M \in Seq(Event)
  /\ Len(L) <= Len(M) /\ \A i \in 1..Len(L) : M[i] = L[i]

(* No step takes an event away, or changes one.                             *)
LEMMA LogsGrow ==
  ASSUME TypeOK, [Next]_vars, NEW r \in Runs
  PROVE  Continues(log'[r], log[r])
<1>0. log[r] \in Seq(Event) /\ log'[r] \in Seq(Event)
  BY TypeStep DEF TypeOK, LogOK
<1>1. LogStep
  BY TypeStep
<1>2. CASE UNCHANGED log
  BY <1>0, <1>2 DEF Continues
<1>3. ASSUME NEW q \in Runs, NEW t \in EventTypes, NEW w \in Writers, Store(q, t, w)
      PROVE  Continues(log'[r], log[r])
  <2> DEFINE e == [type |-> t, by |-> w]
  <2>1. e \in Event
    BY DEF Event
  <2>2. CASE q = r
    <3>1. log'[r] = Append(log[r], e)
      BY <1>3, <2>2, TypeParts DEF Store, LogOK
    <3> HIDE DEF e
    <3> QED BY <1>0, <2>1, <3>1 DEF Continues
  <2>3. CASE q # r
    <3>1. log'[r] = log[r]
      BY <1>3, <2>3, TypeParts DEF Store, LogOK
    <3> QED BY <1>0, <3>1 DEF Continues
  <2> QED BY <2>2, <2>3
<1> QED BY <1>1, <1>2, <1>3 DEF LogStep

(* What a stream has, its continuations have.                               *)
LEMMA HasTypeKept ==
  ASSUME NEW L, NEW M, Continues(M, L), NEW t, HasType(L, t)
  PROVE  HasType(M, t)
<1>1. PICK i \in 1..Len(L) : L[i].type = t
  BY DEF HasType, Continues
<1>2. i \in DOMAIN M /\ M[i].type = t
  BY <1>1 DEF Continues
<1> QED BY <1>2 DEF HasType

LEMMA HasFinalKept ==
  ASSUME NEW L, NEW M, Continues(M, L), HasFinal(L)
  PROVE  HasFinal(M)
<1>1. PICK i \in 1..Len(L) : IsFinal(L[i])
  BY DEF HasFinal, Continues
<1>2. i \in DOMAIN M /\ IsFinal(M[i])
  BY <1>1 DEF Continues
<1> QED BY <1>2 DEF HasFinal

LEMMA SetDriveIs ==
  ASSUME DriveOK, NEW r \in Runs, NEW s \in Slots, NEW d, SetDrive(r, s, d)
  PROVE  /\ drive'[r][s] = d
         /\ \A q \in Runs, t \in Slots : q # r \/ t # s => drive'[q][t] = drive[q][t]
BY DEF DriveOK, SetDrive

LEMMA SetBeginIs ==
  ASSUME BeginOK, NEW r \in Runs, NEW s \in Slots, NEW b, SetBegin(r, s, b)
  PROVE  /\ begin'[r][s] = b
         /\ \A q \in Runs, t \in Slots : q # r \/ t # s => begin'[q][t] = begin[q][t]
BY DEF BeginOK, SetBegin

Launched(b) == [IdleDrive EXCEPT !.pc = "kopen", !.mode = b.mode, !.aborted = b.aborted]

(* A drive is launched, takes a step of its own, is aborted or is gone with *)
(* its process; nothing else touches it.                                    *)
DriveChange(r, s) ==
  \/ drive'[r][s] = drive[r][s]
  \/ drive'[r][s] = [drive[r][s] EXCEPT !.aborted = TRUE]
  \/ drive'[r][s] = IdleDrive /\ Crash
  \/ drive'[r][s] = Launched(begin[r][s]) /\ BeginLaunch(r, s)
  \/ KernelStep(r, s) \/ DriveStep(r, s)

LEMMA DriveChanges ==
  ASSUME TypeOK, [Next]_vars, NEW r \in Runs, NEW s \in Slots
  PROVE  DriveChange(r, s)
<1>0. DriveOK
  BY TypeParts
<1>1. CASE UNCHANGED drive
  BY <1>1 DEF DriveChange
<1>2. ASSUME NEW q \in Runs, Stop(q) PROVE DriveChange(r, s)
  BY <1>0, <1>2 DEF Stop, DriveOK, Aborted, DriveChange
<1>3. ASSUME NEW q \in Runs, NEW t \in Slots, BeginStep(q, t) PROVE DriveChange(r, s)
  <2>1. CASE BeginLaunch(q, t) /\ SetDrive(q, t, Launched(begin[q][t]))
    BY <1>0, <2>1, SetDriveIs DEF DriveChange
  <2>2. BeginLaunch(q, t) => UNCHANGED drive \/ SetDrive(q, t, Launched(begin[q][t]))
    BY DEF BeginLaunch, SetDrive, Launched
  <2> QED BY <1>1, <1>3, <2>1, <2>2
          DEF BeginStep, BeginReturn, BeginProceed, BeginEnsure, BeginEnqueue
<1>4. ASSUME NEW q \in Runs, NEW t \in Slots, KernelStep(q, t) PROVE DriveChange(r, s)
  <2>1. CASE q = r /\ t = s
    BY <1>4, <2>1 DEF DriveChange
  <2>2. CASE q # r \/ t # s
    BY <1>0, <1>4, <2>2, KernelShape, SetDriveIs DEF DriveMoves, DriveChange
  <2> QED BY <2>1, <2>2
<1>5. ASSUME NEW q \in Runs, NEW t \in Slots, DriveStep(q, t) PROVE DriveChange(r, s)
  <2>1. CASE q = r /\ t = s
    BY <1>5, <2>1 DEF DriveChange
  <2>2. CASE q # r \/ t # s
    BY <1>0, <1>5, <2>2, DriveShape, SetDriveIs DEF DriveMoves, DriveEnds, Complete, DriveChange
  <2> QED BY <2>1, <2>2
<1>6. CASE Close
  BY <1>0, <1>6 DEF Close, DriveOK, Aborted, DriveChange
<1>7. CASE Crash
  BY <1>7 DEF Crash, DriveChange
<1>8. CASE SettleStep
  BY <1>1, <1>8, SettleShape DEF SettleUnchanged
<1> QED BY <1>1, <1>2, <1>3, <1>4, <1>5, <1>6, <1>7, <1>8
        DEF Next, Client, Begin, AnswerRead, AnswerAppend, vars


-----------------------------------------------------------------------------
(* What a drive knows of the stream it writes to.                           *)

StartedWithin(L, n) == \E j \in 1..n : L[j].type = "started"

(* It is about to store run.started only over a history without one.        *)
KnowsUnstarted(k, L) ==
  k.pc = "kstart" => k.kseq \in 0..Len(L) /\ ~StartedWithin(L, k.kseq)

(* Past that point the Run has started, and an attempt that ended without   *)
(* an error had started it.                                                 *)
Working == {"kprep", "kresume", "kagent", "kgate", "kask", "ktool"}
Ended   == {"wread", "weval", "wterm", "dread", "dappend"}

KnowsStarted(k, L) ==
  /\ k.pc \in Working => HasType(L, "started")
  /\ k.pc \in Ended => k.outcome = "failed" \/ HasType(L, "started")

(* The wrapper keeps its verdict on what it read, stores it, and then the   *)
(* terminal at the next sequence.                                           *)
KnowsVerdict(k, L) ==
  /\ k.pc \in {"weval", "wterm"} /\ k.outcome = "completed" =>
       k.len \in 0..Len(L) /\ StartedWithin(L, k.len)
  /\ k.pc = "wterm" => k.len + 1 \in 1..Len(L) /\ L[k.len + 1].type = "eval"

(* drive() gets the outcome of a wrapped kernel once it is stored.          *)
KnowsStored(k, L) ==
  ContractEval /\ k.pc \in {"dread", "dappend"} /\ k.outcome = "completed" => HasFinal(L)

DriveKnows(k, L) ==
  KnowsUnstarted(k, L) /\ KnowsStarted(k, L) /\ KnowsVerdict(k, L) /\ KnowsStored(k, L)

KnowsInv == \A r \in Runs, s \in Slots : DriveKnows(drive[r][s], log[r])

(* What it knows stays true while others store events.                      *)
LEMMA KnowsKept ==
  ASSUME NEW k \in DriveRec, NEW L, NEW M, Continues(M, L), DriveKnows(k, L)
  PROVE  DriveKnows(k, M)
<1>0. k.kseq \in Nat /\ k.len \in Nat /\ Len(L) \in Nat /\ Len(M) \in Nat
  BY DEF DriveRec, Continues
<1>1. KnowsUnstarted(k, M)
  BY <1>0 DEF DriveKnows, KnowsUnstarted, StartedWithin, Continues
<1>2. KnowsStarted(k, M)
  BY HasTypeKept DEF DriveKnows, KnowsStarted
<1>3. KnowsVerdict(k, M)
  BY <1>0 DEF DriveKnows, KnowsVerdict, StartedWithin, Continues
<1>4. KnowsStored(k, M)
  BY HasFinalKept DEF DriveKnows, KnowsStored
<1> QED BY <1>1, <1>2, <1>3, <1>4 DEF DriveKnows

(* A drive outside those points knows nothing.                              *)
LEMMA KnowsNothing ==
  ASSUME NEW k, NEW L,
         k.pc \in {"idle", "kopen", "dcatch", "dfail"}
           \/ (k.outcome = "failed" /\ k.pc \in {"wread", "weval", "dread", "dappend"})
  PROVE  DriveKnows(k, L)
BY DEF DriveKnows, KnowsUnstarted, KnowsStarted, KnowsVerdict, KnowsStored, Working, Ended

LEMMA ThrownKnows ==
  ASSUME NEW k \in DriveRec, NEW L
  PROVE  DriveKnows(Thrown(k), L)
<1>1. Thrown(k).pc \in {"wread", "dcatch"} /\ Thrown(k).outcome = "failed"
  BY DEF Thrown, DriveRec
<1> HIDE DEF Thrown
<1> QED BY <1>1, KnowsNothing

(* An attempt at work knows that its Run has started, and no more.          *)
LEMMA WorkKnows ==
  ASSUME NEW k, NEW L, k.pc \in Working, HasType(L, "started")
  PROVE  DriveKnows(k, L)
BY DEF DriveKnows, KnowsUnstarted, KnowsStarted, KnowsVerdict, KnowsStored, Working, Ended

LEMMA AppendIs ==
  ASSUME LogOK, NEW r \in Runs, NEW t, NEW w, Store(r, t, w)
  PROVE  log'[r] = Append(log[r], [type |-> t, by |-> w])
BY DEF Store, LogOK

LEMMA KernelAppendKnows ==
  ASSUME TypeOK, NEW r \in Runs, NEW s \in Slots, NEW t \in EventTypes, NEW next \in Working,
         t = "started" \/ HasType(log[r], "started"), Continues(log'[r], log[r]),
         KernelAppend(r, s, t, next)
  PROVE  DriveKnows(drive'[r][s], log'[r])
<1> DEFINE k == drive[r][s]
           d == [k EXCEPT !.pc = next, !.kseq = @ + 1, !.synced = FALSE]
<1>0. k \in DriveRec /\ DriveOK /\ LogOK
  BY DEF TypeOK, DriveOK
<1>1. CASE Store(r, t, "kernel") /\ SetDrive(r, s, d)
  <2>1. d.pc = next
    BY <1>0 DEF DriveRec
  <2>2. drive'[r][s] = d
    <3> HIDE DEF d
    <3> QED BY <1>0, <1>1, SetDriveIs
  <2>3. HasType(log'[r], "started")
    <3>1. CASE t = "started"
      <4> DEFINE e == [type |-> t, by |-> "kernel"]
      <4>1. log'[r] = Append(log[r], e) /\ e.type = "started" /\ log[r] \in Seq(Event)
        BY <1>0, <1>1, <3>1, AppendIs DEF LogOK
      <4>2. e \in Event
        BY DEF Event, Writers
      <4> HIDE DEF e
      <4>3. Len(log[r]) + 1 \in DOMAIN log'[r] /\ log'[r][Len(log[r]) + 1] = e
        BY <4>1, <4>2
      <4> QED BY <4>1, <4>3 DEF HasType
    <3>2. CASE HasType(log[r], "started")
      BY <3>2, HasTypeKept
    <3> QED BY <3>1, <3>2
  <2> QED BY <2>1, <2>2, <2>3, WorkKnows
<1>2. CASE SetDrive(r, s, Thrown(k))
  <2>1. drive'[r][s] = Thrown(k)
    BY <1>0, <1>2, SetDriveIs
  <2> QED BY <1>0, <2>1, ThrownKnows
<1> QED BY <1>1, <1>2 DEF KernelAppend

LEMMA KernelKnows ==
  ASSUME TypeOK, NEW r \in Runs, NEW s \in Slots, KernelStep(r, s),
         DriveKnows(drive[r][s], log[r]), Continues(log'[r], log[r])
  PROVE  DriveKnows(drive'[r][s], log'[r])
<1> DEFINE k == drive[r][s]
<1>0. k \in DriveRec /\ DriveOK /\ LogOK
  BY DEF TypeOK, DriveOK
<1>a. {"started", "resumed", "progress", "transcript", "tool", "context"} \subseteq EventTypes
  BY DEF EventTypes, RunningTypes, OtherTypes
<1>b. k.pc \in Working => HasType(log[r], "started") /\ HasType(log'[r], "started")
  BY HasTypeKept DEF DriveKnows, KnowsStarted
<1>set. ASSUME NEW d, SetDrive(r, s, d) PROVE drive'[r][s] = d
  BY <1>0, <1>set, SetDriveIs
<1>thrown. ASSUME SetDrive(r, s, Thrown(k)) PROVE DriveKnows(drive'[r][s], log'[r])
  BY <1>0, <1>thrown, <1>set, ThrownKnows
<1>work. ASSUME NEW d, SetDrive(r, s, d), k.pc \in Working, d.pc \in Working
         PROVE  DriveKnows(drive'[r][s], log'[r])
  BY <1>work, <1>set, <1>b, WorkKnows
<1>1. CASE KernelSync(r, s)
  <2> DEFINE d == [k EXCEPT !.kseq = Len(log[r]), !.synced = TRUE]
  <2>1. k.pc \in Working /\ d.pc = k.pc
    BY <1>0, <1>1 DEF KernelSync, SyncedPCs, Working, DriveRec
  <2>2. SetDrive(r, s, d)
    BY <1>1 DEF KernelSync
  <2> HIDE DEF d
  <2> QED BY <2>1, <2>2, <1>work
<1>2. CASE KernelOpen(r, s)
  <2> DEFINE d == [k EXCEPT !.pc = IF HasType(log[r], "started") THEN "kprep" ELSE "kstart",
                            !.kseq = Len(log[r]), !.restored = Restored(r)]
  <2>1. CASE SetDrive(r, s, d) /\ UNCHANGED log
    <3>1. /\ d.pc = IF HasType(log[r], "started") THEN "kprep" ELSE "kstart"
          /\ d.kseq = Len(log[r])
      BY <1>0 DEF DriveRec
    <3> HIDE DEF d
    <3>2. drive'[r][s] = d /\ log'[r] = log[r]
      BY <2>1, <1>set
    <3>3. CASE HasType(log[r], "started")
      BY <3>1, <3>2, <3>3, WorkKnows DEF Working
    <3>4. CASE ~HasType(log[r], "started")
      <4>1. ~StartedWithin(log[r], Len(log[r])) /\ Len(log[r]) \in Nat
        BY <1>0, <3>4 DEF StartedWithin, HasType, LogOK
      <4> QED BY <3>1, <3>2, <3>4, <4>1 DEF DriveKnows, KnowsUnstarted, KnowsStarted,
              KnowsVerdict, KnowsStored, Working, Ended
    <3> QED BY <3>3, <3>4
  <2> QED BY <1>2, <2>1, <1>thrown DEF KernelOpen
<1>3. CASE KernelStarted(r, s)
  BY <1>a, <1>3, KernelAppendKnows DEF KernelStarted, Working
<1>4. CASE KernelContext(r, s)
  BY <1>a, <1>b, <1>4, KernelAppendKnows DEF KernelContext, Working
<1>5. CASE KernelPrepare(r, s)
  <2>1. ASSUME NEW n, SetDrive(r, s, [k EXCEPT !.pc = IF k.restored THEN "kresume" ELSE "kagent",
                                               !.kseq = n])
        PROVE  DriveKnows(drive'[r][s], log'[r])
    <3> DEFINE d == [k EXCEPT !.pc = IF k.restored THEN "kresume" ELSE "kagent", !.kseq = n]
    <3>1. d.pc \in Working /\ k.pc \in Working
      BY <1>0, <1>5 DEF DriveRec, Working, KernelPrepare
    <3> HIDE DEF d
    <3> QED BY <2>1, <3>1, <1>work DEF d
  <2> QED BY <1>5, <2>1, <1>thrown DEF KernelPrepare
<1>6. CASE KernelResumed(r, s)
  BY <1>a, <1>b, <1>6, KernelAppendKnows DEF KernelResumed, Working
<1>7. CASE KernelWork(r, s)
  BY <1>a, <1>b, <1>7, KernelAppendKnows DEF KernelWork, Working
<1>8. CASE KernelTool(r, s)
  BY <1>a, <1>b, <1>8, KernelAppendKnows DEF KernelTool, Working
<1>tool. /\ [k EXCEPT !.pc = "ktool"].pc = "ktool" /\ ApprovalRequired(k).pc = "ktool"
         /\ [k EXCEPT !.pc = "kask", !.len = Len(log[r])].pc = "kask"
  BY <1>0 DEF DriveRec, ApprovalRequired
<1>9. CASE GatewayDecide(r, s)
  <2>1. \E d \in {[k EXCEPT !.pc = "ktool"], ApprovalRequired(k),
                  [k EXCEPT !.pc = "kask", !.len = Len(log[r])]} : SetDrive(r, s, d)
    BY <1>9 DEF GatewayDecide
  <2> QED BY <1>9, <1>tool, <2>1, <1>work DEF GatewayDecide, Working
<1>10. CASE GatewayAsk(r, s)
  <2>1. \E d \in {[k EXCEPT !.pc = "ktool"], ApprovalRequired(k), Thrown(k)} : SetDrive(r, s, d)
    BY <1>10 DEF GatewayAsk
  <2> QED BY <1>10, <1>tool, <2>1, <1>work, <1>thrown DEF GatewayAsk, Working
<1>11. CASE KernelToolEnd(r, s)
  BY <1>a, <1>b, <1>11, KernelAppendKnows DEF KernelToolEnd, Working
<1>12. CASE KernelFinish(r, s)
  <2>1. k.pc \in Working
    BY <1>12 DEF KernelFinish, EndPCs, Working
  <2>2. PICK o \in KernelOutcomes(k) :
          \/ ContractEval /\ SetDrive(r, s, [k EXCEPT !.pc = "wread", !.outcome = o])
          \/ ~ContractEval /\ SetDrive(r, s, [k EXCEPT !.pc = "dread", !.outcome = o])
          \/ SetDrive(r, s, Thrown(k))
    BY <1>12 DEF KernelFinish
  <2>3. ASSUME NEW p \in {"wread", "dread"}, p = "dread" => ~ContractEval,
               SetDrive(r, s, [k EXCEPT !.pc = p, !.outcome = o])
        PROVE  DriveKnows(drive'[r][s], log'[r])
    <3> DEFINE d == [k EXCEPT !.pc = p, !.outcome = o]
    <3>1. d.pc = p
      BY <1>0 DEF DriveRec
    <3>2. drive'[r][s] = d
      BY <2>3, <1>set
    <3> HIDE DEF d
    <3> QED BY <1>b, <2>1, <2>3, <3>1, <3>2 DEF DriveKnows, KnowsUnstarted, KnowsStarted,
            KnowsVerdict, KnowsStored, Working, Ended
  <2> QED BY <2>2, <2>3, <1>thrown
<1> QED BY <1>1, <1>2, <1>3, <1>4, <1>5, <1>6, <1>7, <1>8, <1>9, <1>10, <1>11, <1>12
        DEF KernelStep


LEMMA DriveStepKnows ==
  ASSUME TypeOK, NEW r \in Runs, NEW s \in Slots, DriveStep(r, s),
         DriveKnows(drive[r][s], log[r]), Continues(log'[r], log[r])
  PROVE  DriveKnows(drive'[r][s], log'[r])
<1> DEFINE k == drive[r][s]
<1>0. k \in DriveRec /\ DriveOK /\ LogOK /\ log[r] \in Seq(Event)
  BY DEF TypeOK, DriveOK, LogOK
<1>set. ASSUME NEW d, SetDrive(r, s, d) PROVE drive'[r][s] = d
  BY <1>0, <1>set, SetDriveIs
<1>idle. ASSUME NEW o, Complete(r, s, o) PROVE DriveKnows(drive'[r][s], log'[r])
  BY <1>idle, <1>set, IdleOK, KnowsNothing DEF Complete
<1>catch. ASSUME NEW p \in {"dcatch", "dfail"}, NEW n,
                 \/ SetDrive(r, s, [k EXCEPT !.pc = p])
                 \/ SetDrive(r, s, [k EXCEPT !.pc = p, !.len = n])
          PROVE  DriveKnows(drive'[r][s], log'[r])
  <2>1. /\ [k EXCEPT !.pc = p].pc = p
        /\ [k EXCEPT !.pc = p, !.len = n].pc = p
    BY <1>0 DEF DriveRec
  <2> QED BY <1>catch, <1>set, <2>1, KnowsNothing
<1>1. CASE WrapperRead(r, s)
  <2> DEFINE o == IF ~k.threw /\ EvalPasses(r, s) THEN k.outcome ELSE "failed"
             d == [k EXCEPT !.pc = "weval", !.len = Len(log[r]), !.outcome = o]
  <2>1. drive'[r][s] = d /\ log'[r] = log[r]
    BY <1>1, <1>set DEF WrapperRead
  <2>2. d.pc = "weval" /\ d.len = Len(log[r]) /\ d.outcome = o
    BY <1>0 DEF DriveRec
  <2>3. CASE o = "failed"
    <3> HIDE DEF d, o
    <3> QED BY <2>1, <2>2, <2>3, KnowsNothing
  <2>4. CASE o # "failed"
    <3>1. HasType(log[r], "started")
      BY <2>4 DEF EvalPasses
    <3>2. StartedWithin(log[r], Len(log[r])) /\ Len(log[r]) \in Nat
      BY <1>0, <3>1 DEF StartedWithin, HasType
    <3> HIDE DEF d, o
    <3> QED BY <2>1, <2>2, <3>1, <3>2 DEF DriveKnows, KnowsUnstarted, KnowsStarted,
            KnowsVerdict, KnowsStored, Working, Ended
  <2> QED BY <2>3, <2>4
<1>2. CASE WrapperEval(r, s)
  <2> DEFINE d == [k EXCEPT !.pc = "wterm"]
             e == [type |-> "eval", by |-> "kernel"]
  <2>0. k.pc = "weval"
    BY <1>2 DEF WrapperEval, WrapperAppend
  <2>1. CASE Accepts(log[r], k.len) /\ Store(r, "eval", "kernel") /\ SetDrive(r, s, d)
    <3>1. d.pc = "wterm" /\ d.len = k.len /\ d.outcome = k.outcome
      BY <1>0 DEF DriveRec
    <3>2. drive'[r][s] = d
      BY <2>1, <1>set
    <3>3. log'[r] = Append(log[r], e) /\ e.type = "eval" /\ e \in Event
      BY <1>0, <2>1, AppendIs DEF Event, EventTypes, OtherTypes, Writers
    <3>4. k.len = Len(log[r])
      BY <2>1 DEF Accepts
    <3> HIDE DEF d, e
    <3>5. d.len + 1 \in 1..Len(log'[r]) /\ log'[r][d.len + 1].type = "eval"
      BY <1>0, <3>1, <3>3, <3>4
    <3>6. DriveKnows(k, log'[r])
      BY <1>0, KnowsKept
    <3>7. KnowsVerdict(d, log'[r])
      BY <2>0, <3>1, <3>5, <3>6 DEF DriveKnows, KnowsVerdict
    <3>8. KnowsStarted(d, log'[r])
      BY <2>0, <3>1, <3>6 DEF DriveKnows, KnowsStarted, Working, Ended
    <3> QED BY <3>1, <3>2, <3>7, <3>8 DEF DriveKnows, KnowsUnstarted, KnowsStored
  <2> QED BY <1>2, <2>1, <1>catch DEF WrapperEval, WrapperAppend
<1>3. CASE WrapperTerminal(r, s)
  <2> DEFINE d == [k EXCEPT !.pc = "dread"]
             e == [type |-> k.outcome, by |-> "kernel"]
  <2>0. k.pc = "wterm"
    BY <1>3 DEF WrapperTerminal, WrapperAppend
  <2>1. CASE Store(r, k.outcome, "kernel") /\ SetDrive(r, s, d)
    <3>1. d.pc = "dread" /\ d.outcome = k.outcome
      BY <1>0 DEF DriveRec
    <3>2. drive'[r][s] = d
      BY <2>1, <1>set
    <3>3. log'[r] = Append(log[r], e) /\ e.type = k.outcome
      BY <1>0, <2>1, AppendIs
    <3>4. e \in Event
      BY <1>0, <2>0 DEF DriveRec, Event, EventTypes, Outcomes, Writers
    <3> HIDE DEF d, e
    <3>5. k.outcome = "completed" => HasFinal(log'[r])
      <4>1. Len(log[r]) + 1 \in DOMAIN log'[r] /\ log'[r][Len(log[r]) + 1] = e
        BY <1>0, <3>3, <3>4
      <4> QED BY <3>3, <4>1 DEF HasFinal, IsFinal, FinalTypes
    <3>6. KnowsStarted(d, log'[r])
      <4>1. DriveKnows(k, log'[r])
        BY <1>0, KnowsKept
      <4> QED BY <2>0, <3>1, <4>1 DEF DriveKnows, KnowsStarted, Working, Ended
    <3> QED BY <3>1, <3>2, <3>5, <3>6 DEF DriveKnows, KnowsUnstarted, KnowsVerdict, KnowsStored
  <2> QED BY <1>3, <2>1, <1>catch DEF WrapperTerminal, WrapperAppend
<1>4. CASE DriveRead(r, s)
  <2> DEFINE d == [k EXCEPT !.pc = "dappend", !.len = Len(log[r])]
  <2>1. CASE SetDrive(r, s, d)
    <3>1. d.pc = "dappend" /\ d.outcome = k.outcome /\ k.pc = "dread"
      BY <1>0, <1>4 DEF DriveRec, DriveRead, Look
    <3>2. drive'[r][s] = d
      BY <2>1, <1>set
    <3> HIDE DEF d
    <3>3. DriveKnows(k, log'[r])
      BY <1>0, KnowsKept
    <3> QED BY <3>1, <3>2, <3>3 DEF DriveKnows, KnowsUnstarted, KnowsStarted,
            KnowsVerdict, KnowsStored, Working, Ended
  <2> QED BY <1>4, <2>1, <1>idle DEF DriveRead, Look
<1>5. CASE DriveCatch(r, s)
  BY <1>5, <1>idle, <1>catch DEF DriveCatch, Look
<1>6. CASE DriveAppend(r, s)
  BY <1>6, <1>idle, <1>catch DEF DriveAppend
<1>7. CASE DriveFail(r, s)
  BY <1>7, <1>idle DEF DriveFail
<1> QED BY <1>1, <1>2, <1>3, <1>4, <1>5, <1>6, <1>7 DEF DriveStep

LEMMA KnowsStep ==
  ASSUME TypeOK, KnowsInv, [Next]_vars
  PROVE  KnowsInv'
<1> SUFFICES ASSUME NEW r \in Runs, NEW s \in Slots
             PROVE  DriveKnows(drive'[r][s], log'[r])
  BY DEF KnowsInv, DriveKnows, KnowsUnstarted, KnowsStarted, KnowsVerdict, KnowsStored
<1> DEFINE k == drive[r][s]
<1>0. k \in DriveRec /\ DriveKnows(k, log[r])
  BY TypeParts DEF DriveOK, KnowsInv
<1>1. Continues(log'[r], log[r])
  BY LogsGrow
<1>2. CASE drive'[r][s] = k
  BY <1>0, <1>1, <1>2, KnowsKept
<1>3. CASE drive'[r][s] = [k EXCEPT !.aborted = TRUE]
  <2> DEFINE d == [k EXCEPT !.aborted = TRUE]
  <2>1. d.pc = k.pc /\ d.kseq = k.kseq /\ d.len = k.len /\ d.outcome = k.outcome
    BY <1>0 DEF DriveRec
  <2>2. DriveKnows(k, log'[r])
    BY <1>0, <1>1, KnowsKept
  <2> HIDE DEF d
  <2> QED BY <1>3, <2>1, <2>2 DEF d, DriveKnows, KnowsUnstarted, KnowsStarted,
          KnowsVerdict, KnowsStored
<1>4. CASE drive'[r][s] = IdleDrive
  BY <1>4, IdleOK, KnowsNothing
<1>5. CASE drive'[r][s] = Launched(begin[r][s])
  <2>1. Launched(begin[r][s]).pc = "kopen"
    BY DEF Launched, IdleDrive
  <2> QED BY <1>5, <2>1, KnowsNothing
<1>6. CASE KernelStep(r, s)
  BY <1>0, <1>1, <1>6, KernelKnows
<1>7. CASE DriveStep(r, s)
  BY <1>0, <1>1, <1>7, DriveStepKnows
<1> QED BY <1>2, <1>3, <1>4, <1>5, <1>6, <1>7, DriveChanges DEF DriveChange

LEMMA KnowsInit == Init => KnowsInv
<1>1. IdleDrive.pc = "idle"
  BY IdleOK
<1> QED BY <1>1, KnowsNothing DEF Init, KnowsInv


-----------------------------------------------------------------------------
(* One event more.                                                          *)

LEMMA OneMore ==
  ASSUME NEW L \in Seq(Event), NEW e \in Event, NEW M, M = Append(L, e)
  PROVE  /\ M \in Seq(Event) /\ Len(L) \in Nat /\ Len(M) = Len(L) + 1
         /\ DOMAIN L = 1..Len(L) /\ DOMAIN M = 1..(Len(L) + 1)
         /\ \A i \in 1..Len(L) : M[i] = L[i]
         /\ M[Len(L) + 1] = e
OBVIOUS

LEMMA HasTypeOneMore ==
  ASSUME NEW L \in Seq(Event), NEW e \in Event, NEW M, M = Append(L, e), NEW t
  PROVE  HasType(M, t) <=> HasType(L, t) \/ e.type = t
<1>0. /\ Len(L) \in Nat /\ DOMAIN L = 1..Len(L) /\ DOMAIN M = 1..(Len(L) + 1)
      /\ \A i \in 1..Len(L) : M[i] = L[i]
      /\ M[Len(L) + 1] = e
  BY OneMore
<1>1. ASSUME NEW i \in 1..(Len(L) + 1) PROVE i \in 1..Len(L) \/ i = Len(L) + 1
  BY <1>0
<1>2. Len(L) + 1 \in DOMAIN M /\ \A i \in DOMAIN L : i \in DOMAIN M
  BY <1>0
<1> QED BY <1>0, <1>1, <1>2 DEF HasType

(* The events that may come next on a stream.                               *)
MayBeStored(r, t) == MayArrive(r, t) \/ \E s \in Slots : MayStore(drive[r][s], log[r], t)

(* What a step does to the stream of one Run: an event more, stored by the  *)
(* component whose step it is.                                              *)
LEMMA StreamStep ==
  ASSUME TypeOK, [Next]_vars, NEW r \in Runs, log'[r] # log[r]
  PROVE  \E e \in Event : /\ log'[r] = Append(log[r], e)
                          /\ ~HasFinal(log[r])
                          /\ MayBeStored(r, e.type)
                          /\ MayArrive(r, e.type) \/ \E s \in Slots : CallSteps(r, s)
                          /\ \A q \in Runs : q # r => log'[q] = log[q]
<1>1. ASSUME NEW q \in Runs, NEW t \in EventTypes, NEW w \in Writers, Store(q, t, w)
      PROVE  /\ q = r /\ [type |-> t, by |-> w] \in Event
             /\ log'[r] = Append(log[r], [type |-> t, by |-> w])
             /\ \A p \in Runs : p # r => log'[p] = log[p]
  <2>1. \A p \in Runs : p # q => log'[p] = log[p]
    BY <1>1, TypeParts DEF Store, LogOK
  <2>2. q = r
    BY <2>1
  <2> QED BY <1>1, <2>1, <2>2, AppendIs, TypeParts DEF Event
<1>2. CASE OthersWrite
  <2>1. PICK q \in Runs, t \in EventTypes, w \in Writers :
          ~HasFinal(log[q]) /\ MayArrive(q, t) /\ Store(q, t, w)
    BY <1>2 DEF OthersWrite
  <2> DEFINE e == [type |-> t, by |-> w]
  <2>2. /\ q = r /\ e \in Event /\ e.type = t /\ log'[r] = Append(log[r], e)
        /\ \A p \in Runs : p # r => log'[p] = log[p]
    BY <1>1, <2>1
  <2> HIDE DEF e
  <2> QED BY <2>1, <2>2, Zenon DEF MayBeStored
<1>3. ASSUME NEW q \in Runs, NEW s \in Slots, CallSteps(q, s), CallWrites(q, s)
      PROVE  \E e \in Event : /\ log'[r] = Append(log[r], e)
                              /\ ~HasFinal(log[r])
                              /\ MayBeStored(r, e.type)
                              /\ MayArrive(r, e.type) \/ \E u \in Slots : CallSteps(r, u)
                              /\ \A p \in Runs : p # r => log'[p] = log[p]
  <2>1. PICK t \in EventTypes, w \in Writers :
          ~HasFinal(log[q]) /\ MayStore(drive[q][s], log[q], t) /\ Store(q, t, w)
    BY <1>3 DEF CallWrites
  <2> DEFINE e == [type |-> t, by |-> w]
  <2>2. /\ q = r /\ e \in Event /\ e.type = t /\ log'[r] = Append(log[r], e)
        /\ \A p \in Runs : p # r => log'[p] = log[p]
    BY <1>1, <2>1
  <2> HIDE DEF e
  <2> QED BY <1>3, <2>1, <2>2, Zenon DEF MayBeStored
<1> QED BY <1>2, <1>3, StepWrites

-----------------------------------------------------------------------------
(* run.started is stored once.                                              *)
LEMMA StartedOnceStep ==
  ASSUME TypeOK, KnowsInv, StartedOnce, [Next]_vars
  PROVE  StartedOnce'
<1> SUFFICES ASSUME NEW r \in Runs
             PROVE  \A i, j \in DOMAIN log'[r] :
                      log'[r][i].type = "started" /\ log'[r][j].type = "started" => i = j
  BY DEF StartedOnce
<1>1. CASE log'[r] = log[r]
  BY <1>1 DEF StartedOnce
<1>2. CASE log'[r] # log[r]
  <2>1. PICK e \in Event : log'[r] = Append(log[r], e) /\ MayBeStored(r, e.type)
    BY <1>2, StreamStep
  <2>2. /\ log[r] \in Seq(Event) /\ Len(log[r]) \in Nat
        /\ DOMAIN log[r] = 1..Len(log[r]) /\ DOMAIN log'[r] = 1..(Len(log[r]) + 1)
        /\ \A i \in 1..Len(log[r]) : log'[r][i] = log[r][i]
        /\ log'[r][Len(log[r]) + 1] = e
    BY <2>1, OneMore, TypeParts DEF LogOK
  <2>3. e.type = "started" => \A i \in 1..Len(log[r]) : log[r][i].type # "started"
    <3> SUFFICES ASSUME e.type = "started"
                 PROVE  \A i \in 1..Len(log[r]) : log[r][i].type # "started"
      OBVIOUS
    <3>1. PICK s \in Slots : MayStore(drive[r][s], log[r], "started")
      BY <2>1 DEF MayBeStored, MayArrive
    <3>2. drive[r][s] \in DriveRec /\ DriveKnows(drive[r][s], log[r])
      BY TypeParts DEF DriveOK, KnowsInv
    <3>3. drive[r][s].pc = "kstart" /\ drive[r][s].kseq = Len(log[r])
      BY <3>1, <3>2 DEF MayStore, EndPCs, DriveRec, Outcomes, FinalTypes, SuspendTypes
    <3> QED BY <3>2, <3>3 DEF DriveKnows, KnowsUnstarted, StartedWithin
  <2>4. \A i \in 1..(Len(log[r]) + 1) : i \in 1..Len(log[r]) \/ i = Len(log[r]) + 1
    BY <2>2
  <2> QED BY <2>2, <2>3, <2>4 DEF StartedOnce
<1> QED BY <1>1, <1>2

(* Whichever attempt starts a Run, the first one, one that resumes it after *)
(* a crash or one that races with an answer, run.started is stored once.    *)
THEOREM StartIsStoredOnce == Spec => []StartedOnce
<1>1. Init => TypeOK /\ KnowsInv /\ StartedOnce
  BY TypeInit, KnowsInit DEF Init, StartedOnce
<1>2. TypeOK /\ KnowsInv /\ StartedOnce /\ [Next]_vars => TypeOK' /\ KnowsInv' /\ StartedOnce'
  BY TypeStep, KnowsStep, StartedOnceStep
<1> QED BY <1>1, <1>2, PTL DEF Spec

-----------------------------------------------------------------------------
(* A completion follows the verdict on it.                                  *)
LEMMA CompletedStep ==
  ASSUME TypeOK, KnowsInv, CompletedIsEvaluated, [Next]_vars
  PROVE  CompletedIsEvaluated'
<1> SUFFICES ASSUME ContractEval, NEW r \in Runs, NEW i \in DOMAIN log'[r],
                    log'[r][i].type = "completed"
             PROVE  /\ i > 1 /\ log'[r][i - 1].type = "eval"
                    /\ \E j \in 1..(i - 2) : log'[r][j].type = "started"
  BY DEF CompletedIsEvaluated
<1>1. CASE log'[r] = log[r]
  BY <1>1 DEF CompletedIsEvaluated
<1>2. CASE log'[r] # log[r]
  <2>1. PICK e \in Event : /\ log'[r] = Append(log[r], e) /\ MayBeStored(r, e.type)
                           /\ ~HasFinal(log[r])
    BY <1>2, StreamStep
  <2>2. /\ log[r] \in Seq(Event) /\ Len(log[r]) \in Nat
        /\ DOMAIN log[r] = 1..Len(log[r]) /\ DOMAIN log'[r] = 1..(Len(log[r]) + 1)
        /\ \A n \in 1..Len(log[r]) : log'[r][n] = log[r][n]
        /\ log'[r][Len(log[r]) + 1] = e
    BY <2>1, OneMore, TypeParts DEF LogOK
  <2>3. CASE i \in 1..Len(log[r])
    <3>1. ~HasFinal(log[r]) /\ IsFinal(log[r][i])
      BY <2>1, <2>2, <2>3 DEF IsFinal, FinalTypes
    <3> QED BY <2>2, <2>3, <3>1 DEF HasFinal
  <2>4. CASE i = Len(log[r]) + 1
    <3>1. PICK s \in Slots : MayStore(drive[r][s], log[r], "completed")
      BY <2>1, <2>2, <2>4 DEF MayBeStored, MayArrive
    <3> DEFINE k == drive[r][s]
    <3>2. k \in DriveRec /\ DriveKnows(k, log[r])
      BY TypeParts DEF DriveOK, KnowsInv
    <3>3. k.pc = "wterm" /\ k.outcome = "completed" /\ Len(log[r]) = k.len + 1
      <4>1. ~(k.pc = "dappend" /\ k.outcome = "completed")
        BY <2>1, <3>2 DEF DriveKnows, KnowsStored
      <4> QED BY <3>1, <4>1 DEF MayStore, EndPCs
    <3>4. /\ k.len \in 0..Len(log[r]) /\ log[r][k.len + 1].type = "eval"
          /\ \E j \in 1..k.len : log[r][j].type = "started"
      BY <3>2, <3>3 DEF DriveKnows, KnowsVerdict, StartedWithin
    <3> HIDE DEF k
    <3>5. PICK n \in Nat : n = k.len
      BY <3>2 DEF DriveRec
    <3>6. /\ Len(log[r]) = n + 1 /\ i - 1 = n + 1 /\ i - 2 = n /\ i > 1
          /\ n + 1 \in 1..(n + 1) /\ \A j \in 1..n : j \in 1..(n + 1)
      BY <2>4, <3>3, <3>5
    <3> QED BY <2>2, <3>4, <3>5, <3>6
  <2> QED BY <2>2, <2>3, <2>4
<1> QED BY <1>1, <1>2

(* With the Contract Eval wrapper, whichever kernel runs below it, a Run is *)
(* completed only on a stream that has started, and by the event that       *)
(* follows the verdict: a write in between turns the completion away.       *)
THEOREM CompletionIsEvaluated == Spec => []CompletedIsEvaluated
<1>1. Init => TypeOK /\ KnowsInv /\ CompletedIsEvaluated
  BY TypeInit, KnowsInit DEF Init, CompletedIsEvaluated
<1>2. TypeOK /\ KnowsInv /\ CompletedIsEvaluated /\ [Next]_vars
        => TypeOK' /\ KnowsInv' /\ CompletedIsEvaluated'
  BY TypeStep, KnowsStep, CompletedStep
<1> QED BY <1>1, <1>2, PTL DEF Spec


-----------------------------------------------------------------------------
(* close() reaches every call.                                              *)

(* The call an attempt came from, and whether it was aborted.               *)
SameCall(d, k) == d.mode = k.mode /\ d.aborted = k.aborted

CallKeeps(r, s) == drive'[r][s].pc = "idle" \/ SameCall(drive'[r][s], drive[r][s])

LEMMA CallKept ==
  ASSUME TypeOK, NEW r \in Runs, NEW s \in Slots, CallSteps(r, s)
  PROVE  CallKeeps(r, s)
<1> DEFINE k == drive[r][s]
<1>0. k \in DriveRec /\ DriveOK
  BY DEF TypeOK, DriveOK
<1>same. ASSUME NEW d, SetDrive(r, s, d), SameCall(d, k) PROVE CallKeeps(r, s)
  BY <1>0, <1>same, SetDriveIs DEF CallKeeps
<1>thrown. ASSUME SetDrive(r, s, Thrown(k)) PROVE CallKeeps(r, s)
  <2>1. SameCall(Thrown(k), k)
    BY <1>0 DEF Thrown, DriveRec, SameCall
  <2> QED BY <1>thrown, <1>same, <2>1
<1>idle. ASSUME NEW o, Complete(r, s, o) PROVE CallKeeps(r, s)
  BY <1>0, <1>idle, SetDriveIs, IdleOK DEF Complete, CallKeeps
<1>pc. ASSUME NEW p, NEW n, NEW o,
              \/ SetDrive(r, s, [k EXCEPT !.pc = p])
              \/ SetDrive(r, s, [k EXCEPT !.pc = p, !.len = n])
              \/ SetDrive(r, s, [k EXCEPT !.pc = p, !.kseq = n])
              \/ SetDrive(r, s, [k EXCEPT !.pc = p, !.outcome = o])
              \/ SetDrive(r, s, [k EXCEPT !.pc = p, !.len = n, !.outcome = o])
              \/ SetDrive(r, s, [k EXCEPT !.pc = p, !.kseq = n, !.restored = o])
       PROVE  CallKeeps(r, s)
  <2>1. /\ SameCall([k EXCEPT !.pc = p], k)
        /\ SameCall([k EXCEPT !.pc = p, !.len = n], k)
        /\ SameCall([k EXCEPT !.pc = p, !.kseq = n], k)
        /\ SameCall([k EXCEPT !.pc = p, !.outcome = o], k)
        /\ SameCall([k EXCEPT !.pc = p, !.len = n, !.outcome = o], k)
        /\ SameCall([k EXCEPT !.pc = p, !.kseq = n, !.restored = o], k)
    BY <1>0 DEF DriveRec, SameCall
  <2> QED BY <1>pc, <1>same, <2>1
<1>append. ASSUME NEW t, NEW next, KernelAppend(r, s, t, next) PROVE CallKeeps(r, s)
  <2>1. SameCall([k EXCEPT !.pc = next, !.kseq = @ + 1, !.synced = FALSE], k)
    BY <1>0 DEF DriveRec, SameCall
  <2> QED BY <1>append, <1>same, <1>thrown, <2>1 DEF KernelAppend
<1>1. CASE KernelSync(r, s)
  <2>1. SameCall([k EXCEPT !.kseq = Len(log[r]), !.synced = TRUE], k)
    BY <1>0 DEF DriveRec, SameCall
  <2> QED BY <1>1, <1>same, <2>1 DEF KernelSync
<1>2. CASE KernelOpen(r, s)
  BY <1>2, <1>pc, <1>thrown DEF KernelOpen
<1>3. CASE KernelPrepare(r, s)
  BY <1>3, <1>pc, <1>thrown DEF KernelPrepare
<1>4. CASE GatewayDecide(r, s) \/ GatewayAsk(r, s)
  <2>1. SameCall(ApprovalRequired(k), k)
    BY <1>0 DEF DriveRec, SameCall, ApprovalRequired
  <2>2. \/ SetDrive(r, s, [k EXCEPT !.pc = "ktool"]) \/ SetDrive(r, s, ApprovalRequired(k))
        \/ SetDrive(r, s, [k EXCEPT !.pc = "kask", !.len = Len(log[r])])
        \/ SetDrive(r, s, Thrown(k))
    BY <1>4 DEF GatewayDecide, GatewayAsk
  <2> QED BY <2>1, <2>2, <1>same, <1>pc, <1>thrown
<1>5. CASE KernelFinish(r, s)
  BY <1>5, <1>pc, <1>thrown DEF KernelFinish
<1>6. CASE \/ KernelStarted(r, s) \/ KernelContext(r, s) \/ KernelResumed(r, s)
           \/ KernelWork(r, s) \/ KernelTool(r, s) \/ KernelToolEnd(r, s)
  BY <1>6, <1>append DEF KernelStarted, KernelContext, KernelResumed, KernelWork,
     KernelTool, KernelToolEnd
<1>7. CASE WrapperRead(r, s) \/ WrapperEval(r, s) \/ WrapperTerminal(r, s)
  BY <1>7, <1>pc DEF WrapperRead, WrapperEval, WrapperTerminal, WrapperAppend
<1>8. CASE \/ DriveRead(r, s) \/ DriveCatch(r, s) \/ DriveAppend(r, s) \/ DriveFail(r, s)
  BY <1>8, <1>pc, <1>idle DEF DriveRead, DriveCatch, Look, DriveAppend, DriveFail
<1> QED BY <1>1, <1>2, <1>3, <1>4, <1>5, <1>6, <1>7, <1>8 DEF CallSteps, KernelStep, DriveStep

(* A call goes through begin(), is taken up, is aborted or is gone; it      *)
(* keeps its mode.                                                          *)
BeginChange(r, s) ==
  \/ begin'[r][s] = begin[r][s]
  \/ begin'[r][s] = [begin[r][s] EXCEPT !.aborted = TRUE]
  \/ begin'[r][s] = IdleBegin
  \/ begin'[r][s].pc = "get" /\ ~closing /\ UNCHANGED closing /\ r \in claimed'
  \/ SameCall(begin'[r][s], begin[r][s]) /\ BeginStep(r, s)

LEMMA BeginChanges ==
  ASSUME TypeOK, [Next]_vars, NEW r \in Runs, NEW s \in Slots
  PROVE  BeginChange(r, s)
<1>0. BeginOK
  BY TypeParts
<1>1. CASE UNCHANGED begin
  BY <1>1 DEF BeginChange
<1>2. ASSUME NEW q \in Runs, NEW t \in Slots, NEW mode, Begin(q, t, mode)
      PROVE  BeginChange(r, s)
  <2> DEFINE b == [IdleBegin EXCEPT !.pc = "get", !.mode = mode]
  <2>1. b.pc = "get" /\ SetBegin(q, t, b) /\ ~closing /\ UNCHANGED closing /\ q \in claimed'
    BY <1>2 DEF IdleBegin, Begin
  <2> HIDE DEF b
  <2>2. CASE q = r /\ t = s
    BY <1>0, <2>1, <2>2, SetBeginIs DEF BeginChange
  <2>3. CASE q # r \/ t # s
    BY <1>0, <1>2, <2>3, SetBeginIs DEF Begin, BeginChange
  <2> QED BY <2>2, <2>3
<1>3. ASSUME NEW q \in Runs, NEW t \in Slots, BeginStep(q, t) PROVE BeginChange(r, s)
  <2>1. PICK b \in BeginRec : SetBegin(q, t, b) /\ (b = IdleBegin \/ SameCall(b, begin[q][t]))
    <3>0. begin[q][t] \in BeginRec
      BY <1>0 DEF BeginOK
    <3>1. ASSUME NEW p \in BeginPCs
          PROVE  /\ [begin[q][t] EXCEPT !.pc = p] \in BeginRec
                 /\ SameCall([begin[q][t] EXCEPT !.pc = p], begin[q][t])
      BY <3>0 DEF BeginRec, SameCall
    <3>2. {"ensure", "enqueue", "launch"} \subseteq BeginPCs
      BY DEF BeginPCs
    <3>3. CASE SetBegin(q, t, IdleBegin)
      BY <3>3, IdleOK
    <3>4. CASE \E p \in {"ensure", "enqueue", "launch"} :
                 SetBegin(q, t, [begin[q][t] EXCEPT !.pc = p])
      BY <3>1, <3>2, <3>4, Zenon
    <3> QED BY <1>3, <3>3, <3>4
            DEF BeginStep, BeginReturn, BeginProceed, BeginEnsure, BeginEnqueue, BeginLaunch
  <2>2. /\ begin'[q][t] = b
        /\ q # r \/ t # s => begin'[r][s] = begin[r][s]
    BY <1>0, <2>1, SetBeginIs
  <2> QED BY <1>3, <2>1, <2>2 DEF BeginChange
<1>4. CASE Close
  BY <1>0, <1>4 DEF Close, BeginOK, Aborted, BeginChange
<1>5. CASE Crash
  BY <1>5 DEF Crash, BeginChange
<1>6. CASE SettleStep
  BY <1>1, <1>6, SettleShape DEF SettleUnchanged
<1>7. ASSUME NEW q \in Runs, NEW t \in Slots, CallSteps(q, t) PROVE UNCHANGED begin
  BY <1>7, KernelShape, DriveShape DEF CallSteps, KernelUnchanged, DriveUnchanged
<1> QED BY <1>1, <1>2, <1>3, <1>4, <1>5, <1>6, <1>7
        DEF Next, Client, Stop, AnswerRead, AnswerAppend, CallSteps, vars

(* The invariant that makes ClosingAborts inductive: a call that is still   *)
(* in begin() is aborted too, and hands that on to its drive.               *)
AllAborted ==
  closing => \A r \in Runs, s \in Slots : /\ begin[r][s].pc = "idle" \/ begin[r][s].aborted
                                          /\ drive[r][s].pc = "idle" \/ drive[r][s].aborted

LEMMA AllAbortedStep ==
  ASSUME TypeOK, AllAborted, [Next]_vars
  PROVE  AllAborted'
<1>0. BeginOK /\ DriveOK
  BY TypeParts
<1>1. CASE Close
  <2> SUFFICES ASSUME NEW r \in Runs, NEW s \in Slots
               PROVE  /\ begin'[r][s].pc = "idle" \/ begin'[r][s].aborted
                      /\ drive'[r][s].pc = "idle" \/ drive'[r][s].aborted
    BY DEF AllAborted
  <2>1. [begin[r][s] EXCEPT !.aborted = TRUE].aborted /\ [drive[r][s] EXCEPT !.aborted = TRUE].aborted
    BY <1>0 DEF BeginOK, DriveOK, BeginRec, DriveRec
  <2> QED BY <1>1, <2>1 DEF Close, Aborted
<1>2. CASE ~closing'
  BY <1>2 DEF AllAborted
<1>3. CASE UNCHANGED closing /\ closing
  <2> SUFFICES ASSUME NEW r \in Runs, NEW s \in Slots
               PROVE  /\ begin'[r][s].pc = "idle" \/ begin'[r][s].aborted
                      /\ drive'[r][s].pc = "idle" \/ drive'[r][s].aborted
    BY DEF AllAborted
  <2>0. /\ begin[r][s] \in BeginRec /\ drive[r][s] \in DriveRec
        /\ begin[r][s].pc = "idle" \/ begin[r][s].aborted
        /\ drive[r][s].pc = "idle" \/ drive[r][s].aborted
    BY <1>0, <1>3 DEF BeginOK, DriveOK, AllAborted
  <2>1. begin'[r][s].pc = "idle" \/ begin'[r][s].aborted
    <3>1. [begin[r][s] EXCEPT !.aborted = TRUE].aborted
      BY <2>0 DEF BeginRec
    <3>2. BeginStep(r, s) => begin[r][s].pc # "idle"
      BY BeginShape
    <3> QED BY <1>3, <2>0, <3>1, <3>2, BeginChanges, IdleOK DEF BeginChange, SameCall
  <2>2. drive'[r][s].pc = "idle" \/ drive'[r][s].aborted
    <3>1. [drive[r][s] EXCEPT !.aborted = TRUE].aborted
      BY <2>0 DEF DriveRec
    <3>2. BeginLaunch(r, s) => Launched(begin[r][s]).aborted
      BY <2>0 DEF BeginLaunch, Launched, IdleDrive
    <3>3. CallSteps(r, s) => drive[r][s].pc # "idle"
      BY KernelShape, DriveShape DEF CallSteps
    <3> QED BY <2>0, <3>1, <3>2, <3>3, DriveChanges, CallKept, IdleOK
            DEF DriveChange, SameCall, CallSteps, CallKeeps
  <2> QED BY <2>1, <2>2
<1>4. Close \/ ~closing' \/ UNCHANGED closing
  <2>1. ASSUME NEW r \in Runs, NEW s \in Slots, BeginStep(r, s) PROVE UNCHANGED closing
    BY <2>1, BeginShape
  <2>2. ASSUME NEW r \in Runs, NEW s \in Slots, CallSteps(r, s) PROVE UNCHANGED closing
    BY <2>2, KernelShape, DriveShape DEF CallSteps, KernelUnchanged, DriveUnchanged
  <2>3. ASSUME SettleStep PROVE UNCHANGED closing
    BY <2>3, SettleShape DEF SettleUnchanged
  <2> QED BY <2>1, <2>2, <2>3 DEF Next, Client, Begin, Stop, AnswerRead, AnswerAppend, Crash,
          CallSteps, vars
<1>5. closing \in BOOLEAN /\ closing' \in BOOLEAN
  BY TypeStep DEF TypeOK
<1> QED BY <1>1, <1>2, <1>3, <1>4, <1>5

(* close() aborts every controller, and the attempt of a call that was in   *)
(* begin() at that moment starts out aborted.                               *)
THEOREM CloseAbortsAttempts == Spec => []ClosingAborts
<1>1. Init => TypeOK /\ AllAborted
  BY TypeInit DEF Init, AllAborted
<1>2. TypeOK /\ AllAborted /\ [Next]_vars => TypeOK' /\ AllAborted'
  BY TypeStep, AllAbortedStep
<1>3. AllAborted => ClosingAborts
  BY DEF AllAborted, ClosingAborts
<1> QED BY <1>1, <1>2, <1>3, PTL DEF Spec


-----------------------------------------------------------------------------
(* start() continues nothing.                                               *)

(* What an attempt does comes after run.started.                            *)
FollowsStart == {"progress", "transcript", "tool", "resumed", "approval_requested"}
                  \cup SuspendTypes

WorkIsStarted ==
  \A r \in Runs : \A t \in FollowsStart :
    HasType(log[r], t) => HasType(log[r], "started")

LEMMA WorkIsStartedStep ==
  ASSUME TypeOK, KnowsInv, WorkIsStarted, [Next]_vars
  PROVE  WorkIsStarted'
<1> SUFFICES ASSUME NEW r \in Runs, NEW t \in FollowsStart, HasType(log'[r], t)
             PROVE  HasType(log'[r], "started")
  BY DEF WorkIsStarted
<1>1. CASE HasType(log[r], t)
  BY <1>1, LogsGrow, HasTypeKept DEF WorkIsStarted
<1>2. CASE ~HasType(log[r], t)
  <2>1. log'[r] # log[r]
    BY <1>2
  <2>2. PICK e \in Event : log'[r] = Append(log[r], e) /\ MayBeStored(r, e.type)
    BY <2>1, StreamStep
  <2>3. e.type = t
    BY <1>2, <2>2, HasTypeOneMore, TypeParts DEF LogOK
  <2>4. PICK s \in Slots : MayStore(drive[r][s], log[r], t)
    BY <2>2, <2>3 DEF MayBeStored, MayArrive, FollowsStart, SuspendTypes
  <2>5. drive[r][s] \in DriveRec /\ DriveKnows(drive[r][s], log[r])
    BY TypeParts DEF DriveOK, KnowsInv
  <2>6. drive[r][s].pc \in Working \/ (drive[r][s].pc \in Ended /\ drive[r][s].outcome # "failed")
    BY <2>4, <2>5 DEF MayStore, EndPCs, FollowsStart, SuspendTypes, Working, Ended
  <2> QED BY <2>5, <2>6, LogsGrow, HasTypeKept DEF DriveKnows, KnowsStarted
<1> QED BY <1>1, <1>2

(* Nobody has worked on the Run.                                            *)
Fresh(L) == Marks(L) = {}

LEMMA FreshHas ==
  ASSUME NEW L
  PROVE  Fresh(L) <=> \A t \in RunningTypes \cup SuspendTypes : ~HasType(L, t)
BY DEF Fresh, Marks, HasType

LEMMA FreshIsUnworked ==
  ASSUME WorkIsStarted, NEW r \in Runs, Fresh(log[r])
  PROVE  \A t \in FollowsStart \cup {"started"} : ~HasType(log[r], t)
BY FreshHas DEF WorkIsStarted, RunningTypes

(* The terminal of a stream is its status.                                  *)
LEMMA StatusOfFinal ==
  ASSUME LogOK, FinalIsLast, NEW r \in Runs, HasFinal(log[r])
  PROVE  /\ Status(log[r]) = log[r][Len(log[r])].type
         /\ Status(log[r]) \in FinalTypes
<1> DEFINE L == log[r]
           First(i) == IsFinal(L[i]) /\ \A j \in 1..(i - 1) : ~IsFinal(L[j])
<1>0. L \in Seq(Event) /\ Len(L) \in Nat /\ DOMAIN L = 1..Len(L)
  BY DEF LogOK
<1>1. \A i \in DOMAIN L : IsFinal(L[i]) => i = Len(L)
  BY DEF FinalIsLast
<1>2. PICK n \in DOMAIN L : IsFinal(L[n])
  BY DEF HasFinal
<1>3. n = Len(L) /\ First(n)
  <2>1. n = Len(L)
    BY <1>1, <1>2
  <2> QED BY <1>0, <1>1, <1>2, <2>1
<1>4. \A i \in DOMAIN L : First(i) => i = Len(L)
  BY <1>1
<1>5. (CHOOSE i \in DOMAIN L : First(i)) = Len(L)
  <2> HIDE DEF First
  <2> QED BY <1>3, <1>4
<1>6. Status(L) = L[CHOOSE i \in DOMAIN L : First(i)].type
  BY DEF Status
<1>7. Status(L) = L[Len(L)].type
  <2> HIDE DEF First
  <2> QED BY <1>5, <1>6
<1> QED BY <1>2, <1>3, <1>7 DEF IsFinal

(* What start() has not turned away is fresh.                               *)
LEMMA QueuedIsFresh ==
  ASSUME LogOK, FinalIsLast, NEW r \in Runs,
         Status(log[r]) \notin FinalTypes \cup SuspendTypes \cup {"running"}
  PROVE  Fresh(log[r])
<1>1. ~HasFinal(log[r])
  BY StatusOfFinal
<1> QED BY <1>1 DEF Status, Fresh

StartKnows(k, L) ==
  k.mode = "start" =>
    /\ k.pc \in {"kopen", "kstart"} => Fresh(L)
    /\ k.pc \in {"kstart", "kprep"} /\ k.restored =>
         Kernel = "omp" /\ ~HasType(L, "transcript")
    /\ k.pc # "idle" => k.pc # "kresume" /\ ~HasType(L, "resumed")

(* A call of start() goes ahead, and its attempt begins, on a fresh stream; *)
(* so the attempt has nothing to restore.                                   *)
StartInv ==
  \A r \in Runs, s \in Slots :
    /\ begin[r][s].mode = "start" /\ begin[r][s].pc \in {"ensure", "enqueue", "launch"} =>
         Fresh(log[r])
    /\ StartKnows(drive[r][s], log[r])

(* Where a drive can be at the start of its attempt.                        *)
OpensOrPrepares(r, s, k, d) ==
  \/ d.pc \notin {"kopen", "kstart", "kprep", "kresume"}
  \/ KernelOpen(r, s) /\ d.pc = "kstart" /\ d.restored = Restored(r)
  \/ KernelOpen(r, s) /\ d.pc = "kprep" /\ HasType(log[r], "started")
  \/ k.pc \in {"kstart", "kprep"} /\ d.pc = "kprep" /\ d.restored = k.restored
  \/ k.pc = "kprep" /\ d.pc = "kresume" /\ k.restored /\ ~RestoreFails(r, s)
  \/ k.pc = "kresume" /\ d.pc = "kresume"

LEMMA AttemptOpens ==
  ASSUME TypeOK, NEW r \in Runs, NEW s \in Slots, CallSteps(r, s)
  PROVE  OpensOrPrepares(r, s, drive[r][s], drive'[r][s])
<1> DEFINE k == drive[r][s]
           Goal(d) == OpensOrPrepares(r, s, k, d)
<1>0. k \in DriveRec /\ DriveOK
  BY DEF TypeOK, DriveOK
<1> SUFFICES ASSUME NEW d, SetDrive(r, s, d) PROVE Goal(d)
  <2>1. \E d : SetDrive(r, s, d)
    BY KernelShape, DriveShape DEF CallSteps, DriveMoves, DriveEnds, Complete
  <2>2. \A d : SetDrive(r, s, d) => drive'[r][s] = d
    BY <1>0, SetDriveIs
  <2> QED BY <2>1, <2>2
<1>same. ASSUME NEW x, SetDrive(r, s, x) PROVE d = x
  BY <1>0, <1>same, SetDriveIs
<1>later. ASSUME d.pc \notin {"kopen", "kstart", "kprep", "kresume"} PROVE Goal(d)
  BY <1>later DEF OpensOrPrepares
<1>thrown. ASSUME SetDrive(r, s, Thrown(k)) PROVE Goal(d)
  <2>1. Thrown(k).pc \in {"wread", "dcatch"}
    BY <1>0 DEF Thrown, DriveRec
  <2> HIDE DEF Goal
  <2> QED BY <1>thrown, <1>same, <1>later, <2>1
<1>append. ASSUME NEW t, NEW next \in {"kprep", "kgate", "kagent"}, KernelAppend(r, s, t, next),
                  next = "kprep" => k.pc \in {"kstart", "kprep"}
           PROVE  Goal(d)
  <2> DEFINE x == [k EXCEPT !.pc = next, !.kseq = @ + 1, !.synced = FALSE]
  <2>1. x.pc = next /\ x.restored = k.restored
    BY <1>0 DEF DriveRec
  <2>2. d = x \/ SetDrive(r, s, Thrown(k))
    BY <1>append, <1>same DEF KernelAppend
  <2> HIDE DEF x
  <2> QED BY <1>append, <1>thrown, <2>1, <2>2 DEF OpensOrPrepares
<1>pc. ASSUME NEW p \in {"kgate", "kask", "ktool", "wread", "weval", "wterm", "dread",
                         "dappend", "dcatch", "dfail"}, d.pc = p
       PROVE  Goal(d)
  BY <1>pc, <1>later
<1>1. CASE KernelSync(r, s)
  <2> DEFINE x == [k EXCEPT !.kseq = Len(log[r]), !.synced = TRUE]
  <2>1. x.pc = k.pc /\ x.restored = k.restored
    BY <1>0 DEF DriveRec
  <2>2. d = x /\ k.pc \in {"kprep", "kresume", "kagent", "ktool"}
    BY <1>1, <1>same DEF KernelSync, SyncedPCs
  <2> HIDE DEF x
  <2> QED BY <2>1, <2>2 DEF OpensOrPrepares
<1>2. CASE KernelOpen(r, s)
  <2> DEFINE x == [k EXCEPT !.pc = IF HasType(log[r], "started") THEN "kprep" ELSE "kstart",
                            !.kseq = Len(log[r]), !.restored = Restored(r)]
  <2>1. /\ x.pc = IF HasType(log[r], "started") THEN "kprep" ELSE "kstart"
        /\ x.restored = Restored(r)
    BY <1>0 DEF DriveRec
  <2>2. d = x \/ SetDrive(r, s, Thrown(k))
    BY <1>2, <1>same DEF KernelOpen
  <2> HIDE DEF x
  <2> QED BY <1>2, <1>thrown, <2>1, <2>2 DEF OpensOrPrepares
<1>3. CASE KernelPrepare(r, s)
  <2>1. ASSUME NEW n, d = [k EXCEPT !.pc = IF k.restored THEN "kresume" ELSE "kagent", !.kseq = n],
               ~RestoreFails(r, s)
        PROVE  Goal(d)
    <3>1. d.pc = (IF k.restored THEN "kresume" ELSE "kagent") /\ k.pc = "kprep"
      BY <1>0, <1>3, <2>1 DEF DriveRec, KernelPrepare
    <3> QED BY <2>1, <3>1 DEF OpensOrPrepares
  <2> HIDE DEF Goal
  <2> QED BY <1>3, <1>same, <1>thrown, <2>1 DEF KernelPrepare
<1>4. CASE GatewayDecide(r, s) \/ GatewayAsk(r, s)
  <2>1. /\ ApprovalRequired(k).pc = "ktool" /\ [k EXCEPT !.pc = "ktool"].pc = "ktool"
        /\ [k EXCEPT !.pc = "kask", !.len = Len(log[r])].pc = "kask"
    BY <1>0 DEF DriveRec, ApprovalRequired
  <2>2. \/ SetDrive(r, s, [k EXCEPT !.pc = "ktool"]) \/ SetDrive(r, s, ApprovalRequired(k))
        \/ SetDrive(r, s, [k EXCEPT !.pc = "kask", !.len = Len(log[r])])
        \/ SetDrive(r, s, Thrown(k))
    BY <1>4 DEF GatewayDecide, GatewayAsk
  <2> HIDE DEF Goal
  <2> QED BY <2>1, <2>2, <1>same, <1>pc, <1>thrown
<1>5. CASE KernelFinish(r, s)
  <2>1. ASSUME NEW p \in {"wread", "dread"}, NEW o, SetDrive(r, s, [k EXCEPT !.pc = p, !.outcome = o])
        PROVE  Goal(d)
    <3>1. [k EXCEPT !.pc = p, !.outcome = o].pc = p
      BY <1>0 DEF DriveRec
    <3> HIDE DEF Goal
    <3> QED BY <2>1, <3>1, <1>same, <1>pc
  <2> HIDE DEF Goal
  <2> QED BY <1>5, <1>thrown, <2>1 DEF KernelFinish
<1>6. CASE \/ KernelStarted(r, s) \/ KernelContext(r, s) \/ KernelResumed(r, s)
           \/ KernelWork(r, s) \/ KernelTool(r, s) \/ KernelToolEnd(r, s)
  BY <1>6, <1>append DEF KernelStarted, KernelContext, KernelResumed, KernelWork,
     KernelTool, KernelToolEnd
<1>7. CASE DriveStep(r, s)
  <2>1. CASE d = IdleDrive
    <3>1. d.pc \notin {"kopen", "kstart", "kprep", "kresume"}
      BY <2>1, IdleOK
    <3> QED BY <3>1, <1>later
  <2>2. ASSUME NEW p \in {"weval", "wterm", "dread", "dappend", "dcatch", "dfail"}, NEW n, NEW o,
               \/ d = [k EXCEPT !.pc = p]
               \/ d = [k EXCEPT !.pc = p, !.len = n]
               \/ d = [k EXCEPT !.pc = p, !.len = n, !.outcome = o]
        PROVE  Goal(d)
    <3>1. d.pc = p
      BY <1>0, <2>2 DEF DriveRec
    <3> HIDE DEF Goal
    <3> QED BY <3>1, <1>pc
  <2>3. CASE WrapperRead(r, s)
    <3> HIDE DEF Goal
    <3> QED BY <2>3, <2>2, <1>same DEF WrapperRead
  <2>4. CASE WrapperEval(r, s) \/ WrapperTerminal(r, s)
    <3> HIDE DEF Goal
    <3> QED BY <2>4, <2>2, <1>same DEF WrapperEval, WrapperTerminal, WrapperAppend
  <2>5. CASE \/ DriveRead(r, s) \/ DriveCatch(r, s) \/ DriveAppend(r, s) \/ DriveFail(r, s)
    <3> HIDE DEF Goal
    <3> QED BY <2>5, <2>1, <2>2, <1>same DEF DriveRead, DriveCatch, Look, DriveAppend, DriveFail,
            Complete
  <2> QED BY <1>7, <2>3, <2>4, <2>5 DEF DriveStep
<1> QED BY <1>1, <1>2, <1>3, <1>4, <1>5, <1>6, <1>7 DEF CallSteps, KernelStep


(* What the others store makes no stream less fresh, and adds no transcript *)
(* and no resumption.                                                       *)
LEMMA OthersKeepFresh ==
  ASSUME TypeOK, [Next]_vars, NEW r \in Runs, \A s \in Slots : ~CallSteps(r, s)
  PROVE  /\ Fresh(log[r]) => Fresh(log'[r])
         /\ \A t \in {"transcript", "resumed"} : HasType(log'[r], t) => HasType(log[r], t)
<1>1. CASE log'[r] = log[r]
  BY <1>1
<1>2. CASE log'[r] # log[r]
  <2>1. PICK e \in Event : log'[r] = Append(log[r], e) /\ MayArrive(r, e.type)
    BY <1>2, StreamStep
  <2>2. e.type \in {"queued", "failed", "approved", "denied"}
    BY <2>1 DEF MayArrive
  <2>3. \A t : HasType(log'[r], t) <=> HasType(log[r], t) \/ e.type = t
    BY <2>1, HasTypeOneMore, TypeParts DEF LogOK
  <2> QED BY <2>2, <2>3, FreshHas DEF RunningTypes, SuspendTypes
<1> QED BY <1>1, <1>2

(* A step of the Run's only drive stores run.resumed when it resumes, and   *)
(* no transcript before the agent runs.                                     *)
LEMMA DriveStores ==
  ASSUME TypeOK, SingleDrive, [Next]_vars, NEW r \in Runs, NEW s \in Slots,
         drive[r][s].pc # "idle"
  PROVE  /\ drive[r][s].pc # "kresume" /\ HasType(log'[r], "resumed") =>
              HasType(log[r], "resumed")
         /\ drive[r][s].pc \in {"kopen", "kstart", "kprep"} /\ HasType(log'[r], "transcript") =>
              HasType(log[r], "transcript")
<1>1. CASE log'[r] = log[r]
  BY <1>1
<1>2. CASE log'[r] # log[r]
  <2>1. PICK e \in Event : log'[r] = Append(log[r], e) /\ MayBeStored(r, e.type)
    BY <1>2, StreamStep
  <2>2. \A t : HasType(log'[r], t) <=> HasType(log[r], t) \/ e.type = t
    BY <2>1, HasTypeOneMore, TypeParts DEF LogOK
  <2>3. MayArrive(r, e.type) \/ MayStore(drive[r][s], log[r], e.type)
    <3>1. ASSUME NEW u \in Slots, MayStore(drive[r][u], log[r], e.type) PROVE u = s
      <4>1. drive[r][u].pc # "idle"
        BY <3>1 DEF MayStore, EndPCs
      <4> QED BY <4>1 DEF SingleDrive
    <3> QED BY <2>1, <3>1 DEF MayBeStored
  <2>4. drive[r][s] \in DriveRec
    BY TypeParts DEF DriveOK
  <2>5. MayArrive(r, e.type) => e.type \notin {"resumed", "transcript"}
    BY DEF MayArrive
  <2>6. MayStore(drive[r][s], log[r], e.type) =>
          /\ e.type = "resumed" => drive[r][s].pc = "kresume"
          /\ e.type = "transcript" => drive[r][s].pc \notin {"kopen", "kstart", "kprep"}
    BY <2>4 DEF MayStore, EndPCs, DriveRec, Outcomes, FinalTypes, SuspendTypes
  <2> QED BY <2>2, <2>3, <2>5, <2>6
<1> QED BY <1>1, <1>2

RecoveryInv == FinalIsLast /\ SingleInv /\ KnowsInv /\ WorkIsStarted /\ StartInv

LEMMA StartInvStep ==
  ASSUME TypeOK, RecoveryInv, [Next]_vars
  PROVE  StartInv'
<1>0. /\ BeginOK /\ DriveOK /\ LogOK
      /\ FinalIsLast /\ SingleInv /\ SingleDrive /\ KnowsInv /\ WorkIsStarted /\ StartInv
  BY TypeParts DEF RecoveryInv, SingleInv
<1> SUFFICES ASSUME NEW r \in Runs, NEW s \in Slots
             PROVE  /\ begin'[r][s].mode = "start" /\ begin'[r][s].pc \in {"ensure", "enqueue", "launch"}
                         => Fresh(log'[r])
                    /\ StartKnows(drive'[r][s], log'[r])
  BY DEF StartInv, StartKnows, Fresh, Marks
<1> DEFINE b == begin[r][s]
           c == begin'[r][s]
           k == drive[r][s]
           d == drive'[r][s]
           Committed == {"ensure", "enqueue", "launch"}
<1>a. b \in BeginRec /\ k \in DriveRec /\ StartKnows(k, log[r])
      /\ (b.mode = "start" /\ b.pc \in Committed => Fresh(log[r]))
  BY <1>0 DEF BeginOK, DriveOK, StartInv
<1>1. c.mode = "start" /\ c.pc \in Committed => Fresh(log'[r])
  <2> SUFFICES ASSUME c.mode = "start", c.pc \in Committed PROVE Fresh(log'[r])
    OBVIOUS
  <2>1. CASE b.pc \in Committed /\ b.mode = "start"
    <3>1. \A u \in Slots : ~CallSteps(r, u)
      BY <1>0, <2>1, KernelShape, DriveShape DEF CallSteps, SingleInv, CommittedAlone
    <3> QED BY <1>a, <2>1, <3>1, OthersKeepFresh
  <2>2. CASE ~(b.pc \in Committed /\ b.mode = "start")
    <3>1. SameCall(c, b) /\ BeginStep(r, s)
      <4>1. [b EXCEPT !.aborted = TRUE].pc = b.pc /\ [b EXCEPT !.aborted = TRUE].mode = b.mode
        BY <1>a DEF BeginRec
      <4> QED BY <2>2, <4>1, BeginChanges, IdleOK DEF BeginChange
    <3>2. b.mode = "start" /\ b.pc \notin Committed
      BY <2>2, <3>1 DEF SameCall
    <3>3. BeginProceed(r, s) \/ BeginReturn(r, s)
      BY <3>1, <3>2 DEF BeginStep, BeginEnsure, BeginEnqueue, BeginLaunch
    <3>4. ~BeginReturn(r, s)
      BY <1>0, SetBeginIs, IdleOK DEF BeginReturn
    <3>5. Fresh(log[r]) /\ log' = log
      BY <1>0, <3>2, <3>3, <3>4, QueuedIsFresh DEF BeginProceed, MustNotDrive
    <3> QED BY <3>5
  <2> QED BY <2>1, <2>2
<1>2. StartKnows(d, log'[r])
  <2>1. CASE CallSteps(r, s)
    <3> SUFFICES ASSUME d.mode = "start", d.pc # "idle" PROVE StartKnows(d, log'[r])
      BY DEF StartKnows
    <3>1. k.pc # "idle" /\ k.mode = "start"
      BY <2>1, CallKept, KernelShape, DriveShape DEF CallSteps, CallKeeps, SameCall
    <3>2. k.pc # "kresume" /\ ~HasType(log'[r], "resumed")
      BY <1>0, <1>a, <3>1, DriveStores DEF StartKnows
    <3>3. OpensOrPrepares(r, s, k, d)
      BY <2>1, AttemptOpens
    <3>4. CASE d.pc \notin {"kopen", "kstart", "kprep", "kresume"}
      BY <3>2, <3>4 DEF StartKnows
    <3>5. ASSUME KernelOpen(r, s)
          PROVE  /\ ~HasType(log[r], "started") /\ Fresh(log[r]) /\ log' = log
                 /\ Restored(r) => Kernel = "omp" /\ ~HasType(log[r], "transcript")
      <4>1. Fresh(log[r]) /\ log' = log
        BY <1>a, <3>1, <3>5 DEF KernelOpen, StartKnows
      <4>2. \A t \in FollowsStart \cup {"started"} : ~HasType(log[r], t)
        BY <1>0, <4>1, FreshIsUnworked
      <4>3. Restored(r) => Kernel = "omp"
        BY <4>2 DEF Restored, HasType, FollowsStart
      <4> QED BY <4>1, <4>2, <4>3 DEF FollowsStart
    <3>6. CASE KernelOpen(r, s) /\ d.pc = "kstart" /\ d.restored = Restored(r)
      BY <3>2, <3>5, <3>6 DEF StartKnows
    <3>7. CASE KernelOpen(r, s) /\ d.pc = "kprep" /\ HasType(log[r], "started")
      BY <3>5, <3>7
    <3>8. CASE k.pc \in {"kstart", "kprep"} /\ d.pc = "kprep" /\ d.restored = k.restored
      <4>1. k.restored => Kernel = "omp" /\ ~HasType(log[r], "transcript")
        BY <1>a, <3>1, <3>8 DEF StartKnows
      <4>2. HasType(log'[r], "transcript") => HasType(log[r], "transcript")
        BY <1>0, <3>1, <3>8, DriveStores
      <4> QED BY <3>2, <3>8, <4>1, <4>2 DEF StartKnows
    <3>9. CASE k.pc = "kprep" /\ k.restored /\ ~RestoreFails(r, s)
      BY <1>a, <3>1, <3>9 DEF StartKnows, RestoreFails
    <3> QED BY <3>2, <3>3, <3>4, <3>6, <3>7, <3>8, <3>9 DEF OpensOrPrepares
  <2>2. CASE ~CallSteps(r, s) /\ (d = k \/ d = [k EXCEPT !.aborted = TRUE])
    <3>1. d.pc = k.pc /\ d.mode = k.mode /\ d.restored = k.restored
      BY <1>a, <2>2 DEF DriveRec
    <3>2. CASE k.pc = "idle"
      BY <3>1, <3>2 DEF StartKnows
    <3>3. CASE k.pc # "idle"
      <4>1. \A u \in Slots : ~CallSteps(r, u)
        BY <1>0, <2>2, <3>3, KernelShape, DriveShape DEF CallSteps, SingleDrive
      <4>2. /\ Fresh(log[r]) => Fresh(log'[r])
            /\ \A t \in {"transcript", "resumed"} : HasType(log'[r], t) => HasType(log[r], t)
        BY <4>1, OthersKeepFresh
      <4> HIDE DEF d, k
      <4> QED BY <1>a, <3>1, <4>2 DEF StartKnows
    <3> QED BY <3>2, <3>3
  <2>3. CASE d = IdleDrive
    BY <2>3, IdleOK DEF StartKnows
  <2>4. CASE d = Launched(b) /\ BeginLaunch(r, s)
    <3>1. d.pc = "kopen" /\ d.mode = b.mode
      BY <2>4 DEF Launched, IdleDrive
    <3>2. b.pc = "launch" /\ log' = log
      BY <2>4 DEF BeginLaunch
    <3>3. b.mode = "start" => Fresh(log[r]) /\ ~HasType(log[r], "resumed")
      BY <1>0, <1>a, <3>2, FreshIsUnworked DEF FollowsStart
    <3> HIDE DEF d
    <3> QED BY <3>1, <3>2, <3>3 DEF StartKnows
  <2> QED BY <2>1, <2>2, <2>3, <2>4, DriveChanges DEF DriveChange, CallSteps
<1> QED BY <1>1, <1>2

(* start() never recovers: whatever crashed, stopped or answered before, an *)
(* attempt it launches restores nothing and its stream has no run.resumed;  *)
(* continuing a Run takes a resume().                                       *)
THEOREM OnlyResumeRecovers == Spec => []ExplicitRecovery
<1>1. Init => TypeOK /\ RecoveryInv
  <2> SUFFICES ASSUME Init PROVE TypeOK /\ RecoveryInv
    OBVIOUS
  <2>1. FinalIsLast /\ WorkIsStarted
    BY DEF Init, FinalIsLast, WorkIsStarted, HasType
  <2>2. SingleInv
    BY IdleOK DEF Init, SingleInv, OneBegin, CommittedAlone, SingleDrive
  <2>3. StartInv
    BY IdleOK DEF Init, StartInv, StartKnows
  <2> QED BY <2>1, <2>2, <2>3, TypeInit, KnowsInit DEF RecoveryInv
<1>2. TypeOK /\ RecoveryInv /\ [Next]_vars => TypeOK' /\ RecoveryInv'
  <2> SUFFICES ASSUME TypeOK, RecoveryInv, [Next]_vars PROVE TypeOK' /\ RecoveryInv'
    OBVIOUS
  <2>1. FinalIsLast'
    BY TypeStep, FinalIsLastStep, TypeParts DEF RecoveryInv
  <2> QED BY <2>1, TypeStep, SingleStep, KnowsStep, WorkIsStartedStep, StartInvStep DEF RecoveryInv
<1>3. RecoveryInv => ExplicitRecovery
  BY DEF RecoveryInv, StartInv, StartKnows, ExplicitRecovery
<1> QED BY <1>1, <1>2, <1>3, PTL DEF Spec


-----------------------------------------------------------------------------
(* What a completion resolved to.                                           *)

FinalIsLastOf(L) == \A i \in DOMAIN L : IsFinal(L[i]) => i = Len(L)

(* The status of a stream whose last event settles the Run.                 *)
LEMMA StatusOfSettled ==
  ASSUME NEW L \in Seq(Event), FinalIsLastOf(L), LastSettled(L)
  PROVE  Status(L) = L[Len(L)].type
<1> DEFINE n == Len(L)
           First(i) == IsFinal(L[i]) /\ \A j \in 1..(i - 1) : ~IsFinal(L[j])
           Greatest(i) == \A j \in Marks(L) : j <= i
<1>0. n \in Nat /\ DOMAIN L = 1..n /\ n \in DOMAIN L
  BY DEF LastSettled
<1>1. CASE IsFinal(L[n])
  <2>1. HasFinal(L)
    BY <1>0, <1>1 DEF HasFinal
  <2>2. First(n)
    BY <1>0, <1>1 DEF FinalIsLastOf
  <2>3. \A i \in DOMAIN L : First(i) => i = n
    BY DEF FinalIsLastOf
  <2>4. (CHOOSE i \in DOMAIN L : First(i)) = n
    <3> HIDE DEF First, n
    <3> QED BY <1>0, <2>2, <2>3
  <2>5. Status(L) = L[CHOOSE i \in DOMAIN L : First(i)].type
    BY <2>1 DEF Status
  <2>6. Status(L) = L[n].type
    <3> HIDE DEF First, n
    <3> QED BY <2>4, <2>5
  <2> QED BY <2>6
<1>2. CASE ~IsFinal(L[n])
  <2>1. ~HasFinal(L)
    BY <1>0, <1>2 DEF HasFinal, FinalIsLastOf
  <2>2. L[n].type \in SuspendTypes
    BY <1>2 DEF LastSettled, IsSettled, IsFinal
  <2>3. n \in Marks(L) /\ \A i \in Marks(L) : i \in 1..n
    BY <1>0, <2>2 DEF Marks
  <2>4. Greatest(n) /\ \A i \in Marks(L) : Greatest(i) => i = n
    BY <1>0, <2>3
  <2>5. (CHOOSE i \in Marks(L) : Greatest(i)) = n
    <3> HIDE DEF Greatest, n
    <3> QED BY <2>3, <2>4
  <2>6. Status(L) = LET last == L[CHOOSE i \in Marks(L) : Greatest(i)]
                    IN  IF last.type \in SuspendTypes THEN last.type ELSE "running"
    BY <2>1, <2>3 DEF Status
  <2>7. Status(L) = L[n].type
    <3> HIDE DEF Greatest, n
    <3> QED BY <2>2, <2>5, <2>6
  <2> QED BY <2>7
<1> QED BY <1>1, <1>2

(* An event that neither starts, suspends nor ends a Run leaves its status. *)
LEMMA StatusKept ==
  ASSUME NEW L \in Seq(Event), ~HasFinal(L), NEW e \in Event, e.type \in OtherTypes,
         NEW M, M = Append(L, e)
  PROVE  Status(M) = Status(L)
<1> DEFINE n == Len(L)
           Greatest(i) == \A j \in Marks(L) : j <= i
<1>0. /\ n \in Nat /\ DOMAIN L = 1..n /\ DOMAIN M = 1..(n + 1)
      /\ \A i \in 1..n : M[i] = L[i]
      /\ M[n + 1] = e
  BY OneMore
<1>a. e.type \notin FinalTypes /\ e.type \notin RunningTypes \cup SuspendTypes
  BY DEF OtherTypes, FinalTypes, RunningTypes, SuspendTypes
<1> HIDE DEF n
<1>b. \A i \in 1..(n + 1) : i \in 1..n \/ i = n + 1
  BY <1>0
<1>c. \A i \in 1..n : i \in 1..(n + 1)
  BY <1>0
<1>1. ~HasFinal(M)
  BY <1>0, <1>a, <1>b DEF HasFinal, IsFinal
<1>2. Marks(M) = Marks(L)
  BY <1>0, <1>a, <1>b, <1>c DEF Marks
<1>3. CASE Marks(L) = {}
  BY <1>1, <1>2, <1>3 DEF Status
<1>4. CASE Marks(L) # {}
  <2>1. Marks(L) \in SUBSET (0..n)
    BY <1>0 DEF Marks
  <2>2. \E i \in Marks(L) : Greatest(i)
    BY <1>0, <1>4, <2>1, LargestExists
  <2>3. (CHOOSE i \in Marks(L) : Greatest(i)) \in Marks(L)
    <3> HIDE DEF Greatest
    <3> QED BY <2>2
  <2>4. PICK m \in 1..n : m = CHOOSE i \in Marks(L) : Greatest(i)
    <3> HIDE DEF Greatest
    <3> QED BY <1>0, <2>3 DEF Marks
  <2>5. Status(L) = LET last == L[CHOOSE i \in Marks(L) : Greatest(i)]
                    IN  IF last.type \in SuspendTypes THEN last.type ELSE "running"
    BY <1>4 DEF Status
  <2>6. Status(M) = LET last == M[CHOOSE i \in Marks(M) : \A j \in Marks(M) : j <= i]
                    IN  IF last.type \in SuspendTypes THEN last.type ELSE "running"
    BY <1>1, <1>2, <1>4 DEF Status
  <2>7. Status(M) = LET last == M[CHOOSE i \in Marks(L) : Greatest(i)]
                    IN  IF last.type \in SuspendTypes THEN last.type ELSE "running"
    BY <1>2, <2>6
  <2>8. M[m] = L[m]
    BY <1>0
  <2> HIDE DEF Greatest
  <2> QED BY <2>4, <2>5, <2>7, <2>8
<1> QED BY <1>3, <1>4

LEMMA StatusOfEmpty == Status(<< >>) = "queued"
BY DEF Status, HasFinal, Marks

(* A drive that ends with an outcome leaves it in the stream.               *)
LEMMA EndIsStatus ==
  ASSUME TypeOK, FinalIsLast, NEW r \in Runs, NEW s \in Slots, DriveStep(r, s),
         LogOK', FinalIsLast', drive'[r][s].pc = "idle", result'[r] \in Outcomes
  PROVE  Status(log'[r]) = result'[r]
<1> DEFINE k == drive[r][s]
<1>0. /\ k \in DriveRec /\ DriveOK /\ LogOK /\ log[r] \in Seq(Event) /\ log'[r] \in Seq(Event)
      /\ FinalIsLastOf(log[r]) /\ FinalIsLastOf(log'[r])
      /\ result \in [Runs -> Outcomes \cup {"none", "rejected"}]
  BY DEF TypeOK, DriveOK, LogOK, FinalIsLast, FinalIsLastOf
<1>set. ASSUME NEW d, SetDrive(r, s, d) PROVE d.pc = "idle"
  <2>1. drive'[r][s] = d
    BY <1>0, <1>set, SetDriveIs
  <2> QED BY <2>1
<1>moves. ASSUME NEW p \in {"weval", "wterm", "dread", "dappend", "dcatch", "dfail"}, NEW n, NEW o
          PROVE  /\ ~SetDrive(r, s, [k EXCEPT !.pc = p])
                 /\ ~SetDrive(r, s, [k EXCEPT !.pc = p, !.len = n])
                 /\ ~SetDrive(r, s, [k EXCEPT !.pc = p, !.len = n, !.outcome = o])
  <2>1. /\ [k EXCEPT !.pc = p].pc = p
        /\ [k EXCEPT !.pc = p, !.len = n].pc = p
        /\ [k EXCEPT !.pc = p, !.len = n, !.outcome = o].pc = p
    BY <1>0 DEF DriveRec
  <2> QED BY <2>1, <1>set
<1>stored. ASSUME NEW o \in Outcomes, Store(r, o, "runtime"), Complete(r, s, o)
           PROVE  Status(log'[r]) = result'[r]
  <2> DEFINE e == [type |-> o, by |-> "runtime"]
  <2>1. e \in Event /\ e.type = o /\ IsSettled(e)
    BY DEF Event, EventTypes, Outcomes, Writers, IsSettled
  <2>2. log'[r] = Append(log[r], e)
    BY <1>0, <1>stored, AppendIs
  <2> HIDE DEF e
  <2>3. Len(log'[r]) = Len(log[r]) + 1 /\ log'[r][Len(log[r]) + 1] = e /\ log'[r] # << >>
    BY <1>0, <2>1, <2>2
  <2>4. LastSettled(log'[r])
    BY <2>1, <2>3 DEF LastSettled
  <2>5. result'[r] = o
    BY <1>0, <1>stored DEF Complete
  <2> QED BY <1>0, <2>1, <2>3, <2>4, <2>5, StatusOfSettled
<1>looked. ASSUME LastSettled(log[r]), UNCHANGED log, Complete(r, s, log[r][Len(log[r])].type)
           PROVE  Status(log'[r]) = result'[r]
  <2>1. result'[r] = log[r][Len(log[r])].type
    BY <1>0, <1>looked DEF Complete
  <2> QED BY <1>0, <1>looked, <2>1, StatusOfSettled
<1> HIDE DEF k
<1>1. ~WrapperRead(r, s)
  BY <1>moves DEF WrapperRead, k
<1>2. ~WrapperEval(r, s) /\ ~WrapperTerminal(r, s)
  BY <1>moves DEF WrapperEval, WrapperTerminal, WrapperAppend, k
<1>3. CASE DriveRead(r, s) \/ DriveCatch(r, s)
  BY <1>3, <1>moves, <1>looked DEF DriveRead, DriveCatch, Look, k
<1>4. CASE DriveAppend(r, s)
  <2>1. k.outcome \in Outcomes
    BY <1>0, <1>4 DEF DriveAppend, DriveRec, k
  <2> QED BY <1>4, <2>1, <1>moves, <1>stored DEF DriveAppend, k
<1>5. CASE DriveFail(r, s)
  <2>1. "failed" \in Outcomes /\ "rejected" \notin Outcomes
    BY DEF Outcomes, FinalTypes, SuspendTypes
  <2>2. Complete(r, s, "rejected") => result'[r] = "rejected"
    BY <1>0 DEF Complete
  <2> QED BY <1>5, <2>1, <2>2, <1>stored DEF DriveFail
<1> QED BY <1>1, <1>2, <1>3, <1>4, <1>5 DEF DriveStep


-----------------------------------------------------------------------------
(* Settlement at boot.                                                      *)

(* A Host that settles interrupted Runs when it boots, or never, drives     *)
(* nothing while it settles.                                                *)
BootInv ==
  settle.pc # "done" =>
    SettlePolicy = "boot" /\ \A r \in Runs : result[r] = "none" /\ ~Active(r) /\ ~InFlight(r)

LEMMA BootInit ==
  ASSUME SettlePolicy # "anytime", Init
  PROVE  BootInv
BY IdleOK DEF Init, BootInv, NewSettle, Active, InFlight

LEMMA BootStep ==
  ASSUME SettlePolicy # "anytime", TypeOK, BootInv, [Next]_vars
  PROVE  BootInv'
<1> SUFFICES ASSUME settle'.pc # "done"
             PROVE  SettlePolicy = "boot" /\ \A r \in Runs : result'[r] = "none" /\ ~Active(r)' /\ ~InFlight(r)'
  BY DEF BootInv
<1>1. CASE Crash
  BY <1>1, IdleOK DEF Crash, NewSettle, Active, InFlight
<1>2. ASSUME settle.pc # "done", UNCHANGED <<begin, drive, result>>
      PROVE  SettlePolicy = "boot" /\ \A r \in Runs : result'[r] = "none" /\ ~Active(r)' /\ ~InFlight(r)'
  BY <1>2 DEF BootInv, Active, InFlight
<1>3. CASE SettleStep
  <2>1. settle.pc # "done"
    BY <1>3 DEF SettleStep, SettleCall, SettleCheck, SettleRead, SettleAppend, SettleEnd
  <2> QED BY <1>2, <1>3, <2>1, SettleShape DEF SettleUnchanged
<1>4. CASE settle.pc # "done" /\ ~SettleStep /\ ~Crash
  <2>1. ~Serving /\ \A r \in Runs : ~Active(r) /\ ~InFlight(r)
    BY <1>4 DEF BootInv, Serving
  <2>2. \A r \in Runs, s \in Slots : ~BeginStep(r, s) /\ ~KernelStep(r, s) /\ ~DriveStep(r, s)
    BY <2>1, BeginShape, KernelShape, DriveShape DEF Active, InFlight
  <2>3. UNCHANGED <<begin, drive, result>>
    BY <1>4, <2>1, <2>2 DEF Next, Client, Begin, Stop, AnswerRead, AnswerAppend, Close, vars
  <2> QED BY <1>2, <1>4, <2>3
<1>5. settle' = settle \/ SettleStep \/ Crash
  <2>1. ASSUME NEW r \in Runs, NEW s \in Slots, BeginStep(r, s) \/ KernelStep(r, s) \/ DriveStep(r, s)
        PROVE  settle' = settle
    BY <2>1, BeginShape, KernelShape, DriveShape DEF KernelUnchanged, DriveUnchanged
  <2> QED BY <2>1 DEF Next, Client, Begin, Stop, AnswerRead, AnswerAppend, Close, vars
<1> QED BY <1>1, <1>3, <1>4, <1>5

(* Called at boot, or never, settleInterrupted writes only to Runs that     *)
(* nothing in this process drives or is about to drive.                     *)
THEOREM SettlementSparesAttempts ==
  ASSUME SettlePolicy # "anytime"
  PROVE  Spec => SettleSparesActive
<1>1. Init => TypeOK /\ BootInv
  BY TypeInit, BootInit
<1>2. TypeOK /\ BootInv /\ [Next]_vars => TypeOK' /\ BootInv'
  BY TypeStep, BootStep
<1>3. TypeOK /\ BootInv /\ [Next]_vars =>
        [SettleStep /\ log' # log => ~Active(settle.run) /\ ~InFlight(settle.run)]_vars
  <2> SUFFICES ASSUME TypeOK, BootInv, SettleStep, log' # log
               PROVE  ~Active(settle.run) /\ ~InFlight(settle.run)
    OBVIOUS
  <2>1. settle.pc = "append"
    BY DEF SettleStep, SettleCall, SettleCheck, SettleRead, SettleAppend, SettleEnd
  <2>2. settle.run \in Runs
    BY TypeParts DEF SettleType
  <2> QED BY <2>1, <2>2 DEF BootInv
<1> QED BY <1>1, <1>2, <1>3, PTL DEF Spec, SettleSparesActive

-----------------------------------------------------------------------------
(* What a completion resolved to.                                           *)

ResultInv == \A r \in Runs : result[r] \in Outcomes /\ ~Active(r) => Status(log[r]) = result[r]

(* Only the end of a drive gives its Run a result.                          *)
LEMMA ResultChange ==
  ASSUME TypeOK, [Next]_vars, NEW r \in Runs, \A s \in Slots : ~DriveStep(r, s)
  PROVE  result'[r] = result[r] \/ (result'[r] = "none" /\ UNCHANGED log)
<1>0. result \in [Runs -> Outcomes \cup {"none", "rejected"}]
  BY DEF TypeOK
<1>1. ASSUME NEW q \in Runs, NEW s \in Slots, DriveStep(q, s) PROVE result'[r] = result[r]
  <2>1. q # r
    BY <1>1
  <2> QED BY <1>0, <1>1, <2>1, DriveShape DEF DriveEnds, Complete
<1>2. ASSUME NEW q \in Runs, NEW s \in Slots, BeginStep(q, s) \/ KernelStep(q, s)
      PROVE  result' = result
  BY <1>2, BeginShape, KernelShape DEF KernelUnchanged
<1>3. CASE SettleStep
  BY <1>3, SettleShape DEF SettleUnchanged
<1> QED BY <1>1, <1>2, <1>3 DEF Next, Client, Begin, Stop, AnswerRead, AnswerAppend, Close, Crash, vars

(* A Run nothing drives, and whose call takes no step, was not driven.      *)
LEMMA StillInactive ==
  ASSUME TypeOK, [Next]_vars, NEW r \in Runs, \A s \in Slots : ~CallSteps(r, s),
         ~Active(r)', result'[r] # "none"
  PROVE  ~Active(r)
<1> SUFFICES ASSUME NEW s \in Slots PROVE drive[r][s].pc = "idle"
  BY DEF Active
<1>0. drive[r][s] \in DriveRec /\ drive'[r][s].pc = "idle"
  BY TypeParts DEF DriveOK, Active
<1>1. CASE drive'[r][s] = [drive[r][s] EXCEPT !.aborted = TRUE]
  BY <1>0, <1>1 DEF DriveRec
<1>2. ~Crash
  BY DEF Crash
<1>3. drive'[r][s] # Launched(begin[r][s])
  BY <1>0 DEF Launched, IdleDrive
<1> QED BY <1>0, <1>1, <1>2, <1>3, DriveChanges DEF DriveChange, CallSteps

LEMMA ResultStep ==
  ASSUME SettlePolicy # "anytime", TypeOK, FinalIsLast, BootInv, ResultInv, [Next]_vars
  PROVE  ResultInv'
<1> SUFFICES ASSUME NEW r \in Runs, result'[r] \in Outcomes, ~Active(r)'
             PROVE  Status(log'[r]) = result'[r]
  BY DEF ResultInv
<1>0. TypeOK' /\ FinalIsLast' /\ LogOK' /\ DriveOK /\ log[r] \in Seq(Event)
  BY TypeStep, FinalIsLastStep, TypeParts DEF TypeOK, LogOK
<1>1. ASSUME NEW s \in Slots, CallSteps(r, s) PROVE Status(log'[r]) = result'[r]
  <2>1. drive'[r][s].pc = "idle"
    BY DEF Active
  <2>2. ~KernelStep(r, s)
    BY <1>0, <2>1, KernelShape, SetDriveIs DEF DriveMoves
  <2> QED BY <1>0, <1>1, <2>1, <2>2, EndIsStatus DEF CallSteps
<1>2. CASE \A s \in Slots : ~CallSteps(r, s)
  <2>0. result'[r] # "none" /\ "queued" \notin Outcomes
    BY DEF Outcomes, FinalTypes, SuspendTypes
  <2>1. result[r] = result'[r]
    BY <1>2, <2>0, ResultChange DEF CallSteps
  <2>2. Status(log[r]) = result[r]
    BY <1>2, <2>0, <2>1, StillInactive DEF ResultInv
  <2>3. CASE log'[r] = log[r]
    BY <2>1, <2>2, <2>3
  <2>4. CASE log'[r] # log[r]
    <3>1. PICK e \in Event : log'[r] = Append(log[r], e) /\ ~HasFinal(log[r]) /\ MayArrive(r, e.type)
      BY <1>2, <2>4, StreamStep
    <3>2. log[r] # << >>
      BY <2>0, <2>1, <2>2, StatusOfEmpty
    <3>3. settle.pc # "append"
      BY <2>0, <2>1 DEF BootInv
    <3>4. e.type \in OtherTypes
      BY <3>1, <3>2, <3>3 DEF MayArrive, OtherTypes
    <3> QED BY <1>0, <2>1, <2>2, <3>1, <3>4, StatusKept
  <2> QED BY <2>3, <2>4
<1> QED BY <1>1, <1>2

(* What start() or resume() told its caller is what every later reader of   *)
(* the Run sees, until someone resumes it, in a Host that settles at boot   *)
(* or never.                                                                *)
THEOREM ResultsAreDurable ==
  ASSUME SettlePolicy # "anytime"
  PROVE  Spec => []ResultIsDurable
<1> DEFINE IInv == TypeOK /\ FinalIsLast /\ BootInv /\ ResultInv
<1>1. Init => IInv
  <2>1. Init => ResultInv
    BY DEF Init, ResultInv, Outcomes, FinalTypes, SuspendTypes
  <2>2. Init => FinalIsLast
    BY DEF Init, FinalIsLast
  <2> QED BY <2>1, <2>2, TypeInit, BootInit
<1>2. IInv /\ [Next]_vars => IInv'
  BY TypeStep, TypeParts, FinalIsLastStep, BootStep, ResultStep
<1>3. IInv => ResultIsDurable
  BY DEF ResultInv, ResultIsDurable
<1> QED BY <1>1, <1>2, <1>3, PTL DEF Spec


-----------------------------------------------------------------------------
(* The lifecycle.                                                           *)

(* Nothing is stored, begun, driven, settled or answered of a Run that is   *)
(* not claimed.                                                             *)
Untouched(r) ==
  /\ log[r] = << >> /\ ~InFlight(r) /\ ~Active(r) /\ approver[r].pc = "idle"
  /\ r \notin settle.todo /\ (settle.pc \in {"read", "append"} => settle.run # r)

ClaimedInv == \A r \in Runs : r \notin claimed => Untouched(r)

LEMMA ClaimedGrows ==
  ASSUME TypeOK, [Next]_vars
  PROVE  \/ UNCHANGED claimed
         \/ UNCHANGED log /\ \E r \in Runs : claimed' = claimed \cup {r}
<1>1. ASSUME NEW r \in Runs, NEW s \in Slots, BeginStep(r, s) \/ KernelStep(r, s) \/ DriveStep(r, s)
      PROVE  UNCHANGED claimed
  BY <1>1, BeginShape, KernelShape, DriveShape DEF KernelUnchanged, DriveUnchanged
<1>2. CASE SettleStep
  BY <1>2, SettleShape DEF SettleUnchanged
<1> QED BY <1>1, <1>2 DEF Next, Client, Begin, Stop, AnswerRead, AnswerAppend, Close, Crash, vars

(* The settlement takes up claimed Runs, an approver Runs with a request.   *)
LEMMA OthersTouch ==
  ASSUME TypeOK, [Next]_vars, NEW r \in Runs, Untouched(r), r \notin claimed
  PROVE  /\ approver'[r].pc = "idle"
         /\ r \notin settle'.todo /\ (settle'.pc \in {"read", "append"} => settle'.run # r)
<1>0. ApproverType /\ SettleType
  BY TypeParts
<1> DEFINE Apart == r \notin settle'.todo /\ (settle'.pc \in {"read", "append"} => settle'.run # r)
<1>1. ASSUME UNCHANGED settle PROVE Apart
  BY <1>1 DEF Untouched
<1>2. CASE SettleStep
  <2>1. ASSUME SettleCall PROVE Apart
    BY <1>0, <2>1 DEF SettleCall, SettleType
  <2>2. ASSUME NEW q \in Runs, SettleCheck(q) PROVE Apart
    BY <1>0, <2>2 DEF SettleCheck, SettleType, Untouched
  <2>3. ASSUME SettleRead \/ SettleAppend \/ SettleEnd PROVE Apart
    BY <1>0, <2>3 DEF SettleRead, SettleAppend, SettleEnd, SettleType, Untouched
  <2>4. Apart
    BY <1>2, <2>1, <2>2, <2>3 DEF SettleStep
  <2> QED BY <1>2, <2>4, SettleShape DEF SettleUnchanged, Untouched
<1>3. CASE Crash
  <2>1. settle'.todo = {} /\ settle'.pc \in {"boot", "done"}
    BY <1>3 DEF Crash, NewSettle
  <2> QED BY <1>3, <2>1 DEF Crash, IdleApprover
<1>4. ASSUME NEW q \in Runs, AnswerRead(q) PROVE Apart /\ approver'[r].pc = "idle"
  <2>1. q # r
    BY <1>4 DEF AnswerRead, Requested, HasType, Untouched
  <2> QED BY <1>0, <1>1, <1>4, <2>1 DEF AnswerRead, ApproverType, Untouched
<1>5. ASSUME NEW q \in Runs, AnswerAppend(q) PROVE Apart /\ approver'[r].pc = "idle"
  BY <1>0, <1>1, <1>5 DEF AnswerAppend, ApproverType, IdleApprover, Untouched
<1>6. ASSUME UNCHANGED <<approver, settle>> PROVE Apart /\ approver'[r].pc = "idle"
  BY <1>1, <1>6 DEF Untouched
<1>7. ASSUME NEW q \in Runs, NEW s \in Slots, BeginStep(q, s) \/ KernelStep(q, s) \/ DriveStep(q, s)
      PROVE  UNCHANGED <<approver, settle>>
  BY <1>7, BeginShape, KernelShape, DriveShape DEF KernelUnchanged, DriveUnchanged
<1> HIDE DEF Apart
<1>8. Apart /\ approver'[r].pc = "idle"
  BY <1>2, <1>3, <1>4, <1>5, <1>6, <1>7 DEF Next, Client, Begin, Stop, Close, vars, Apart
<1> QED BY <1>8 DEF Apart

LEMMA ClaimedStep ==
  ASSUME TypeOK, ClaimedInv, [Next]_vars
  PROVE  ClaimedInv'
<1> SUFFICES ASSUME NEW r \in Runs, r \notin claimed' PROVE Untouched(r)'
  BY DEF ClaimedInv
<1>0. r \notin claimed /\ Untouched(r)
  BY ClaimedGrows DEF ClaimedInv
<1>1. \A s \in Slots : drive[r][s].pc = "idle" /\ begin[r][s].pc = "idle"
  BY <1>0 DEF Untouched, Active, InFlight
<1>2. \A s \in Slots : ~KernelStep(r, s) /\ ~DriveStep(r, s) /\ ~BeginStep(r, s)
  BY <1>1, BeginShape, KernelShape, DriveShape
<1>3. log'[r] = << >>
  <2> SUFFICES ASSUME log'[r] # log[r] PROVE FALSE
    BY <1>0 DEF Untouched
  <2>1. PICK t \in EventTypes : MayArrive(r, t)
    BY <1>2, StreamStep DEF CallSteps, Event
  <2> QED BY <1>0, <1>1, <2>1 DEF MayArrive, Untouched
<1>4. ASSUME NEW s \in Slots PROVE drive'[r][s].pc = "idle" /\ begin'[r][s].pc = "idle"
  <2>1. drive[r][s] \in DriveRec /\ begin[r][s] \in BeginRec
    BY TypeParts DEF DriveOK, BeginOK
  <2>2. [drive[r][s] EXCEPT !.aborted = TRUE].pc = "idle" /\ [begin[r][s] EXCEPT !.aborted = TRUE].pc = "idle"
    BY <1>1, <2>1 DEF DriveRec, BeginRec
  <2>3. ~BeginLaunch(r, s)
    BY <1>2 DEF BeginStep
  <2>4. drive'[r][s].pc = "idle"
    BY <1>1, <1>2, <2>2, <2>3, IdleOK, DriveChanges DEF DriveChange
  <2>5. begin'[r][s].pc = "idle"
    BY <1>1, <1>2, <2>2, IdleOK, BeginChanges DEF BeginChange
  <2> QED BY <2>4, <2>5
<1> QED BY <1>0, <1>3, <1>4, OthersTouch DEF Untouched, Active, InFlight

-----------------------------------------------------------------------------
(* The status a stream gives, one event later.                              *)
LEMMA StatusOfOpen ==
  ASSUME NEW L, ~HasFinal(L)
  PROVE  /\ Status(L) \in {"queued", "running"} \cup SuspendTypes
         /\ Marks(L) # {} => Status(L) # "queued"
<1>1. CASE Marks(L) = {}
  BY <1>1 DEF Status
<1>2. CASE Marks(L) # {}
  <2> DEFINE last == L[CHOOSE i \in Marks(L) : \A j \in Marks(L) : j <= i]
  <2>1. Status(L) = IF last.type \in SuspendTypes THEN last.type ELSE "running"
    BY <1>2 DEF Status
  <2> HIDE DEF last
  <2> QED BY <2>1 DEF SuspendTypes
<1> QED BY <1>1, <1>2

LEMMA StatusOfRunning ==
  ASSUME NEW L \in Seq(Event), ~HasFinal(L), NEW e \in Event, e.type \in RunningTypes,
         NEW M, M = Append(L, e)
  PROVE  Status(M) = "running"
<1> DEFINE n == Len(M)
           Greatest(i) == \A j \in Marks(M) : j <= i
<1>0. /\ n \in Nat /\ DOMAIN M = 1..n /\ n \in DOMAIN M /\ M[n] = e
      /\ \A i \in DOMAIN M : i = n \/ (i \in DOMAIN L /\ M[i] = L[i])
  <2>1. /\ Len(L) \in Nat /\ n = Len(L) + 1 /\ DOMAIN L = 1..Len(L) /\ DOMAIN M = 1..n
        /\ \A i \in 1..Len(L) : M[i] = L[i]
        /\ M[n] = e
    BY OneMore
  <2> HIDE DEF n
  <2>2. \A i \in 1..n : i = n \/ i \in 1..Len(L)
    BY <2>1
  <2> QED BY <2>1, <2>2
<1>a. e.type \notin FinalTypes \cup SuspendTypes
  BY DEF RunningTypes, FinalTypes, SuspendTypes
<1> HIDE DEF n
<1>1. ~HasFinal(M)
  BY <1>0, <1>a DEF HasFinal, IsFinal
<1>2. n \in Marks(M) /\ \A i \in Marks(M) : i \in 1..n
  BY <1>0 DEF Marks
<1>3. Greatest(n) /\ \A i \in Marks(M) : Greatest(i) => i = n
  BY <1>0, <1>2
<1>4. (CHOOSE i \in Marks(M) : Greatest(i)) = n
  <2> HIDE DEF Greatest
  <2> QED BY <1>2, <1>3
<1>5. Status(M) = LET last == M[CHOOSE i \in Marks(M) : Greatest(i)]
                  IN  IF last.type \in SuspendTypes THEN last.type ELSE "running"
  BY <1>1, <1>2 DEF Status
<1> HIDE DEF Greatest
<1> QED BY <1>0, <1>a, <1>4, <1>5

LEMMA StatusOfEnd ==
  ASSUME LogOK, LogOK', FinalIsLast', NEW r \in Runs, NEW e \in Event, IsSettled(e), log'[r] = Append(log[r], e)
  PROVE  Status(log'[r]) = e.type
<1>1. /\ log[r] \in Seq(Event) /\ log'[r] \in Seq(Event) /\ FinalIsLastOf(log'[r])
  BY DEF LogOK, FinalIsLast, FinalIsLastOf
<1>2. Len(log'[r]) = Len(log[r]) + 1 /\ log'[r][Len(log[r]) + 1] = e /\ log'[r] # << >>
  BY <1>1
<1> QED BY <1>1, <1>2, StatusOfSettled DEF LastSettled

(* A Run is suspended only after it started.                                *)
LEMMA SuspendsStarted ==
  ASSUME TypeOK, KnowsInv, NEW r \in Runs, NEW t \in SuspendTypes, MayBeStored(r, t)
  PROVE  Marks(log[r]) # {}
<1>1. PICK s \in Slots : MayStore(drive[r][s], log[r], t)
  BY DEF MayBeStored, MayArrive, SuspendTypes
<1>2. drive[r][s] \in DriveRec /\ DriveKnows(drive[r][s], log[r])
  BY TypeParts DEF DriveOK, KnowsInv
<1>3. drive[r][s].pc \in Working \/ (drive[r][s].pc \in Ended /\ drive[r][s].outcome # "failed")
  BY <1>1, <1>2 DEF MayStore, EndPCs, SuspendTypes, Working, Ended
<1>4. HasType(log[r], "started")
  BY <1>2, <1>3 DEF DriveKnows, KnowsStarted
<1> QED BY <1>4 DEF HasType, Marks, RunningTypes


(* The status a client reads, and the invariant the lifecycle rests on.     *)
StatusBar == [r \in Runs |-> IF r \in claimed THEN Status(log[r]) ELSE "unclaimed"]

LifecycleInv == TypeOK /\ FinalIsLast /\ KnowsInv /\ ClaimedInv

LEMMA LifecycleInvAlways == Spec => []LifecycleInv
<1>1. Init => LifecycleInv
  <2>1. Init => FinalIsLast
    BY DEF Init, FinalIsLast
  <2>2. Init => ClaimedInv
    BY IdleOK DEF Init, ClaimedInv, Untouched, InFlight, Active, IdleApprover, NewSettle
  <2> QED BY <2>1, <2>2, TypeInit, KnowsInit DEF LifecycleInv
<1>2. LifecycleInv /\ [Next]_vars => LifecycleInv'
  BY TypeStep, TypeParts, FinalIsLastStep, KnowsStep, ClaimedStep DEF LifecycleInv
<1> QED BY <1>1, <1>2, PTL DEF Spec

(* A step that changes the status of one Run is a step of the lifecycle as  *)
(* soon as that change is allowed.                                          *)
LEMMA BecomeIs ==
  ASSUME NEW r \in Runs, StatusBar'[r] # StatusBar[r],
         \A q \in Runs : q # r => StatusBar'[q] = StatusBar[q]
  PROVE  /\ StatusBar[r] = "unclaimed" /\ StatusBar'[r] = "queued" => Lifecycle!Next
         /\ StatusBar[r] \in {"queued"} \cup SuspendTypes /\ StatusBar'[r] = "running" => Lifecycle!Next
         /\ StatusBar[r] = "running" /\ StatusBar'[r] \in SuspendTypes => Lifecycle!Next
         /\ StatusBar[r] \in {"queued", "running"} \cup SuspendTypes /\ StatusBar'[r] \in FinalTypes
              => Lifecycle!Next
<1> DEFINE to == StatusBar'[r]
<1>1. StatusBar' = [StatusBar EXCEPT ![r] = to]
  BY DEF StatusBar
<1> HIDE DEF to
<1>3. ASSUME to = "queued", StatusBar[r] = "unclaimed" PROVE Lifecycle!Claim(r)
  BY <1>1, <1>3 DEF StatusBar, Lifecycle!Claim, Lifecycle!Become
<1>4. ASSUME to = "running", StatusBar[r] \in {"queued"} \cup SuspendTypes PROVE Lifecycle!Run(r)
  BY <1>1, <1>4 DEF StatusBar, Lifecycle!Run, Lifecycle!Become, Lifecycle!Suspended, SuspendTypes
<1>5. ASSUME to \in SuspendTypes, StatusBar[r] = "running" PROVE Lifecycle!Suspend(r)
  BY <1>1, <1>5 DEF StatusBar, Lifecycle!Suspend, Lifecycle!Become, Lifecycle!Suspended, SuspendTypes
<1>6. ASSUME to \in FinalTypes, StatusBar[r] \in {"queued", "running"} \cup SuspendTypes
      PROVE  Lifecycle!Finish(r)
  BY <1>1, <1>6 DEF StatusBar, Lifecycle!Finish, Lifecycle!Become, Lifecycle!Final, Lifecycle!Suspended, FinalTypes, SuspendTypes
<1> QED BY <1>3, <1>4, <1>5, <1>6 DEF Lifecycle!Next, to

LEMMA LifecycleStep ==
  ASSUME LifecycleInv, LifecycleInv', [Next]_vars
  PROVE  [Lifecycle!Next]_StatusBar
<1>0. /\ TypeOK /\ TypeOK' /\ LogOK /\ LogOK' /\ FinalIsLast' /\ KnowsInv /\ ClaimedInv'
      /\ claimed \subseteq Runs
  BY TypeParts DEF LifecycleInv, TypeOK
<1>1. ASSUME NEW r \in Runs, UNCHANGED log, claimed' = claimed \cup {r}
      PROVE  [Lifecycle!Next]_StatusBar
  <2>1. CASE r \in claimed
    BY <1>1, <2>1 DEF StatusBar
  <2>2. CASE r \notin claimed
    <3>1. log[r] = << >>
      BY <2>2 DEF LifecycleInv, ClaimedInv, Untouched
    <3>2. StatusBar[r] = "unclaimed" /\ StatusBar'[r] = "queued"
      BY <1>1, <2>2, <3>1, StatusOfEmpty DEF StatusBar
    <3>3. \A q \in Runs : q # r => StatusBar'[q] = StatusBar[q]
      BY <1>1 DEF StatusBar
    <3> QED BY <3>2, <3>3, BecomeIs
  <2> QED BY <2>1, <2>2
<1>2. CASE UNCHANGED <<claimed, log>>
  BY <1>2 DEF StatusBar
<1>3. ASSUME UNCHANGED claimed, NEW r \in Runs, log'[r] # log[r]
      PROVE  [Lifecycle!Next]_StatusBar
  <2>1. PICK e \in Event : /\ log'[r] = Append(log[r], e) /\ ~HasFinal(log[r]) /\ MayBeStored(r, e.type)
                           /\ \A q \in Runs : q # r => log'[q] = log[q]
    BY <1>0, <1>3, StreamStep
  <2>2. r \in claimed
    <3> SUFFICES ASSUME r \notin claimed PROVE FALSE
      OBVIOUS
    <3>1. log[r] = << >> /\ log'[r] = << >>
      BY <1>0, <1>3 DEF LifecycleInv, ClaimedInv, Untouched
    <3> QED BY <1>3, <3>1
  <2>3. /\ StatusBar[r] = Status(log[r]) /\ StatusBar'[r] = Status(log'[r])
        /\ \A q \in Runs : q # r => StatusBar'[q] = StatusBar[q]
    BY <1>3, <2>1, <2>2 DEF StatusBar
  <2>4. /\ StatusBar[r] \in {"queued", "running"} \cup SuspendTypes
        /\ Marks(log[r]) # {} => StatusBar[r] # "queued"
    BY <2>1, <2>3, StatusOfOpen
  <2>5. log[r] \in Seq(Event)
    BY <1>0 DEF LogOK
  <2>6. CASE e.type \in FinalTypes
    <3>1. StatusBar'[r] \in FinalTypes
      BY <1>0, <2>1, <2>3, <2>6, StatusOfEnd DEF IsSettled
    <3>2. StatusBar'[r] # StatusBar[r]
      BY <2>4, <3>1 DEF FinalTypes, SuspendTypes
    <3> QED BY <2>3, <2>4, <3>1, <3>2, BecomeIs
  <2>7. CASE e.type \in SuspendTypes
    <3>1. StatusBar'[r] \in SuspendTypes /\ StatusBar'[r] = e.type
      BY <1>0, <2>1, <2>3, <2>7, StatusOfEnd DEF IsSettled
    <3>2. StatusBar[r] \in {"running"} \cup SuspendTypes
      BY <1>0, <2>1, <2>4, <2>7, SuspendsStarted
    <3>3. CASE StatusBar[r] = "running"
      BY <2>3, <3>1, <3>3, BecomeIs DEF SuspendTypes
    <3>4. CASE StatusBar[r] \in SuspendTypes
      <4>1. StatusBar'[r] = StatusBar[r]
        BY <3>1, <3>4 DEF SuspendTypes
      <4> QED BY <2>3, <4>1 DEF StatusBar
    <3> QED BY <3>2, <3>3, <3>4
  <2>8. CASE e.type \in RunningTypes
    <3>1. StatusBar'[r] = "running"
      BY <2>1, <2>3, <2>5, <2>8, StatusOfRunning
    <3>2. CASE StatusBar[r] = "running"
      BY <2>3, <3>1, <3>2 DEF StatusBar
    <3> QED BY <2>3, <2>4, <3>1, <3>2, BecomeIs
  <2>9. CASE e.type \in OtherTypes
    <3>1. StatusBar'[r] = StatusBar[r]
      BY <2>1, <2>3, <2>5, <2>9, StatusKept
    <3> QED BY <2>3, <3>1 DEF StatusBar
  <2> QED BY <2>6, <2>7, <2>8, <2>9 DEF Event, EventTypes
<1>4. CASE UNCHANGED claimed /\ \A r \in Runs : log'[r] = log[r]
  BY <1>4 DEF StatusBar
<1> QED BY <1>0, <1>1, <1>2, <1>3, <1>4, ClaimedGrows

LEMMA LifecycleInit == Init => Lifecycle!Init
BY DEF Init, Lifecycle!Init

(* The runtime implements the lifecycle: a Run is claimed once, runs only   *)
(* from queued or from a suspension, is suspended only while running, and a *)
(* terminal status is for ever, whatever starts, resumes, stops, answers,   *)
(* settlements and crashes of the Host are in progress.                     *)
THEOREM RuntimeImplementsLifecycle == Spec => ImplementsLifecycle
<1>1. LifecycleInv /\ LifecycleInv' /\ [Next]_vars => [Lifecycle!Next]_StatusBar
  BY LifecycleStep
<1> QED BY <1>1, LifecycleInit, LifecycleInvAlways, PTL
        DEF Spec, ImplementsLifecycle, Lifecycle!Spec, StatusBar
===============================================================================
