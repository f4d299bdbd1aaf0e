------------------------ MODULE ToolGatewayRefines ------------------------
(***************************************************************************)
(* ToolGateway implements EffectOnce, for any constants: every step of a    *)
(* call opens, performs, settles or tells an effect, or changes none.       *)
(***************************************************************************)
EXTENDS ToolGatewayProofs

(* What EffectOnce sees of a stream, of the ledger and of the calls.        *)
View(s) == IF Len(s) = 2 THEN s[2].result ELSE IF Len(s) # 0 THEN "open" ELSE "none"

StateBar == [k \in Keys |-> IF IsRecorded(k) THEN Recorded(k)
                            ELSE IF HasStarted(k) THEN "open" ELSE "none"]
ToldBar  == [c \in Calls |-> IF Informed(c) THEN calls[c].outcome ELSE "none"]

LEMMA StateIsView == Core => StateBar = [k \in Keys |-> View(effects[k])]
<1> SUFFICES ASSUME Core, NEW k \in Keys PROVE StateBar[k] = View(effects[k])
  BY DEF StateBar
<1>1. LedgerOK(effects, ledgered)
  BY DEF Core
<1> QED BY <1>1, StreamShape DEF StateBar, View

LEMMA StateIsViewNext == Core' => StateBar' = [k \in Keys |-> View(effects'[k])]
<1>1. (Core => StateBar = [k \in Keys |-> View(effects[k])])'
  BY StateIsView, PTL
<1> QED BY <1>1 DEF View

(* Only Tell makes a caller informed.                                       *)
LEMMA ToldStays ==
  ASSUME \A c \in Calls : \/ calls'[c] = calls[c]
                          \/ calls[c].pc # "told" /\ calls'[c].pc # "told"
  PROVE  UNCHANGED ToldBar
<1> SUFFICES ASSUME NEW c \in Calls
             PROVE  (IF Informed(c) THEN calls[c].outcome ELSE "none")' =
                    (IF Informed(c) THEN calls[c].outcome ELSE "none")
  BY DEF ToldBar
<1> QED BY DEF Informed

LEMMA AbstractStutter ==
  ASSUME UNCHANGED <<effects, ledgered>>
  PROVE  UNCHANGED <<StateBar, ledgered>>
BY DEF StateBar, IsRecorded, Recorded, HasStarted

LEMMA OneCallMoves ==
  ASSUME Core, NEW c \in Calls, NEW rec, SetCall(c, rec),
         calls[c].pc # "told", rec.pc # "told"
  PROVE  UNCHANGED ToldBar
<1>1. \A d \in Calls : calls'[d] = IF d = c THEN rec ELSE calls[d]
  BY DEF Core, CallsOK, SetCall
<1> QED BY <1>1, ToldStays

LEMMA SettlingTellsNobody ==
  ASSUME Core, NEW c \in Calls, calls[c].pc \in Executing,
         NEW pc \in {"tell", "rejected"}, NEW outcome, SettleCalls(c, pc, outcome)
  PROVE  UNCHANGED ToldBar
<1>1. \A d \in Calls :
        \/ calls'[d] = calls[d]
        \/ /\ d = c \/ calls[d].pc = "joined"
           /\ calls'[d] = [calls[d] EXCEPT !.pc = pc, !.outcome = outcome]
  BY DEF SettleCalls
<1>2. \A d \in Calls : calls[d] \in CallRec
  BY DEF Core, Fits
<1>3. ASSUME NEW d \in Calls, d = c \/ calls[d].pc = "joined",
             calls'[d] = [calls[d] EXCEPT !.pc = pc, !.outcome = outcome]
      PROVE  calls[d].pc # "told" /\ calls'[d].pc # "told"
  BY <1>2, <1>3 DEF Executing, CallRec
<1> QED BY <1>1, <1>3, ToldStays

(* The four steps of EffectOnce, over the mapped state.                     *)
LEMMA Opens ==
  ASSUME NEW k \in Keys, StateBar[k] = "none",
         StateBar' = [StateBar EXCEPT ![k] = "open"], UNCHANGED <<ledgered, ToldBar>>
  PROVE  Promise!Next
<1>1. Promise!Open(k)
  BY DEF Promise!Open, StateBar, ToldBar
<1> QED BY <1>1 DEF Promise!Next

LEMMA Performs ==
  ASSUME NEW k \in Keys, StateBar[k] \in {"open", "unknown"}, ledgered[k] = 0,
         ledgered' = [ledgered EXCEPT ![k] = 1], UNCHANGED <<StateBar, ToldBar>>
  PROVE  Promise!Next
<1>1. Promise!Perform(k)
  BY DEF Promise!Perform, StateBar, ToldBar
<1> QED BY <1>1 DEF Promise!Next

LEMMA Settles ==
  ASSUME NEW k \in Keys, NEW r \in Results, StateBar[k] = "open",
         r = "succeeded" => ledgered[k] = 1,
         StateBar' = [StateBar EXCEPT ![k] = r], UNCHANGED <<ledgered, ToldBar>>
  PROVE  Promise!Next
<1>1. Promise!Settle(k)
  BY DEF Promise!Settle, Promise!Results, Results, StateBar, ToldBar
<1> QED BY <1>1 DEF Promise!Next

LEMMA Tells ==
  ASSUME NEW c \in Calls, NEW k \in Keys, ToldBar[c] = "none", StateBar[k] \in Results,
         ToldBar' = [ToldBar EXCEPT ![c] = StateBar[k]], UNCHANGED <<StateBar, ledgered>>
  PROVE  Promise!Next
<1>1. Promise!Tell(c)
  BY DEF Promise!Tell, Promise!Results, Results, StateBar, ToldBar
<1> QED BY <1>1 DEF Promise!Next

-----------------------------------------------------------------------------
LEMMA AppendIsSeen ==
  ASSUME Core, Core', NEW k \in Keys, Len(effects[k]) \in {0, 1}, NEW e,
         effects' = [effects EXCEPT ![k] = Append(@, e)]
  PROVE  StateBar' = [StateBar EXCEPT ![k] = IF Len(effects[k]) = 1 THEN e.result ELSE "open"]
<1>1. StateBar = [q \in Keys |-> View(effects[q])]
  BY StateIsView
<1>2. StateBar' = [q \in Keys |-> View(effects'[q])]
  BY StateIsViewNext
<1>3. /\ effects'[k] = Append(effects[k], e)
      /\ \A q \in Keys : q # k => effects'[q] = effects[q]
      /\ effects[k] \in Seq(EffectEvent)
  BY DEF Core, LedgerOK
<1>4. effects'[k] \in Seq(EffectEvent)
  BY DEF Core, LedgerOK
<1>5. View(effects'[k]) = IF Len(effects[k]) = 1 THEN e.result ELSE "open"
  <2>1. Len(effects'[k]) = Len(effects[k]) + 1
    BY <1>3
  <2>2. Len(effects[k]) = 1 => effects'[k][2] = e
    BY <1>3
  <2> QED BY <2>1, <2>2 DEF View
<1>6. \A q \in Keys : q # k => View(effects'[q]) = View(effects[q])
  BY <1>3
<1> QED BY <1>1, <1>2, <1>5, <1>6

(* One lemma per kind of step.                                              *)
Abstractly == Promise!Next \/ UNCHANGED <<StateBar, ledgered, ToldBar>>

LEMMA LocalImplements ==
  ASSUME Core, NEW c \in Calls, UNCHANGED <<effects, ledgered>>, NEW rec, SetCall(c, rec),
         calls[c].pc # "told", rec.pc # "told"
  PROVE  Abstractly
BY OneCallMoves, AbstractStutter DEF Abstractly

LEMMA RefusedLocally ==
  ASSUME Core, NEW c \in Calls, NEW outcome
  PROVE  Result(c, outcome).pc # "told"
BY DEF Core, Fits, CallRec, Result

LEMMA EnterImplements ==
  ASSUME Core, NEW c \in Calls, calls[c].pc # "told", NEW via, EnterLedger(c, via), CallsOnly
  PROVE  Abstractly
<1>1. calls[c] \in CallRec /\ UNCHANGED <<effects, ledgered>>
  BY DEF Core, Fits, CallsOnly
<1>2. \A d \in Calls : /\ [calls[c] EXCEPT !.pc = "eread", !.via = via].pc # "told"
                       /\ [calls[c] EXCEPT !.pc = "joined", !.via = via, !.leader = d].pc # "told"
  BY <1>1 DEF CallRec
<1>3. CASE Leaders(c) = {}
  BY <1>1, <1>2, <1>3, LocalImplements DEF EnterLedger
<1>4. CASE Leaders(c) # {}
  BY <1>1, <1>2, <1>4, LocalImplements DEF EnterLedger, Leaders
<1> QED BY <1>3, <1>4

LEMMA BeforeImplements ==
  ASSUME Core, NEW c \in Calls,
         PolicyDecide(c) \/ ApprovalRead(c) \/ ApprovalAsk(c) \/ DirectRun(c)
  PROVE  Abstractly
<1>1. /\ calls[c] \in CallRec /\ UNCHANGED <<effects, ledgered>>
      /\ calls[c].pc \in {"policy", "approval", "ask", "direct"}
  BY DEF Core, Fits, CallsOnly, PolicyDecide, ApprovalRead, ApprovalAsk, DirectRun
<1>2. CASE \E via \in {"allowed", "approved"} : EnterLedger(c, via) /\ CallsOnly
  BY <1>1, <1>2, EnterImplements
<1>3. CASE Refuse(c) \/ \E r \in Results : SetCall(c, Result(c, r))
  BY <1>1, <1>3, RefusedLocally, LocalImplements DEF Refuse
<1>4. ASSUME NEW rec, SetCall(c, rec), rec.pc \in {"direct", "approval", "ask", "rejected"}
      PROVE  Abstractly
  BY <1>1, <1>4, LocalImplements
<1>5. /\ [calls[c] EXCEPT !.pc = "direct", !.via = "direct"].pc = "direct"
      /\ [calls[c] EXCEPT !.pc = "approval"].pc = "approval"
      /\ [calls[c] EXCEPT !.pc = "rejected"].pc = "rejected"
      /\ [calls[c] EXCEPT !.pc = "ask", !.len = Len(runlog)].pc = "ask"
  BY <1>1 DEF CallRec
<1>6. CASE PolicyDecide(c)
  BY <1>2, <1>3, <1>4, <1>5, <1>6 DEF PolicyDecide
<1>7. CASE ApprovalRead(c)
  BY <1>2, <1>3, <1>4, <1>5, <1>7 DEF ApprovalRead
<1>8. CASE ApprovalAsk(c) \/ DirectRun(c)
  BY <1>3, <1>4, <1>5, <1>8 DEF ApprovalAsk, DirectRun
<1> QED BY <1>6, <1>7, <1>8

LEMMA RejectImplements ==
  ASSUME Core, NEW c \in Calls, calls[c].pc \in Executing, Reject(c),
         UNCHANGED <<effects, ledgered>>
  PROVE  Abstractly
BY SettlingTellsNobody, AbstractStutter DEF Abstractly, Reject

LEMMA EffectReturnImplements ==
  ASSUME Core, NEW c \in Calls, EffectReturn(c)
  PROVE  Abstractly
<1>1. /\ calls[c] \in CallRec /\ UNCHANGED <<effects, ledgered>>
      /\ calls[c].pc = "erunning"
  BY DEF Core, Fits, CallsOnly, EffectReturn
<1>2. PICK r \in Results, type \in Terminals :
        SetCall(c, [calls[c] EXCEPT !.pc = "esettle", !.type = type, !.outcome = r])
  BY DEF EffectReturn
<1>3. [calls[c] EXCEPT !.pc = "esettle", !.type = type, !.outcome = r].pc # "told"
  BY <1>1 DEF CallRec
<1> QED BY <1>1, <1>2, <1>3, LocalImplements

LEMMA EffectReadImplements ==
  ASSUME Core, NEW c \in Calls, EffectRead(c)
  PROVE  Abstractly
<1>1. /\ calls[c] \in CallRec /\ UNCHANGED <<effects, ledgered>>
      /\ calls[c].pc = "eread" /\ calls[c].pc \in Executing
  BY DEF Core, Fits, CallsOnly, EffectRead, Executing
<1>2. CASE \E outcome : Finish(c, outcome)
  BY <1>1, <1>2, SettlingTellsNobody, AbstractStutter DEF Abstractly, Finish
<1>3. ASSUME NEW pc \in {"estart", "eunknown"}, NEW len,
             SetCall(c, [calls[c] EXCEPT !.pc = pc, !.len = len])
      PROVE  Abstractly
  <2>1. [calls[c] EXCEPT !.pc = pc, !.len = len].pc # "told"
    BY <1>1 DEF CallRec
  <2> QED BY <1>1, <1>3, <2>1, LocalImplements
<1> QED BY <1>2, <1>3 DEF EffectRead

LEMMA EffectStartImplements ==
  ASSUME Core, Core', NEW c \in Calls, EffectStart(c)
  PROVE  Abstractly
<1> DEFINE k == calls[c].key
           e == [type |-> "started", intent |-> calls[c].intent, result |-> "none"]
<1>1. calls[c].pc = "estart" /\ UNCHANGED ledgered
  BY DEF EffectStart, LedgerOnly
<1>2. /\ calls[c] \in CallRec /\ calls[c].pc \in Executing /\ k \in Keys /\ calls[c].len = 0
  BY <1>1 DEF Core, Fits, Executing
<1>3. CASE Reject(c) /\ UNCHANGED effects
  BY <1>1, <1>2, <1>3, RejectImplements
<1>4. CASE /\ Accepts(effects[k], calls[c].len) /\ EffectAppend(c, "started", "none")
           /\ SetCall(c, [calls[c] EXCEPT !.pc = "esandbox", !.len = @ + 1])
  <2>1. Len(effects[k]) = 0 /\ Len(effects[k]) \in {0, 1} /\ Len(effects[k]) # 1
    BY <1>2, <1>4 DEF Accepts
  <2>2. effects' = [effects EXCEPT ![k] = Append(@, e)]
    BY <1>4 DEF EffectAppend
  <2>3. [calls[c] EXCEPT !.pc = "esandbox", !.len = @ + 1].pc # "told"
    BY <1>2 DEF CallRec
  <2>4. UNCHANGED ToldBar
    BY <1>1, <1>4, <2>3, OneCallMoves
  <2> HIDE DEF e
  <2>5. StateBar' = [StateBar EXCEPT ![k] = "open"]
    BY <1>2, <2>1, <2>2, AppendIsSeen
  <2>6. StateBar[k] = "none"
    BY <1>2, <2>1, StateIsView DEF View
  <2> QED BY <1>1, <1>2, <2>4, <2>5, <2>6, Opens DEF Abstractly
<1> QED BY <1>3, <1>4 DEF EffectStart

(* Whoever holds the key may perform it, unless someone settled it as       *)
(* unknown: then it is performed too late to be told.                       *)
LEMMA EffectRunImplements ==
  ASSUME Core, NEW c \in Calls, EffectRun(c)
  PROVE  Abstractly
<1> DEFINE k == calls[c].key
<1>1. calls[c].pc = "esandbox" /\ UNCHANGED effects
  BY DEF EffectRun
<1>2. /\ calls[c] \in CallRec /\ k \in Keys /\ Len(effects[k]) >= 1 /\ ledgered[k] = 0
      /\ (Len(effects[k]) = 2 => effects[k][2].result = "unknown")
  BY <1>1 DEF Core, Fits, Executing, Holding
<1>3. ASSUME UNCHANGED ledgered, SetCall(c, [calls[c] EXCEPT !.pc = "esettle",
             !.type = "cancelled", !.outcome = "failed"])
      PROVE  Abstractly
  <2>1. [calls[c] EXCEPT !.pc = "esettle", !.type = "cancelled",
                         !.outcome = "failed"].pc # "told"
    BY <1>2 DEF CallRec
  <2> QED BY <1>1, <1>3, <2>1, LocalImplements
<1>4. ASSUME SetCall(c, [calls[c] EXCEPT !.pc = "erunning"]),
             ledgered' = [ledgered EXCEPT ![k] = @ + 1]
      PROVE  Abstractly
  <2>1. ledgered' = [ledgered EXCEPT ![k] = 1]
    <3>1. ledgered[k] + 1 = 1
      BY <1>2
    <3> QED BY <1>4, <3>1
  <2>2. UNCHANGED StateBar
    BY <1>1 DEF StateBar, IsRecorded, Recorded, HasStarted
  <2>3. [calls[c] EXCEPT !.pc = "erunning"].pc # "told"
    BY <1>2 DEF CallRec
  <2>4. UNCHANGED ToldBar
    BY <1>1, <1>4, <2>3, OneCallMoves
  <2>5. StateBar[k] \in {"open", "unknown"}
    <3>1. Len(effects[k]) # 0
      BY <1>2
    <3>2. StateBar[k] = View(effects[k])
      BY <1>2, StateIsView
    <3> QED BY <1>2, <3>1, <3>2 DEF View
  <2> QED BY <1>2, <2>1, <2>2, <2>4, <2>5, Performs DEF Abstractly
<1> QED BY <1>3, <1>4 DEF EffectRun

LEMMA TerminalImplements ==
  ASSUME Core, Core', NEW c \in Calls, calls[c].pc \in Executing, calls[c].key \in Keys,
         Len(effects[calls[c].key]) = 1, NEW type, NEW r \in Results,
         EffectAppend(c, type, r), UNCHANGED ledgered, Finish(c, r),
         r = "succeeded" => ledgered[calls[c].key] = 1
  PROVE  Abstractly
<1> DEFINE k == calls[c].key
           e == [type |-> type, intent |-> calls[c].intent, result |-> r]
<1>1. effects' = [effects EXCEPT ![k] = Append(@, e)] /\ e.result = r
  BY DEF EffectAppend
<1> HIDE DEF e
<1>2. Len(effects[k]) \in {0, 1}
  OBVIOUS
<1>3. StateBar' = [StateBar EXCEPT ![k] = r]
  BY <1>1, <1>2, AppendIsSeen
<1>4. StateBar[k] = "open"
  <2>1. StateBar[k] = View(effects[k])
    BY StateIsView
  <2>2. Len(effects[k]) # 2 /\ Len(effects[k]) # 0
    OBVIOUS
  <2> QED BY <2>1, <2>2 DEF View
<1>5. UNCHANGED ToldBar
  BY SettlingTellsNobody DEF Finish
<1> QED BY <1>3, <1>4, <1>5, Settles DEF Abstractly

LEMMA EffectSettleImplements ==
  ASSUME Core, Core', NEW c \in Calls, EffectSettle(c) \/ EffectUnknown(c)
  PROVE  Abstractly
<1>1. calls[c].pc \in {"esettle", "eunknown"} /\ UNCHANGED ledgered
  BY DEF EffectSettle, EffectUnknown, LedgerOnly
<1>2. /\ calls[c].pc \in Executing /\ calls[c].key \in Keys /\ calls[c].len = 1
      /\ calls[c].pc = "esettle" =>
           /\ calls[c].outcome \in Results
           /\ calls[c].outcome = "succeeded" => ledgered[calls[c].key] = 1
  BY <1>1 DEF Core, Fits, Executing
<1>3. CASE Reject(c) /\ UNCHANGED effects
  BY <1>1, <1>2, <1>3, RejectImplements
<1>4. CASE /\ Accepts(effects[calls[c].key], calls[c].len) /\ calls[c].pc = "esettle"
           /\ EffectAppend(c, calls[c].type, calls[c].outcome) /\ Finish(c, calls[c].outcome)
  <2>1. Len(effects[calls[c].key]) = 1
    BY <1>2, <1>4 DEF Accepts
  <2> QED BY <1>1, <1>2, <1>4, <2>1, TerminalImplements
<1>5. CASE /\ Accepts(effects[calls[c].key], calls[c].len)
           /\ EffectAppend(c, "unknown", "unknown") /\ Finish(c, "unknown")
  <2>1. Len(effects[calls[c].key]) = 1 /\ "unknown" \in Results
    BY <1>2, <1>5 DEF Accepts, Results
  <2> QED BY <1>1, <1>2, <1>5, <2>1, TerminalImplements
<1> QED BY <1>3, <1>4, <1>5 DEF EffectSettle, EffectUnknown

LEMMA TellImplements ==
  ASSUME Core, NEW c \in Calls, Tell(c)
  PROVE  Abstractly
<1>1. calls[c] \in CallRec /\ calls[c].pc = "tell" /\ UNCHANGED <<effects, ledgered>>
  BY DEF Core, Fits, Tell, CallsOnly
<1>2. UNCHANGED <<StateBar, ledgered>>
  BY <1>1, AbstractStutter
<1>3. /\ \A d \in Calls : d # c => calls'[d] = calls[d]
      /\ calls'[c] = [calls[c] EXCEPT !.pc = "told"]
  BY DEF Core, CallsOK, Tell, SetCall
<1>4. /\ calls'[c].pc = "told" /\ calls'[c].via = calls[c].via
      /\ calls'[c].outcome = calls[c].outcome
  BY <1>1, <1>3 DEF CallRec
<1>5. \A d \in Calls : d # c => ToldBar'[d] = ToldBar[d]
  BY <1>3 DEF ToldBar, Informed
<1>6. ToldBar[c] = "none"
  BY <1>1 DEF ToldBar, Informed
<1>7. CASE Knows(calls[c])
  <2>1. calls[c].key \in Keys /\ StateBar[calls[c].key] = calls[c].outcome
    <3>1. /\ calls[c].key \in Keys /\ Len(effects[calls[c].key]) = 2
          /\ effects[calls[c].key][2].result = calls[c].outcome
      BY <1>7 DEF Core, Fits
    <3> QED BY <3>1, StateIsView DEF View
  <2>2. ToldBar'[c] = calls[c].outcome
    BY <1>4, <1>7 DEF ToldBar, Informed, Knows
  <2>3. ToldBar' = [ToldBar EXCEPT ![c] = StateBar[calls[c].key]]
    BY <1>5, <2>1, <2>2 DEF ToldBar
  <2>4. StateBar[calls[c].key] \in Results
    BY <1>7, <2>1 DEF Knows
  <2> QED BY <1>2, <1>6, <2>1, <2>3, <2>4, Tells DEF Abstractly
<1>8. CASE ~Knows(calls[c])
  <2>1. ToldBar'[c] = "none"
    BY <1>1, <1>4, <1>8 DEF ToldBar, Informed, Knows
  <2>2. UNCHANGED ToldBar
    BY <1>5, <1>6, <2>1 DEF ToldBar
  <2> QED BY <1>2, <2>2 DEF Abstractly
<1> QED BY <1>7, <1>8

LEMMA AbortImplements ==
  ASSUME Core, NEW c \in Calls, Abort(c)
  PROVE  Abstractly
<1>1. calls[c] \in CallRec /\ UNCHANGED <<effects, ledgered>> /\ calls[c].pc # "told"
  BY DEF Core, Fits, Abort, CallsOnly, Ended
<1>2. [calls[c] EXCEPT !.aborted = TRUE].pc # "told"
  BY <1>1 DEF CallRec
<1> QED BY <1>1, <1>2, LocalImplements DEF Abort

LEMMA RequestImplements ==
  ASSUME Core, NEW c \in Calls, NEW seam \in Seams, NEW key \in Keys \cup {NoKey},
         NEW intent \in Intents, Request(c, seam, key, intent)
  PROVE  Abstractly
<1>1. UNCHANGED <<effects, ledgered>> /\ calls[c].pc # "told"
  BY DEF Request, CallsOnly
<1>2. PICK pc \in {"policy", "tell"} :
        SetCall(c, [IdleCall(c) EXCEPT !.pc = pc, !.seam = seam, !.key = key,
                      !.intent = intent, !.outcome = IF pc = "tell" THEN "refused" ELSE "none"])
  BY DEF Request
<1>3. [IdleCall(c) EXCEPT !.pc = pc, !.seam = seam, !.key = key, !.intent = intent,
         !.outcome = IF pc = "tell" THEN "refused" ELSE "none"].pc # "told"
  BY DEF IdleCall
<1> QED BY <1>1, <1>2, <1>3, LocalImplements

LEMMA CrashImplements ==
  ASSUME Core, NEW seam \in Seams, Crash(seam)
  PROVE  Abstractly
<1>1. UNCHANGED <<effects, ledgered>>
  BY DEF Crash
<1>2. \A c \in Calls : calls[c] \in CallRec
  BY DEF Core, Fits
<1>3. \A c \in Calls : \/ calls'[c] = calls[c]
                       \/ calls[c].pc # "told" /\ calls'[c].pc # "told"
  <2> SUFFICES ASSUME NEW c \in Calls, calls[c].pc # "told",
                      calls'[c] = [calls[c] EXCEPT !.pc = "lost"]
               PROVE  calls'[c].pc # "told"
    BY DEF Crash, Ended
  <2> QED BY <1>2 DEF CallRec
<1> QED BY <1>1, <1>3, ToldStays, AbstractStutter DEF Abstractly

LEMMA ApartImplements ==
  ASSUME UNCHANGED <<effects, calls, ledgered>>
  PROVE  Abstractly
BY AbstractStutter, ToldStays DEF Abstractly

LEMMA NextImplements ==
  ASSUME Core, Core', [Next]_vars
  PROVE  Abstractly
<1>1. CASE \E c \in Calls, seam \in Seams, key \in Keys \cup {NoKey}, intent \in Intents :
             Request(c, seam, key, intent)
  BY <1>1, RequestImplements
<1>2. ASSUME NEW c \in Calls, CallStep(c) PROVE Abstractly
  BY <1>2, BeforeImplements, EffectReadImplements, EffectStartImplements, EffectRunImplements,
     EffectSettleImplements, TellImplements, EffectReturnImplements DEF CallStep
<1>3. ASSUME NEW c \in Calls, Abort(c) PROVE Abstractly
  BY <1>3, AbortImplements
<1>4. ASSUME NEW a \in Approvers, AnswerRead(a) \/ AnswerAppend(a) PROVE Abstractly
  BY <1>4, ApartImplements DEF AnswerRead, AnswerAppend
<1>5. CASE OtherEvent
  BY <1>5, ApartImplements DEF OtherEvent
<1>6. CASE \E seam \in Seams : Crash(seam)
  BY <1>6, CrashImplements
<1>7. CASE UNCHANGED vars
  BY <1>7, ApartImplements DEF vars
<1> QED BY <1>1, <1>2, <1>3, <1>4, <1>5, <1>6, <1>7 DEF Next

LEMMA InitImplements == Init => Promise!Init
<1> SUFFICES ASSUME Init PROVE Promise!Init
  OBVIOUS
<1>1. Core
  BY InitCore
<1>2. \A k \in Keys : View(effects[k]) = "none"
  BY DEF Init, View
<1>3. StateBar = [k \in Keys |-> "none"]
  BY <1>1, <1>2, StateIsView
<1>4. \A c \in Calls : calls[c].pc = "idle"
  <2>1. \A c \in Calls : IdleCall(c).pc = "idle"
    BY DEF IdleCall
  <2> QED BY <2>1 DEF Init
<1>5. ToldBar = [c \in Calls |-> "none"]
  BY <1>4 DEF ToldBar, Informed
<1> QED BY <1>3, <1>5 DEF Init, Promise!Init, StateBar, ToldBar

(* The gateway keeps the promise of EffectOnce: an effect is performed at   *)
(* most once, settled once, a success only after it was performed, and      *)
(* everybody who is told its result is told the settled one.                *)
THEOREM GatewayKeepsPromise == Spec => ImplementsEffectOnce
<1>1. Init => Promise!Init
  BY InitImplements
<1>2. Core /\ Core' /\ [Next]_vars =>
        [Promise!Next]_<<StateBar, ledgered, ToldBar>>
  BY NextImplements DEF Abstractly
<1> QED BY <1>1, <1>2, AlwaysCore, PTL
        DEF Spec, ImplementsEffectOnce, Promise!Spec, StateBar, ToldBar
=============================================================================
