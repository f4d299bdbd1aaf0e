------------------------- MODULE ToolGatewayProofs -------------------------
(***************************************************************************)
(* Theorems about ToolGateway, for any calls, seams, keys, intents, tools   *)
(* and policies.                                                            *)
(***************************************************************************)
EXTENDS ToolGateway, NatMin, SequenceTheorems, TLAPS

-----------------------------------------------------------------------------
(* The inductive invariant.                                                 *)

(* A stream is empty, a start, or a start and its terminal; nothing ran     *)
(* before the start was stored.                                             *)
LedgerOK(E, L) ==
  /\ E \in [Keys -> Seq(EffectEvent)]
  /\ L \in [Keys -> Nat]
  /\ \A k \in Keys :
       /\ Len(E[k]) <= 2
       /\ \A i \in DOMAIN E[k] : E[k][i].type = "started" <=> i = 1
       /\ L[k] <= 1
       /\ Len(E[k]) = 0 => L[k] = 0

(* A call between its started and its terminal event.                       *)
Holding == {"esandbox", "erunning", "esettle"}

Knows(rec) == /\ rec.pc \in {"tell", "told"} /\ rec.via \in {"allowed", "approved"}
              /\ rec.outcome \in Results

(* What a call holds agrees with the ledger: the sequence it appends at,    *)
(* whether the sandbox ran, and the result it was given.                    *)
Fits(rec, E, L) ==
  /\ rec \in CallRec
  /\ rec.pc \in Executing \cup {"joined", "approval"} => rec.key \in Keys
  /\ rec.pc = "direct" => rec.via = "direct"
  /\ rec.pc = "estart" => rec.len = 0
  /\ rec.pc \in {"esandbox", "erunning", "esettle", "eunknown"} =>
       rec.len = 1 /\ Len(E[rec.key]) >= 1
  /\ rec.pc = "esandbox" => L[rec.key] = 0
  /\ rec.pc = "erunning" => L[rec.key] = 1
  /\ rec.pc = "esettle" => /\ rec.type \in Terminals /\ rec.outcome \in Results
                           /\ rec.outcome = "succeeded" => L[rec.key] = 1
  /\ rec.pc \in Holding /\ Len(E[rec.key]) = 2 => E[rec.key][2].result = "unknown"
  /\ Knows(rec) => /\ rec.key \in Keys /\ Len(E[rec.key]) = 2
                   /\ E[rec.key][2].result = rec.outcome

OneExecutor ==
  \A c, d \in Calls :
    calls[c].pc \in Holding /\ calls[d].pc \in Holding /\ calls[c].key = calls[d].key
      => c = d

JoinedOK ==
  \A c \in Calls : calls[c].pc = "joined" =>
    calls[calls[c].leader].key = calls[c].key /\ calls[calls[c].leader].pc # "idle"

CallsOK == DOMAIN calls = Calls /\ calls = [c \in Calls |-> calls[c]]

Core == /\ LedgerOK(effects, ledgered)
        /\ CallsOK
        /\ \A c \in Calls : Fits(calls[c], effects, ledgered)
        /\ OneExecutor /\ JoinedOK

(* The variables the ledger does not depend on.                             *)
Rest == /\ runlog \in Seq(RunEvent)
        /\ answers \in [Approvers -> [pc : {"idle", "append", "done"},
                                      decision : {"approved", "denied"},
                                      key : Keys \cup {NoKey}, len : Nat]]
        /\ direct \in [Keys -> Nat]
        /\ used \in [other : Nat, crashes : Nat]

LEMMA CoreIsTyped == Core /\ Rest => TypeOK
<1> SUFFICES ASSUME Core, Rest PROVE TypeOK
  OBVIOUS
<1>1. calls \in [Calls -> CallRec]
  BY DEF Core, CallsOK, Fits
<1>2. \A c \in Calls : calls[c].pc \in Executing => calls[c].key \in Keys
  BY DEF Core, Fits
<1> QED BY <1>1, <1>2 DEF Core, Rest, LedgerOK, TypeOK

(* What a ledger-shaped stream tells its reader.                            *)
LEMMA StreamShape ==
  ASSUME LedgerOK(effects, ledgered), NEW k \in Keys
  PROVE  /\ Len(effects[k]) \in {0, 1, 2}
         /\ HasStarted(k) <=> Len(effects[k]) # 0
         /\ IsRecorded(k) <=> Len(effects[k]) = 2
         /\ IsRecorded(k) => Recorded(k) = effects[k][2].result
<1> DEFINE s == effects[k]
<1>1. s \in Seq(EffectEvent) /\ Len(s) \in {0, 1, 2} /\ DOMAIN s = 1..Len(s)
  <2>1. s \in Seq(EffectEvent) /\ Len(s) <= 2
    BY DEF LedgerOK
  <2>2. Len(s) \in Nat /\ DOMAIN s = 1..Len(s)
    BY <2>1
  <2> HIDE DEF s
  <2>3. \A n \in Nat : n <= 2 => n \in {0, 1, 2}
    OBVIOUS
  <2> QED BY <2>1, <2>2, <2>3
<1>2. \A i \in DOMAIN s : s[i].type = "started" <=> i = 1
  BY DEF LedgerOK
<1>3. \A i \in DOMAIN s : s[i].type \in Terminals <=> i = 2
  <2>1. \A i \in DOMAIN s : s[i] \in EffectEvent
    BY <1>1
  <2>2. \A i \in DOMAIN s : s[i].type = "started" \/ s[i].type \in Terminals
    BY <2>1 DEF EffectEvent
  <2>3. "started" \notin Terminals
    BY DEF Terminals, Results
  <2> QED BY <1>1, <1>2, <2>2, <2>3
<1>4. HasStarted(k) <=> Len(s) # 0
  BY <1>1, <1>2 DEF HasStarted
<1>5. IsRecorded(k) <=> Len(s) = 2
  <2>1. 2 \in DOMAIN s <=> Len(s) = 2
    <3>1. \A n \in {0, 1, 2} : 2 \in 1..n <=> n = 2
      OBVIOUS
    <3> HIDE DEF s
    <3> QED BY <1>1, <3>1
  <2> QED BY <1>3, <2>1 DEF IsRecorded
<1>6. ASSUME IsRecorded(k) PROVE Recorded(k) = s[2].result
  <2>1. PICK j \in DOMAIN s : s[j].type \in Terminals
    BY <1>6 DEF IsRecorded
  <2>2. (CHOOSE i \in DOMAIN effects[k] : effects[k][i].type \in Terminals) = 2
    BY <1>3, <2>1
  <2> QED BY <2>2 DEF Recorded
<1> QED BY <1>1, <1>4, <1>5, <1>6

-----------------------------------------------------------------------------
(* One call moves on; streams and runs stay.                                *)
LEMMA LocalStep ==
  ASSUME Core, NEW c \in Calls, NEW rec, SetCall(c, rec),
         UNCHANGED <<effects, ledgered>>,
         Fits(rec, effects, ledgered),
         rec.key = calls[c].key \/ calls[c].pc = "idle",
         rec.pc # "idle",
         rec.pc \in Holding => calls[c].pc \in Holding,
         rec.pc = "joined" => /\ rec.leader \in Calls
                              /\ calls[rec.leader].key = rec.key
                              /\ calls[rec.leader].pc # "idle"
  PROVE  Core'
<1>1. /\ CallsOK' /\ calls'[c] = rec
      /\ \A d \in Calls : d # c => calls'[d] = calls[d]
  BY DEF Core, CallsOK, SetCall
<1>2. \A d \in Calls : Fits(calls'[d], effects', ledgered')
  BY <1>1, Zenon DEF Core
<1>3. OneExecutor'
  BY <1>1 DEF Core, OneExecutor, Holding
<1>4. JoinedOK'
  <2> SUFFICES ASSUME NEW d \in Calls, calls'[d].pc = "joined"
               PROVE  calls'[calls'[d].leader].key = calls'[d].key
                      /\ calls'[calls'[d].leader].pc # "idle"
    BY DEF JoinedOK
  <2>1. PICK e \in Calls : /\ e = calls'[d].leader
                           /\ calls[e].key = calls'[d].key /\ calls[e].pc # "idle"
    BY <1>1 DEF Core, JoinedOK, Fits, CallRec
  <2> QED BY <1>1, <2>1
<1>5. LedgerOK(effects, ledgered)'
  BY DEF Core
<1> QED BY <1>1, <1>2, <1>3, <1>4, <1>5 DEF Core

(* A stream takes the next event of a call that found it short enough: the  *)
(* calls that are not waiting for a start keep fitting.                     *)
LEMMA OthersFit ==
  ASSUME Core, NEW k \in Keys, Len(effects[k]) <= 1, NEW e \in EffectEvent,
         effects' = [effects EXCEPT ![k] = Append(@, e)], UNCHANGED ledgered,
         NEW d \in Calls,
         calls[d].pc \in Holding /\ calls[d].key = k /\ Len(effects[k]) = 1
           => e.result = "unknown"
  PROVE  Fits(calls[d], effects', ledgered')
<1> DEFINE rec == calls[d]
<1>1. Fits(rec, effects, ledgered) /\ effects[k] \in Seq(EffectEvent)
  BY DEF Core, LedgerOK
<1>2. Len(effects'[k]) = Len(effects[k]) + 1 /\ Len(effects[k]) \in Nat
  BY <1>1 DEF Core, LedgerOK
<1>3. \A q \in Keys : q # k => effects'[q] = effects[q]
  BY DEF Core, LedgerOK
<1>4. rec.pc \in {"esandbox", "erunning", "esettle", "eunknown"} => Len(effects'[rec.key]) >= 1
  BY <1>1, <1>2, <1>3 DEF Fits, Executing
<1>5. Knows(rec) => effects'[rec.key] = effects[rec.key]
  BY <1>1, <1>3 DEF Fits
<1>6. UNCHANGED ledgered
  OBVIOUS
<1>7. rec.pc \in Holding /\ Len(effects'[rec.key]) = 2
        => effects'[rec.key][2].result = "unknown"
  <2> SUFFICES ASSUME rec.pc \in Holding, Len(effects'[rec.key]) = 2
               PROVE  effects'[rec.key][2].result = "unknown"
    OBVIOUS
  <2>1. rec.key \in Keys
    BY <1>1 DEF Fits, Holding, Executing
  <2>2. CASE rec.key = k
    <3>1. Len(effects[k]) = 1
      <4>1. Len(effects'[k]) = 2
        BY <2>2
      <4>2. \A n \in Nat : n + 1 = 2 => n = 1
        OBVIOUS
      <4> HIDE DEF rec
      <4> QED BY <1>2, <4>1, <4>2
    <3>0. effects'[k] = Append(effects[k], e)
      BY DEF Core, LedgerOK
    <3>2. effects'[k][2] = e
      BY <1>1, <3>0, <3>1
    <3>3. e.result = "unknown"
      BY <2>2, <3>1
    <3> QED BY <2>2, <3>2, <3>3
  <2>3. CASE rec.key # k
    BY <1>1, <1>3, <2>1, <2>3 DEF Fits
  <2> QED BY <2>2, <2>3
<1> SUFFICES Fits(rec, effects', ledgered')
  OBVIOUS
<1> HIDE DEF rec
<1> QED BY <1>1, <1>4, <1>5, <1>6, <1>7 DEF Fits

(* The stream stays ledger-shaped.                                          *)
LEMMA LedgerGrows ==
  ASSUME Core, NEW k \in Keys, Len(effects[k]) <= 1, NEW e \in EffectEvent,
         e.type = "started" <=> Len(effects[k]) = 0,
         effects' = [effects EXCEPT ![k] = Append(@, e)], UNCHANGED ledgered
  PROVE  LedgerOK(effects', ledgered')
<1>1. effects[k] \in Seq(EffectEvent) /\ Len(effects[k]) \in Nat
  BY DEF Core, LedgerOK
<1>2. /\ effects'[k] = Append(effects[k], e)
      /\ \A q \in Keys : q # k => effects'[q] = effects[q]
  BY DEF Core, LedgerOK
<1>3. Append(effects[k], e) \in Seq(EffectEvent) /\ Len(effects'[k]) = Len(effects[k]) + 1
  BY <1>1, <1>2
<1>4. effects' \in [Keys -> Seq(EffectEvent)]
  BY <1>3 DEF Core, LedgerOK
<1>5. \A i \in DOMAIN effects'[k] : effects'[k][i].type = "started" <=> i = 1
  <2> SUFFICES ASSUME NEW i \in DOMAIN effects'[k]
               PROVE  effects'[k][i].type = "started" <=> i = 1
    OBVIOUS
  <2>1. i \in 1..(Len(effects[k]) + 1)
    BY <1>1, <1>2
  <2>2. CASE i = Len(effects[k]) + 1
    <3>1. effects'[k][i] = e
      BY <1>1, <1>2, <2>2
    <3> QED BY <1>1, <2>2, <3>1
  <2>3. CASE i \in 1..Len(effects[k])
    <3>1. effects'[k][i] = effects[k][i] /\ i \in DOMAIN effects[k]
      BY <1>1, <1>2, <2>3
    <3> QED BY <3>1 DEF Core, LedgerOK
  <2> QED BY <1>1, <2>1, <2>2, <2>3
<1>6. \A q \in Keys : ledgered'[q] <= 1 /\ (Len(effects'[q]) = 0 => ledgered'[q] = 0)
  BY <1>1, <1>2, <1>3 DEF Core, LedgerOK
<1>7. \A q \in Keys : Len(effects'[q]) <= 2
  BY <1>1, <1>2, <1>3 DEF Core, LedgerOK
<1>8. \A q \in Keys : \A i \in DOMAIN effects'[q] : effects'[q][i].type = "started" <=> i = 1
  BY <1>2, <1>5 DEF Core, LedgerOK
<1>9. ledgered' \in [Keys -> Nat]
  BY DEF Core, LedgerOK
<1> QED BY <1>4, <1>6, <1>7, <1>8, <1>9 DEF LedgerOK

(* An execution settles for its call and the calls that share it.           *)
LEMMA SettleStep ==
  ASSUME Core, NEW c \in Calls, calls[c].pc \in Executing,
         NEW pc \in {"tell", "rejected"}, NEW outcome \in Results \cup {"refused", "none"},
         SettleCalls(c, pc, outcome), UNCHANGED ledgered,
         LedgerOK(effects', ledgered'),
         \A d \in Calls : d # c => Fits(calls[d], effects', ledgered'),
         pc = "tell" /\ outcome \in Results =>
           Len(effects'[calls[c].key]) = 2 /\ effects'[calls[c].key][2].result = outcome
  PROVE  Core'
<1> DEFINE Shares(d) == d = c \/ (calls[d].pc = "joined" /\ calls[d].leader = c)
<1>1. /\ CallsOK'
      /\ \A d \in Calls : calls'[d] = IF Shares(d)
                           THEN [calls[d] EXCEPT !.pc = pc, !.outcome = outcome] ELSE calls[d]
  BY DEF SettleCalls, CallsOK
<1>2. Shares(c) /\ \A d \in Calls : Shares(d) => calls[d].key = calls[c].key /\ calls[d].key \in Keys
  BY DEF Core, JoinedOK, Fits
<1>3. \A d \in Calls : calls[d] \in CallRec
  BY DEF Core, Fits
<1>4. \A d \in Calls : Shares(d) => /\ calls'[d] \in CallRec
                                    /\ calls'[d].pc = pc /\ calls'[d].outcome = outcome
                                    /\ calls'[d].key = calls[d].key
  <2> SUFFICES ASSUME NEW d \in Calls, Shares(d)
               PROVE  /\ calls'[d] \in CallRec
                      /\ calls'[d].pc = pc /\ calls'[d].outcome = outcome
                      /\ calls'[d].key = calls[d].key
    OBVIOUS
  <2>1. calls'[d] = [calls[d] EXCEPT !.pc = pc, !.outcome = outcome]
    BY <1>1
  <2>2. pc \in CallPCs
    BY DEF CallPCs, Ended
  <2> QED BY <1>3, <2>1, <2>2 DEF CallRec
<1>5. \A d \in Calls : Fits(calls'[d], effects', ledgered')
  <2> SUFFICES ASSUME NEW d \in Calls PROVE Fits(calls'[d], effects', ledgered')
    OBVIOUS
  <2>1. CASE Shares(d)
    <3>1. /\ calls'[d].pc \notin Executing \cup {"joined", "approval"}
          /\ calls'[d].pc \notin {"direct", "estart", "esandbox", "erunning", "esettle", "eunknown"}
      BY <1>4, <2>1 DEF Executing
    <3>2. Knows(calls'[d]) => /\ calls'[d].key \in Keys
                              /\ Len(effects'[calls'[d].key]) = 2
                              /\ effects'[calls'[d].key][2].result = calls'[d].outcome
      BY <1>2, <1>4, <2>1 DEF Knows
    <3> QED BY <1>4, <2>1, <3>1, <3>2 DEF Fits, Holding
  <2>2. CASE ~Shares(d)
    BY <1>1, <1>2, <2>2
  <2> QED BY <2>1, <2>2
<1>6. \A d \in Calls : calls'[d].key = calls[d].key /\
        (calls'[d].pc = calls[d].pc \/ calls'[d].pc \in {"tell", "rejected"})
  BY <1>1, <1>4
<1>7. OneExecutor'
  BY <1>6 DEF Core, OneExecutor, Holding
<1>8. JoinedOK'
  <2> SUFFICES ASSUME NEW d \in Calls, calls'[d].pc = "joined"
               PROVE  calls'[calls'[d].leader].key = calls'[d].key
                      /\ calls'[calls'[d].leader].pc # "idle"
    BY DEF JoinedOK
  <2>1. calls'[d] = calls[d] /\ calls[d].leader \in Calls
    BY <1>1, <1>3, <1>4 DEF CallRec
  <2> QED BY <1>6, <2>1 DEF Core, JoinedOK
<1> QED BY <1>1, <1>5, <1>7, <1>8 DEF Core

-----------------------------------------------------------------------------
(* One lemma per action.                                                    *)

LEMMA InitCore == Init => Core /\ Rest
<1> SUFFICES ASSUME Init PROVE Core /\ Rest
  OBVIOUS
<1>1. \A c \in Calls : calls[c] = IdleCall(c)
  BY DEF Init
<1>2. \A c \in Calls : IdleCall(c) \in CallRec
  <2>1. (CHOOSE s \in Seams : TRUE) \in Seams /\ (CHOOSE i \in Intents : TRUE) \in Intents
    BY ConstantsAssumption
  <2> QED BY <2>1 DEF IdleCall, CallRec, CallPCs
<1>3. \A c \in Calls : calls[c].pc = "idle"
  <2>1. \A c \in Calls : IdleCall(c).pc = "idle"
    BY DEF IdleCall
  <2> QED BY <1>1, <2>1
<1>4. \A c \in Calls : Fits(calls[c], effects, ledgered)
  BY <1>1, <1>2, <1>3 DEF Fits, Knows, Executing, Holding
<1>5. LedgerOK(effects, ledgered)
  BY DEF Init, LedgerOK
<1>6. CallsOK /\ OneExecutor /\ JoinedOK
  BY <1>3 DEF Init, CallsOK, OneExecutor, JoinedOK, Holding
<1>7. Rest
  BY ConstantsAssumption DEF Init, Rest, IdleAnswer
<1> QED BY <1>4, <1>5, <1>6, <1>7 DEF Core

LEMMA RequestStep ==
  ASSUME Core, NEW c \in Calls, NEW seam \in Seams, NEW key \in Keys \cup {NoKey},
         NEW intent \in Intents, Request(c, seam, key, intent)
  PROVE  Core'
<1>1. PICK pc \in {"policy", "tell"} :
        SetCall(c, [IdleCall(c) EXCEPT !.pc = pc, !.seam = seam, !.key = key,
                      !.intent = intent, !.outcome = IF pc = "tell" THEN "refused" ELSE "none"])
  BY DEF Request
<1> DEFINE rec == [IdleCall(c) EXCEPT !.pc = pc, !.seam = seam, !.key = key,
                     !.intent = intent, !.outcome = IF pc = "tell" THEN "refused" ELSE "none"]
<1>2. rec \in CallRec /\ rec.pc = pc /\ rec.via = "none" /\ rec.key = key
  BY DEF IdleCall, CallRec, CallPCs
<1>3. calls[c].pc = "idle" /\ UNCHANGED <<effects, ledgered>> /\ SetCall(c, rec)
  BY <1>1 DEF Request, CallsOnly
<1> HIDE DEF rec
<1>4. Fits(rec, effects, ledgered)
  BY <1>2 DEF Fits, Knows, Executing, Holding
<1> QED BY <1>2, <1>3, <1>4, LocalStep DEF Holding

LEMMA EnterStep ==
  ASSUME Core, NEW c \in Calls, calls[c].pc \in {"policy", "approval"},
         calls[c].key \in Keys, NEW via \in {"allowed", "approved"},
         EnterLedger(c, via), CallsOnly
  PROVE  Core'
<1> USE DEF CallsOnly
<1>1. calls[c] \in CallRec
  BY DEF Core, Fits
<1>2. CASE Leaders(c) = {}
  <2> DEFINE rec == [calls[c] EXCEPT !.pc = "eread", !.via = via]
  <2>1. SetCall(c, rec)
    BY <1>2 DEF EnterLedger
  <2>2. rec \in CallRec /\ rec.pc = "eread" /\ rec.key = calls[c].key
    BY <1>1 DEF CallRec, CallPCs, Executing
  <2> HIDE DEF rec
  <2>3. Fits(rec, effects, ledgered)
    BY <2>2 DEF Fits, Knows, Holding
  <2> QED BY <2>1, <2>2, <2>3, LocalStep DEF Holding
<1>3. CASE Leaders(c) # {}
  <2>1. PICK d \in Leaders(c) :
          SetCall(c, [calls[c] EXCEPT !.pc = "joined", !.via = via, !.leader = d])
    BY <1>3 DEF EnterLedger
  <2>2. d \in Calls /\ calls[d].pc # "idle" /\ calls[d].key = calls[c].key
    BY DEF Leaders, Executing
  <2> DEFINE rec == [calls[c] EXCEPT !.pc = "joined", !.via = via, !.leader = d]
  <2>3. /\ rec \in CallRec /\ rec.pc = "joined" /\ rec.key = calls[c].key
        /\ rec.leader = d /\ SetCall(c, rec)
    BY <1>1, <2>1, <2>2 DEF CallRec, CallPCs
  <2> HIDE DEF rec
  <2>4. Fits(rec, effects, ledgered)
    BY <2>3 DEF Fits, Knows, Holding
  <2> QED BY <2>2, <2>3, <2>4, LocalStep DEF Holding
<1> QED BY <1>2, <1>3

(* A call that goes on without the ledger, or is refused or rejected.       *)
LEMMA AsideStep ==
  ASSUME Core, NEW c \in Calls, calls[c].pc \in CallPCs \ {"idle", "esandbox", "joined"},
         UNCHANGED <<effects, ledgered>>, NEW rec \in CallRec, SetCall(c, rec),
         rec.key = calls[c].key,
         rec.pc \in {"direct", "approval", "ask", "tell", "rejected"},
         rec.pc = "approval" => rec.key \in Keys,
         rec.pc = "direct" => rec.via = "direct",
         rec.pc = "tell" => rec.outcome = "refused" \/ rec.via \notin {"allowed", "approved"}
  PROVE  Core'
<1>1. "refused" \notin Results
  BY DEF Results
<1>2. Fits(rec, effects, ledgered)
  BY <1>1 DEF Fits, Knows, Executing, Holding
<1> QED BY <1>2, LocalStep DEF Holding

LEMMA RefusalIsTyped ==
  ASSUME Core, NEW c \in Calls, NEW outcome \in Results \cup {"refused"}
  PROVE  /\ Result(c, outcome) \in CallRec /\ Result(c, outcome).pc = "tell"
         /\ Result(c, outcome).key = calls[c].key /\ Result(c, outcome).via = calls[c].via
         /\ Result(c, outcome).outcome = outcome
BY DEF Core, Fits, Result, CallRec, CallPCs

LEMMA PolicyDecideStep ==
  ASSUME Core, NEW c \in Calls, PolicyDecide(c)
  PROVE  Core'
<1> USE DEF CallsOnly
<1>1. calls[c] \in CallRec /\ calls[c].pc = "policy" /\ CallsOnly
  BY DEF Core, Fits, PolicyDecide
<1>2. PICK decision \in Decisions \cup {"unavailable"} :
       \/ /\ RunsDirectly(c, decision)
          /\ SetCall(c, [calls[c] EXCEPT !.pc = "direct", !.via = "direct"])
       \/ RunsLedgered(c, decision) /\ EnterLedger(c, "allowed")
       \/ /\ NeedsApproval(c, decision)
          /\ SetCall(c, [calls[c] EXCEPT !.pc = "approval"])
       \/ Refuse(c)
  BY DEF PolicyDecide
<1>3. CASE SetCall(c, [calls[c] EXCEPT !.pc = "direct", !.via = "direct"])
  <2> DEFINE rec == [calls[c] EXCEPT !.pc = "direct", !.via = "direct"]
  <2>1. rec \in CallRec /\ rec.pc = "direct" /\ rec.via = "direct"
        /\ rec.key = calls[c].key
    BY <1>1 DEF CallRec, CallPCs
  <2> HIDE DEF rec
  <2>2. SetCall(c, rec)
    BY <1>3 DEF rec
  <2> QED BY <1>1, <2>1, <2>2, AsideStep DEF CallPCs
<1>4. CASE RunsLedgered(c, decision) /\ EnterLedger(c, "allowed")
  <2>1. calls[c].key \in Keys
    BY <1>1, <1>4 DEF RunsLedgered, CallRec
  <2> QED BY <1>1, <1>4, <2>1, EnterStep
<1>5. CASE NeedsApproval(c, decision) /\ SetCall(c, [calls[c] EXCEPT !.pc = "approval"])
  <2> DEFINE rec == [calls[c] EXCEPT !.pc = "approval"]
  <2>1. rec \in CallRec /\ rec.pc = "approval" /\ rec.key = calls[c].key
    BY <1>1 DEF CallRec, CallPCs
  <2>2. rec.key \in Keys
    BY <1>1, <1>5, <2>1 DEF NeedsApproval, CallRec
  <2> HIDE DEF rec
  <2>3. SetCall(c, rec)
    BY <1>5 DEF rec
  <2> QED BY <1>1, <2>1, <2>2, <2>3, AsideStep DEF CallPCs
<1>6. CASE Refuse(c)
  BY <1>1, <1>6, RefusalIsTyped, AsideStep DEF Refuse, CallPCs
<1> QED BY <1>2, <1>3, <1>4, <1>5, <1>6

LEMMA ApprovalReadStep ==
  ASSUME Core, Rest, NEW c \in Calls, ApprovalRead(c)
  PROVE  Core'
<1> USE DEF CallsOnly
<1>1. calls[c] \in CallRec /\ calls[c].pc = "approval" /\ CallsOnly /\ calls[c].key \in Keys
  BY DEF Core, Fits, ApprovalRead
<1>2. \/ EnterLedger(c, "approved")
      \/ SetCall(c, [calls[c] EXCEPT !.pc = "direct", !.via = "direct"])
      \/ Refuse(c)
      \/ SetCall(c, [calls[c] EXCEPT !.pc = "ask", !.len = Len(runlog)])
  BY DEF ApprovalRead
<1>3. CASE EnterLedger(c, "approved")
  BY <1>1, <1>3, EnterStep
<1>4. CASE SetCall(c, [calls[c] EXCEPT !.pc = "direct", !.via = "direct"])
  <2> DEFINE rec == [calls[c] EXCEPT !.pc = "direct", !.via = "direct"]
  <2>1. rec \in CallRec /\ rec.pc = "direct" /\ rec.via = "direct"
        /\ rec.key = calls[c].key
    BY <1>1 DEF CallRec, CallPCs
  <2> HIDE DEF rec
  <2>2. SetCall(c, rec)
    BY <1>4 DEF rec
  <2> QED BY <1>1, <2>1, <2>2, AsideStep DEF CallPCs
<1>5. CASE Refuse(c)
  BY <1>1, <1>5, RefusalIsTyped, AsideStep DEF Refuse, CallPCs
<1>6. CASE SetCall(c, [calls[c] EXCEPT !.pc = "ask", !.len = Len(runlog)])
  <2> DEFINE rec == [calls[c] EXCEPT !.pc = "ask", !.len = Len(runlog)]
  <2>0. Len(runlog) \in Nat
    BY DEF Rest
  <2>1. rec \in CallRec /\ rec.pc = "ask" /\ rec.key = calls[c].key
    BY <1>1, <2>0 DEF CallRec, CallPCs
  <2> HIDE DEF rec
  <2>2. SetCall(c, rec)
    BY <1>6 DEF rec
  <2> QED BY <1>1, <2>1, <2>2, AsideStep DEF CallPCs
<1> QED BY <1>2, <1>3, <1>4, <1>5, <1>6

LEMMA ApprovalAskStep ==
  ASSUME Core, NEW c \in Calls, ApprovalAsk(c)
  PROVE  Core'
<1>1. calls[c] \in CallRec /\ calls[c].pc = "ask" /\ UNCHANGED <<effects, ledgered>>
  BY DEF Core, Fits, ApprovalAsk
<1>2. CASE Refuse(c)
  BY <1>1, <1>2, RefusalIsTyped, AsideStep DEF Refuse, CallPCs
<1>3. CASE SetCall(c, [calls[c] EXCEPT !.pc = "rejected"])
  <2> DEFINE rec == [calls[c] EXCEPT !.pc = "rejected"]
  <2>1. rec \in CallRec /\ rec.pc = "rejected" /\ rec.key = calls[c].key
    BY <1>1 DEF CallRec, CallPCs, Ended
  <2> HIDE DEF rec
  <2>2. SetCall(c, rec)
    BY <1>3 DEF rec
  <2> QED BY <1>1, <2>1, <2>2, AsideStep DEF CallPCs
<1> QED BY <1>2, <1>3 DEF ApprovalAsk

LEMMA DirectRunStep ==
  ASSUME Core, NEW c \in Calls, DirectRun(c)
  PROVE  Core'
<1>1. calls[c] \in CallRec /\ calls[c].pc = "direct" /\ UNCHANGED <<effects, ledgered>>
      /\ calls[c].via = "direct"
  BY DEF Core, Fits, DirectRun
<1>2. ASSUME NEW r \in Results, SetCall(c, Result(c, r)) PROVE Core'
  BY <1>1, <1>2, RefusalIsTyped, AsideStep DEF CallPCs
<1>3. CASE SetCall(c, [calls[c] EXCEPT !.pc = "rejected"])
  <2> DEFINE rec == [calls[c] EXCEPT !.pc = "rejected"]
  <2>1. rec \in CallRec /\ rec.pc = "rejected" /\ rec.key = calls[c].key
    BY <1>1 DEF CallRec, CallPCs, Ended
  <2> HIDE DEF rec
  <2>2. SetCall(c, rec)
    BY <1>3 DEF rec
  <2> QED BY <1>1, <2>1, <2>2, AsideStep DEF CallPCs
<1> QED BY <1>2, <1>3 DEF DirectRun

LEMMA EffectReadStep ==
  ASSUME Core, NEW c \in Calls, EffectRead(c)
  PROVE  Core'
<1> DEFINE k == calls[c].key
<1>1. /\ calls[c] \in CallRec /\ calls[c].pc = "eread" /\ k \in Keys
      /\ UNCHANGED <<effects, ledgered>> /\ calls[c].pc \in Executing
  <2>1. calls[c].pc = "eread" /\ UNCHANGED <<effects, ledgered>>
    BY DEF EffectRead, CallsOnly
  <2> QED BY <2>1 DEF Core, Fits, Executing
<1>2. LedgerOK(effects', ledgered') /\ \A d \in Calls : Fits(calls[d], effects', ledgered')
  BY <1>1 DEF Core
<1>3. /\ Len(effects[k]) \in {0, 1, 2}
      /\ HasStarted(k) <=> Len(effects[k]) # 0
      /\ IsRecorded(k) <=> Len(effects[k]) = 2
      /\ IsRecorded(k) => Recorded(k) = effects[k][2].result
  BY <1>1, StreamShape DEF Core
<1>4. CASE Finish(c, "refused")
  <2>1. "refused" \notin Results
    BY DEF Results
  <2> QED BY <1>1, <1>2, <1>4, <2>1, SettleStep DEF Finish
<1>5. CASE IsRecorded(k) /\ Finish(c, Recorded(k))
  <2>1. Recorded(k) \in Results \cup {"none"}
    <3>1. effects[k] \in Seq(EffectEvent) /\ 2 \in DOMAIN effects[k]
      BY <1>1, <1>3, <1>5 DEF Core, LedgerOK
    <3>2. effects[k][2] \in EffectEvent
      BY <3>1
    <3> QED BY <1>3, <1>5, <3>2 DEF EffectEvent
  <2>2. Len(effects'[k]) = 2 /\ effects'[k][2].result = Recorded(k)
    BY <1>1, <1>3, <1>5
  <2>3. SettleCalls(c, "tell", Recorded(k))
    BY <1>5 DEF Finish
  <2> QED BY <1>1, <1>2, <2>1, <2>2, <2>3, SettleStep
<1>6. ASSUME NEW pc \in {"estart", "eunknown"}, ~IsRecorded(k),
             pc = "eunknown" <=> HasStarted(k),
             SetCall(c, [calls[c] EXCEPT !.pc = pc, !.len = Len(effects[k])])
      PROVE  Core'
  <2> DEFINE rec == [calls[c] EXCEPT !.pc = pc, !.len = Len(effects[k])]
  <2>1. Len(effects[k]) \in Nat /\ pc \in CallPCs
    BY <1>3 DEF CallPCs, Executing
  <2>2. /\ rec \in CallRec /\ rec.key = k /\ rec.len = Len(effects[k]) /\ rec.pc = pc
    BY <1>1, <2>1 DEF CallRec
  <2>3. SetCall(c, rec)
    BY <1>6
  <2> HIDE DEF rec
  <2>4. Fits(rec, effects, ledgered)
    <3>1. ~Knows(rec)
      BY <2>2 DEF Knows
    <3>2. CASE HasStarted(k)
      <4>1. rec.pc = "eunknown" /\ rec.len = 1 /\ Len(effects[rec.key]) = 1
        BY <1>3, <1>6, <2>2, <3>2
      <4> QED BY <1>1, <2>2, <3>1, <4>1 DEF Fits, Holding
    <3>3. CASE ~HasStarted(k)
      <4>1. rec.pc = "estart" /\ rec.len = 0
        BY <1>3, <1>6, <2>2, <3>3
      <4> QED BY <1>1, <2>2, <3>1, <4>1 DEF Fits, Holding
    <3> QED BY <3>2, <3>3
  <2> QED BY <1>1, <2>2, <2>3, <2>4, LocalStep DEF Holding
<1>7. CASE ~IsRecorded(k) /\ SetCall(c, [calls[c] EXCEPT
             !.pc = IF HasStarted(k) THEN "eunknown" ELSE "estart", !.len = Len(effects[k])])
  BY <1>6, <1>7
<1> QED BY <1>4, <1>5, <1>7 DEF EffectRead

LEMMA EffectReturnStep ==
  ASSUME Core, NEW c \in Calls, EffectReturn(c)
  PROVE  Core'
<1>1. /\ calls[c] \in CallRec /\ calls[c].pc = "erunning" /\ calls[c].key \in Keys
      /\ UNCHANGED <<effects, ledgered>>
      /\ calls[c].len = 1 /\ Len(effects[calls[c].key]) >= 1 /\ ledgered[calls[c].key] = 1
  BY DEF Core, Fits, EffectReturn, CallsOnly, Executing
<1>2. PICK r \in Results, type \in Terminals :
        SetCall(c, [calls[c] EXCEPT !.pc = "esettle", !.type = type, !.outcome = r])
  BY DEF EffectReturn
<1> DEFINE rec == [calls[c] EXCEPT !.pc = "esettle", !.type = type, !.outcome = r]
<1>3. /\ rec \in CallRec /\ rec.key = calls[c].key /\ rec.len = calls[c].len
      /\ rec.pc = "esettle" /\ rec.type = type /\ rec.outcome = r
  BY <1>1 DEF CallRec, CallPCs, Executing
<1>4. SetCall(c, rec)
  BY <1>2
<1> HIDE DEF rec
<1>5. Len(effects[calls[c].key]) = 2 => effects[calls[c].key][2].result = "unknown"
  BY <1>1 DEF Core, Fits, Holding
<1>6. Fits(rec, effects, ledgered)
  BY <1>1, <1>3, <1>5 DEF Fits, Knows
<1> QED BY <1>1, <1>3, <1>4, <1>6, LocalStep DEF Holding

LEMMA TellStep ==
  ASSUME Core, NEW c \in Calls, Tell(c)
  PROVE  Core'
<1>1. calls[c] \in CallRec /\ calls[c].pc = "tell" /\ UNCHANGED <<effects, ledgered>>
  BY DEF Core, Fits, Tell, CallsOnly
<1> DEFINE rec == [calls[c] EXCEPT !.pc = "told"]
<1>2. /\ rec \in CallRec /\ rec.key = calls[c].key /\ rec.pc = "told"
      /\ rec.via = calls[c].via /\ rec.outcome = calls[c].outcome
  BY <1>1 DEF CallRec, CallPCs, Ended
<1>3. SetCall(c, rec)
  BY DEF Tell
<1> HIDE DEF rec
<1>4. Fits(rec, effects, ledgered)
  <2>1. Knows(rec) => Knows(calls[c])
    BY <1>1, <1>2 DEF Knows
  <2> QED BY <1>2, <2>1 DEF Core, Fits, Executing, Holding
<1> QED BY <1>1, <1>2, <1>3, <1>4, LocalStep DEF Holding

LEMMA AbortStep ==
  ASSUME Core, NEW c \in Calls, Abort(c)
  PROVE  Core'
<1>1. calls[c] \in CallRec /\ calls[c].pc # "idle" /\ UNCHANGED <<effects, ledgered>>
  BY DEF Core, Fits, Abort, CallsOnly
<1> DEFINE rec == [calls[c] EXCEPT !.aborted = TRUE]
<1>2. /\ rec \in CallRec /\ rec.key = calls[c].key /\ rec.pc = calls[c].pc
      /\ rec.via = calls[c].via /\ rec.outcome = calls[c].outcome
      /\ rec.len = calls[c].len /\ rec.type = calls[c].type /\ rec.leader = calls[c].leader
  BY <1>1 DEF CallRec
<1>3. SetCall(c, rec)
  BY DEF Abort
<1> HIDE DEF rec
<1>4. Fits(rec, effects, ledgered)
  <2>1. Knows(rec) => Knows(calls[c])
    BY <1>2 DEF Knows
  <2> QED BY <1>2, <2>1 DEF Core, Fits
<1>5. rec.pc = "joined" => /\ rec.leader \in Calls
                           /\ calls[rec.leader].key = rec.key
                           /\ calls[rec.leader].pc # "idle"
  BY <1>1, <1>2 DEF Core, JoinedOK, CallRec
<1> QED BY <1>1, <1>2, <1>3, <1>4, <1>5, LocalStep DEF Holding

(* The start is stored: nobody else executes the key.                       *)
LEMMA EffectStartStep ==
  ASSUME Core, NEW c \in Calls, EffectStart(c)
  PROVE  Core'
<1> DEFINE k == calls[c].key
<1>1. /\ calls[c] \in CallRec /\ calls[c].pc = "estart" /\ calls[c].pc \in Executing
      /\ k \in Keys /\ calls[c].len = 0 /\ UNCHANGED ledgered
  <2>1. calls[c].pc = "estart" /\ UNCHANGED ledgered
    BY DEF EffectStart, LedgerOnly
  <2> QED BY <2>1 DEF Core, Fits, Executing
<1>2. CASE Reject(c) /\ UNCHANGED effects
  <2>1. SettleCalls(c, "rejected", "none")
    BY <1>2 DEF Reject
  <2> QED BY <1>1, <1>2, <2>1, SettleStep DEF Core
<1>3. CASE /\ Accepts(effects[k], calls[c].len) /\ EffectAppend(c, "started", "none")
           /\ SetCall(c, [calls[c] EXCEPT !.pc = "esandbox", !.len = @ + 1])
  <2> DEFINE e == [type |-> "started", intent |-> calls[c].intent, result |-> "none"]
  <2> DEFINE rec == [calls[c] EXCEPT !.pc = "esandbox", !.len = 1]
  <2>1. Len(effects[k]) = 0 /\ Len(effects[k]) <= 1 /\ ledgered[k] = 0 /\ effects[k] \in Seq(EffectEvent)
    BY <1>1, <1>3 DEF Accepts, Core, LedgerOK
  <2>2. e \in EffectEvent /\ e.type = "started"
    BY <1>1 DEF EffectEvent, CallRec
  <2>3. effects' = [effects EXCEPT ![k] = Append(@, e)]
    BY <1>3 DEF EffectAppend
  <2>4. /\ rec \in CallRec /\ rec.pc = "esandbox" /\ rec.len = 1 /\ rec.key = k
    BY <1>1 DEF CallRec, CallPCs, Executing
  <2>0. SetCall(c, rec)
    <3>1. calls[c].len + 1 = 1
      BY <1>1
    <3> QED BY <1>3, <3>1
  <2>5. /\ CallsOK' /\ calls'[c] = rec
        /\ \A d \in Calls : d # c => calls'[d] = calls[d]
    BY <2>0 DEF Core, CallsOK, SetCall
  <2> HIDE DEF rec, e
  <2>6. LedgerOK(effects', ledgered')
    BY <1>1, <2>1, <2>2, <2>3, LedgerGrows
  <2>7. Len(effects'[k]) = 1
    <3>1. effects'[k] = Append(effects[k], e)
      BY <1>1, <2>3 DEF Core, LedgerOK
    <3> QED BY <2>1, <3>1
  <2>8. Fits(rec, effects', ledgered')
    <3>1. /\ rec.key \in Keys /\ ledgered'[rec.key] = 0
          /\ Len(effects'[rec.key]) >= 1 /\ Len(effects'[rec.key]) # 2
      BY <1>1, <2>1, <2>4, <2>7
    <3>2. ~Knows(rec)
      BY <2>4 DEF Knows
    <3> QED BY <2>4, <3>1, <3>2 DEF Fits
  <2>9. \A d \in Calls : Fits(calls[d], effects', ledgered')
    <3>1. Len(effects[k]) # 1
      BY <2>1
    <3> QED BY <1>1, <2>1, <2>2, <2>3, <3>1, OthersFit
  <2>10. \A d \in Calls : calls[d].pc \in Holding => calls[d].key # k
    BY <2>1 DEF Core, Fits, Holding
  <2>11. OneExecutor'
    BY <2>4, <2>5, <2>10 DEF Core, OneExecutor
  <2>12. JoinedOK'
    <3> SUFFICES ASSUME NEW d \in Calls, calls'[d].pc = "joined"
                 PROVE  calls'[calls'[d].leader].key = calls'[d].key
                        /\ calls'[calls'[d].leader].pc # "idle"
      BY DEF JoinedOK
    <3>1. PICK f \in Calls : /\ f = calls'[d].leader /\ d # c
                             /\ calls[f].key = calls'[d].key /\ calls[f].pc # "idle"
      BY <2>4, <2>5 DEF Core, JoinedOK, Fits, CallRec
    <3> QED BY <2>4, <2>5, <3>1
  <2> QED BY <2>5, <2>6, <2>8, <2>9, <2>11, <2>12 DEF Core
<1> QED BY <1>2, <1>3 DEF EffectStart

LEMMA EffectRunStep ==
  ASSUME Core, NEW c \in Calls, EffectRun(c)
  PROVE  Core'
<1> DEFINE k == calls[c].key
<1>1. calls[c].pc = "esandbox" /\ UNCHANGED effects
  BY DEF EffectRun
<1>2. /\ calls[c] \in CallRec /\ k \in Keys /\ calls[c].len = 1 /\ Len(effects[k]) >= 1
      /\ ledgered[k] = 0 /\ (Len(effects[k]) = 2 => effects[k][2].result = "unknown")
  BY <1>1 DEF Core, Fits, Executing, Holding
<1>3. CASE UNCHANGED ledgered /\ SetCall(c, [calls[c] EXCEPT !.pc = "esettle",
             !.type = "cancelled", !.outcome = "failed"])
  <2> DEFINE rec == [calls[c] EXCEPT !.pc = "esettle", !.type = "cancelled",
                                     !.outcome = "failed"]
  <2>1. /\ rec \in CallRec /\ rec.key = k /\ rec.len = 1
        /\ rec.pc = "esettle" /\ rec.type = "cancelled" /\ rec.outcome = "failed"
    BY <1>2 DEF CallRec, CallPCs, Executing, Terminals, Results
  <2>2. SetCall(c, rec)
    BY <1>3
  <2> HIDE DEF rec
  <2>3. Fits(rec, effects, ledgered)
    BY <1>2, <2>1 DEF Fits, Knows, Terminals, Results
  <2> QED BY <1>1, <1>3, <2>1, <2>2, <2>3, LocalStep DEF Holding
<1>4. CASE /\ SetCall(c, [calls[c] EXCEPT !.pc = "erunning"])
           /\ ledgered' = [ledgered EXCEPT ![k] = @ + 1]
  <2> DEFINE rec == [calls[c] EXCEPT !.pc = "erunning"]
  <2>1. rec \in CallRec /\ rec.key = k /\ rec.len = 1 /\ rec.pc = "erunning"
    BY <1>2 DEF CallRec, CallPCs, Executing
  <2>2. /\ CallsOK' /\ calls'[c] = rec
        /\ \A d \in Calls : d # c => calls'[d] = calls[d]
    BY <1>4 DEF Core, CallsOK, SetCall
  <2> HIDE DEF rec
  <2>3. ledgered'[k] = 1 /\ \A q \in Keys : q # k => ledgered'[q] = ledgered[q]
    BY <1>2, <1>4 DEF Core, LedgerOK
  <2>4. LedgerOK(effects', ledgered')
    BY <1>1, <1>2, <1>4, <2>3 DEF Core, LedgerOK
  <2>5. Fits(rec, effects', ledgered')
    BY <1>1, <1>2, <2>1, <2>3 DEF Fits, Knows
  <2>6. ASSUME NEW d \in Calls, d # c PROVE Fits(calls[d], effects', ledgered')
    <3>1. calls[d].pc \in Holding => calls[d].key # k
      BY <1>1, <2>6 DEF Core, OneExecutor, Holding
    <3>2. Fits(calls[d], effects, ledgered)
      BY DEF Core
    <3>3. calls[d].pc \in Holding => ledgered'[calls[d].key] = ledgered[calls[d].key]
      BY <2>3, <3>1, <3>2 DEF Fits, Holding, Executing
    <3> QED BY <1>1, <3>2, <3>3 DEF Fits, Holding
  <2>7. OneExecutor'
    BY <1>1, <2>1, <2>2 DEF Core, OneExecutor, Holding
  <2>8. JoinedOK'
    <3> SUFFICES ASSUME NEW d \in Calls, calls'[d].pc = "joined"
                 PROVE  calls'[calls'[d].leader].key = calls'[d].key
                        /\ calls'[calls'[d].leader].pc # "idle"
      BY DEF JoinedOK
    <3>1. PICK f \in Calls : /\ f = calls'[d].leader /\ d # c
                             /\ calls[f].key = calls'[d].key /\ calls[f].pc # "idle"
      BY <2>1, <2>2 DEF Core, JoinedOK, Fits, CallRec
    <3> QED BY <2>1, <2>2, <3>1
  <2>9. \A d \in Calls : Fits(calls'[d], effects', ledgered')
    BY <2>2, <2>5, <2>6
  <2> QED BY <2>2, <2>4, <2>7, <2>8, <2>9 DEF Core
<1> QED BY <1>3, <1>4 DEF EffectRun

(* The terminal event of a call, and what its callers are told.             *)
LEMMA TerminalStep ==
  ASSUME Core, NEW c \in Calls, calls[c].pc \in Executing, calls[c].key \in Keys,
         Len(effects[calls[c].key]) = 1,
         NEW type \in Terminals, NEW result \in Results,
         EffectAppend(c, type, result), UNCHANGED ledgered, Finish(c, result),
         calls[c].pc \in Holding \/ result = "unknown"
  PROVE  Core'
<1> DEFINE k == calls[c].key
           e == [type |-> type, intent |-> calls[c].intent, result |-> result]
<1>1. calls[c] \in CallRec /\ effects[k] \in Seq(EffectEvent)
  BY DEF Core, Fits, LedgerOK
<1>2. e \in EffectEvent /\ e.type = type /\ e.result = result /\ type # "started"
  BY <1>1 DEF EffectEvent, CallRec, Terminals, Results
<1>3. effects' = [effects EXCEPT ![k] = Append(@, e)]
  BY DEF EffectAppend
<1> HIDE DEF e
<1>0. Len(effects[k]) <= 1 /\ k \in Keys /\ (e.type = "started" <=> Len(effects[k]) = 0)
  BY <1>2
<1>4. LedgerOK(effects', ledgered')
  BY <1>2, <1>3, <1>0, LedgerGrows
<1>5. ASSUME NEW d \in Calls, d # c PROVE Fits(calls[d], effects', ledgered')
  <2>1. calls[d].pc \in Holding /\ calls[d].key = k => e.result = "unknown"
    BY <1>2, <1>5 DEF Core, OneExecutor
  <2> QED BY <1>0, <1>2, <1>3, <2>1, OthersFit
<1>6. Len(effects'[k]) = 2 /\ effects'[k][2].result = result
  <2>1. effects'[k] = Append(effects[k], e)
    BY <1>1, <1>3 DEF Core, LedgerOK
  <2> QED BY <1>1, <1>2, <2>1
<1>7. SettleCalls(c, "tell", result)
  BY DEF Finish
<1> QED BY <1>4, <1>5, <1>6, <1>7, SettleStep

LEMMA EffectSettleStep ==
  ASSUME Core, NEW c \in Calls, EffectSettle(c) \/ EffectUnknown(c)
  PROVE  Core'
<1>1. calls[c].pc \in {"esettle", "eunknown"} /\ UNCHANGED ledgered
  BY DEF EffectSettle, EffectUnknown, LedgerOnly
<1>2. /\ calls[c] \in CallRec /\ calls[c].pc \in Executing /\ calls[c].key \in Keys
      /\ calls[c].len = 1
      /\ calls[c].pc = "esettle" => calls[c].type \in Terminals /\ calls[c].outcome \in Results
  BY <1>1 DEF Core, Fits, Executing
<1>3. CASE Reject(c) /\ UNCHANGED effects
  <2>1. SettleCalls(c, "rejected", "none")
    BY <1>3 DEF Reject
  <2> QED BY <1>1, <1>2, <1>3, <2>1, SettleStep DEF Core
<1>4. CASE /\ Accepts(effects[calls[c].key], calls[c].len) /\ calls[c].pc = "esettle"
           /\ EffectAppend(c, calls[c].type, calls[c].outcome) /\ Finish(c, calls[c].outcome)
  <2>1. Len(effects[calls[c].key]) = 1 /\ calls[c].pc \in Holding
    BY <1>2, <1>4 DEF Accepts, Holding
  <2> QED BY <1>1, <1>2, <1>4, <2>1, TerminalStep
<1>5. CASE /\ Accepts(effects[calls[c].key], calls[c].len)
           /\ EffectAppend(c, "unknown", "unknown") /\ Finish(c, "unknown")
  <2>1. Len(effects[calls[c].key]) = 1
    BY <1>2, <1>5 DEF Accepts
  <2>2. "unknown" \in Terminals /\ "unknown" \in Results
    BY DEF Terminals, Results
  <2> QED BY <1>1, <1>2, <1>5, <2>1, <2>2, TerminalStep
<1> QED BY <1>3, <1>4, <1>5 DEF EffectSettle, EffectUnknown

LEMMA CrashStep ==
  ASSUME Core, NEW seam \in Seams, Crash(seam)
  PROVE  Core'
<1>1. UNCHANGED <<effects, ledgered>> /\ CallsOK'
  BY DEF Crash, CallsOK
<1>2. \A c \in Calls : calls'[c] = calls[c] \/ calls'[c] = [calls[c] EXCEPT !.pc = "lost"]
  BY DEF Crash
<1>3. \A c \in Calls : calls[c].pc = "idle" => calls'[c] = calls[c]
  BY DEF Crash
<1>4. \A c \in Calls : Fits(calls[c], effects, ledgered) /\ calls[c] \in CallRec
  BY DEF Core, Fits
<1>5. \A c \in Calls : /\ calls'[c] \in CallRec /\ calls'[c].key = calls[c].key
                       /\ calls'[c].leader = calls[c].leader
                       /\ (calls'[c] = calls[c] \/ calls'[c].pc = "lost")
  <2> SUFFICES ASSUME NEW c \in Calls, calls'[c] = [calls[c] EXCEPT !.pc = "lost"]
               PROVE  /\ calls'[c] \in CallRec /\ calls'[c].key = calls[c].key
                      /\ calls'[c].leader = calls[c].leader /\ calls'[c].pc = "lost"
    BY <1>2, <1>4
  <2> QED BY <1>4 DEF CallRec, CallPCs, Ended
<1>6. \A c \in Calls : Fits(calls'[c], effects', ledgered')
  <2> SUFFICES ASSUME NEW c \in Calls, calls'[c].pc = "lost"
               PROVE  Fits(calls'[c], effects', ledgered')
    BY <1>1, <1>4, <1>5
  <2> QED BY <1>5 DEF Fits, Knows, Executing, Holding
<1>7. OneExecutor'
  BY <1>5 DEF Core, OneExecutor, Holding
<1>8. JoinedOK'
  <2> SUFFICES ASSUME NEW d \in Calls, calls'[d].pc = "joined"
               PROVE  calls'[calls'[d].leader].key = calls'[d].key
                      /\ calls'[calls'[d].leader].pc # "idle"
    BY DEF JoinedOK
  <2>1. calls'[d] = calls[d] /\ calls[d].leader \in Calls
    BY <1>4, <1>5 DEF CallRec
  <2>2. calls[calls[d].leader].key = calls[d].key /\ calls[calls[d].leader].pc # "idle"
    BY <2>1 DEF Core, JoinedOK
  <2> QED BY <1>5, <2>1, <2>2
<1>9. LedgerOK(effects, ledgered)'
  BY <1>1 DEF Core
<1> QED BY <1>1, <1>6, <1>7, <1>8, <1>9 DEF Core

(* The steps that neither a call nor its ledger takes part in.              *)
LEMMA ApartStep ==
  ASSUME Core, UNCHANGED <<effects, calls, ledgered>>
  PROVE  Core'
BY DEF Core, LedgerOK, CallsOK, OneExecutor, JoinedOK

LEMMA NextCore ==
  ASSUME Core, Rest, [Next]_vars
  PROVE  Core'
<1>1. CASE \E c \in Calls, seam \in Seams, key \in Keys \cup {NoKey}, intent \in Intents :
             Request(c, seam, key, intent)
  BY <1>1, RequestStep
<1>2. ASSUME NEW c \in Calls, CallStep(c) PROVE Core'
  BY <1>2, PolicyDecideStep, ApprovalReadStep, ApprovalAskStep, DirectRunStep,
     EffectReadStep, EffectStartStep, EffectRunStep, EffectReturnStep, EffectSettleStep,
     TellStep DEF CallStep
<1>3. ASSUME NEW c \in Calls, Abort(c) PROVE Core'
  BY <1>3, AbortStep
<1>4. ASSUME NEW a \in Approvers, AnswerRead(a) \/ AnswerAppend(a) PROVE Core'
  BY <1>4, ApartStep DEF AnswerRead, AnswerAppend
<1>5. CASE OtherEvent
  BY <1>5, ApartStep DEF OtherEvent
<1>6. CASE \E seam \in Seams : Crash(seam)
  BY <1>6, CrashStep
<1>7. CASE UNCHANGED vars
  BY <1>7, ApartStep DEF vars
<1> QED BY <1>1, <1>2, <1>3, <1>4, <1>5, <1>6, <1>7 DEF Next

(* The Run stream, the answers and the counts keep their types.             *)
LEMMA NextRest ==
  ASSUME Core, Rest, [Next]_vars
  PROVE  Rest'
<1> USE DEF Rest
<1>1. \A c \in Calls : calls[c] \in CallRec
  BY DEF Core, Fits
<1>2. ASSUME NEW c \in Calls, ApprovalAsk(c) PROVE Rest'
  <2> DEFINE e == [type |-> "requested", key |-> calls[c].key,
                   tool |-> Tool[calls[c].intent], decision |-> "none"]
  <2>1. e \in RunEvent
    BY <1>1 DEF RunEvent, CallRec
  <2>2. runlog' = Append(runlog, e) \/ runlog' = runlog
    BY <1>2 DEF ApprovalAsk
  <2> HIDE DEF e
  <2>3. runlog' \in Seq(RunEvent)
    <3>1. CASE runlog' = Append(runlog, e)
      BY <2>1, <3>1
    <3>2. CASE runlog' = runlog
      BY <3>2
    <3> QED BY <2>2, <3>1, <3>2
  <2> QED BY <1>2, <2>3 DEF ApprovalAsk
<1>3. ASSUME NEW c \in Calls, DirectRun(c) PROVE Rest'
  <2>1. direct' \in [Keys -> Nat]
    BY <1>1, <1>3 DEF DirectRun, CallRec
  <2> QED BY <1>3, <2>1 DEF DirectRun
<1>4. ASSUME NEW a \in Approvers, AnswerRead(a) PROVE Rest'
  <2>1. PICK i \in DOMAIN runlog, d \in {"approved", "denied"} :
          answers' = [answers EXCEPT ![a] = [pc |-> "append", decision |-> d,
                                             key |-> runlog[i].key, len |-> Len(runlog)]]
    BY <1>4 DEF AnswerRead
  <2>2. runlog[i] \in RunEvent /\ Len(runlog) \in Nat
    OBVIOUS
  <2>3. runlog[i].key \in Keys \cup {NoKey}
    BY <2>2 DEF RunEvent
  <2> QED BY <1>4, <2>1, <2>2, <2>3 DEF AnswerRead
<1>5. ASSUME NEW a \in Approvers, AnswerAppend(a) PROVE Rest'
  <2> DEFINE e == [type |-> "answered", key |-> answers[a].key, tool |-> "none",
                   decision |-> answers[a].decision]
  <2>1. e \in RunEvent
    BY DEF RunEvent
  <2>2. runlog' = Append(runlog, e) \/ runlog' = runlog
    BY <1>5 DEF AnswerAppend
  <2> HIDE DEF e
  <2>3. runlog' \in Seq(RunEvent)
    <3>1. CASE runlog' = Append(runlog, e)
      BY <2>1, <3>1
    <3>2. CASE runlog' = runlog
      BY <3>2
    <3> QED BY <2>2, <3>1, <3>2
  <2>4. answers' = [answers EXCEPT ![a] = [answers[a] EXCEPT !.pc = "done"]]
    BY <1>5 DEF AnswerAppend
  <2>5. [answers[a] EXCEPT !.pc = "done"] \in
          [pc : {"idle", "append", "done"}, decision : {"approved", "denied"},
           key : Keys \cup {NoKey}, len : Nat]
    OBVIOUS
  <2>6. answers' \in [Approvers -> [pc : {"idle", "append", "done"},
                                   decision : {"approved", "denied"},
                                   key : Keys \cup {NoKey}, len : Nat]]
    BY <2>4, <2>5
  <2>7. UNCHANGED <<direct, used>>
    BY <1>5 DEF AnswerAppend
  <2> QED BY <2>3, <2>6, <2>7
<1>6. CASE OtherEvent
  <2> DEFINE e == [type |-> "other", key |-> NoKey, tool |-> "none", decision |-> "none"]
  <2>1. e \in RunEvent
    BY DEF RunEvent
  <2>2. runlog' = Append(runlog, e)
    BY <1>6 DEF OtherEvent
  <2> HIDE DEF e
  <2>3. runlog' \in Seq(RunEvent)
    BY <2>1, <2>2
  <2> QED BY <1>6, <2>3 DEF OtherEvent
<1>7. ASSUME NEW seam \in Seams, Crash(seam) PROVE Rest'
  BY <1>7 DEF Crash
<1>8. ASSUME UNCHANGED <<runlog, answers, direct, used>> PROVE Rest'
  BY <1>8
<1> HIDE DEF Rest
<1>9. ASSUME NEW c \in Calls, CallStep(c) PROVE Rest'
  BY <1>2, <1>3, <1>8, <1>9 DEF CallStep, PolicyDecide, ApprovalRead, EffectRead, EffectStart,
     EffectRun, EffectReturn, EffectSettle, EffectUnknown, Tell, CallsOnly, LedgerOnly
<1> QED BY <1>4, <1>5, <1>6, <1>7, <1>8, <1>9 DEF Next, vars, Request, Abort, CallsOnly

-----------------------------------------------------------------------------
(* THEOREMS *)

LEMMA AlwaysCore == Spec => [](Core /\ Rest)
<1>1. Init => Core /\ Rest
  BY InitCore
<1>2. Core /\ Rest /\ [Next]_vars => (Core /\ Rest)'
  BY NextCore, NextRest
<1> QED BY <1>1, <1>2, PTL DEF Spec

(* Every effect stream is a start and then at most one terminal, and the    *)
(* calls, the Run stream and the answers keep their shapes.                 *)
THEOREM GatewayTypeCorrect == Spec => []TypeOK
<1>1. Core /\ Rest => TypeOK
  BY CoreIsTyped
<1> QED BY <1>1, AlwaysCore, PTL

(* Whatever gateways, retries, intents and crashes meet on an effect key,   *)
(* the ledger hands it to the sandbox at most once.                         *)
THEOREM EffectRunsOnce == Spec => []AtMostOnce
<1>1. Core => AtMostOnce
  BY DEF Core, LedgerOK, AtMostOnce
<1> QED BY <1>1, AlwaysCore, PTL

(* Callers who were told the outcome of one effect were told the same.      *)
THEOREM CallersAgree == Spec => []OneTruth
<1>1. Core => OneTruth
  <2> SUFFICES ASSUME Core, NEW c \in Calls, NEW d \in Calls, Informed(c), Informed(d),
                      calls[c].key = calls[d].key
               PROVE  calls[c].outcome = calls[d].outcome
    BY DEF OneTruth
  <2>1. Knows(calls[c]) /\ Knows(calls[d])
    BY DEF Informed, Knows
  <2> QED BY <2>1 DEF Core, Fits
<1> QED BY <1>1, AlwaysCore, PTL
-----------------------------------------------------------------------------
(* Conflicts come from elsewhere.                                           *)

SameEffect(rec, other) ==
  rec.key = other.key /\ rec.seam = other.seam /\ rec.intent = other.intent

(* Another seam or another intent used the key of this call.                *)
ForeignIn(C, rec) ==
  \E d \in Calls : C[d].key = rec.key /\ (C[d].seam # rec.seam \/ C[d].intent # rec.intent)

(* A call between its start, or the orphan it found, and the terminal.      *)
Settling == Holding \cup {"eunknown"}

(* As long as nobody else used its key, a call finds the stream as long as  *)
(* it left it.                                                              *)
Alone(C, E, rec) ==
  /\ rec.pc = "idle" => rec.key = NoKey
  /\ rec.pc \in {"policy", "approval", "ask"} => rec.via = "none"
  /\ rec.pc = "estart" => Len(E[rec.key]) = 0 \/ ForeignIn(C, rec)
  /\ rec.pc \in Settling => Len(E[rec.key]) = 1 \/ ForeignIn(C, rec)
  /\ rec.pc = "rejected" /\ rec.via \in {"allowed", "approved"} =>
       rec.key \in Keys /\ ForeignIn(C, rec)

OneExecution ==
  \A c, d \in Calls : calls[c].pc \in Executing /\ calls[d].pc \in Executing
                        /\ SameEffect(calls[c], calls[d]) => c = d

SharesItsEffect ==
  \A c \in Calls : calls[c].pc = "joined" => SameEffect(calls[c], calls[calls[c].leader])

ConflictInv ==
  OneExecution /\ SharesItsEffect /\ \A c \in Calls : Alone(calls, effects, calls[c])

(* A call keeps what it asked for.                                          *)
AskedKept == \A d \in Calls : calls[d].pc # "idle" => SameEffect(calls'[d], calls[d])

LEMMA ForeignStays ==
  ASSUME ConflictInv, AskedKept, NEW rec, rec.key \in Keys, ForeignIn(calls, rec)
  PROVE  ForeignIn(calls', rec)
<1>1. PICK d \in Calls : /\ calls[d].key = rec.key
                         /\ (calls[d].seam # rec.seam \/ calls[d].intent # rec.intent)
  BY DEF ForeignIn
<1>2. calls[d].pc # "idle"
  BY <1>1, ConstantsAssumption DEF ConflictInv, Alone
<1> QED BY <1>1, <1>2 DEF AskedKept, SameEffect, ForeignIn

(* The step of an executing call leaves the others alone, or is foreign to  *)
(* them.                                                                    *)
LEMMA OthersAlone ==
  ASSUME Core, ConflictInv, AskedKept, NEW c \in Calls, NEW d \in Calls, d # c,
         \A k \in Keys : effects'[k] = effects[k]
                           \/ (k = calls[c].key /\ calls[c].pc \in Executing),
         calls'[d] = calls[d]
  PROVE  Alone(calls', effects', calls'[d])
<1> DEFINE rec == calls[d]
<1>1. Alone(calls, effects, rec) /\ Fits(rec, effects, ledgered)
  BY DEF ConflictInv, Core
<1>2. rec.pc \in Executing => rec.key \in Keys
  BY <1>1 DEF Fits
<1>3. rec.key \in Keys /\ ForeignIn(calls, rec) => ForeignIn(calls', rec)
  BY ForeignStays
<1>4. rec.pc \in Executing => effects'[rec.key] = effects[rec.key] \/ ForeignIn(calls', rec)
  <2> SUFFICES ASSUME rec.pc \in Executing, effects'[rec.key] # effects[rec.key]
               PROVE  ForeignIn(calls, rec)
    BY <1>2, <1>3
  <2>1. rec.key = calls[c].key /\ calls[c].pc \in Executing
    BY <1>2
  <2>2. ~SameEffect(rec, calls[c])
    BY <2>1 DEF ConflictInv, OneExecution
  <2> QED BY <2>1, <2>2 DEF SameEffect, ForeignIn
<1> HIDE DEF rec
<1>5. Alone(calls', effects', rec)
  BY <1>1, <1>2, <1>3, <1>4 DEF Alone, Settling, Holding, Executing
<1> QED BY <1>5 DEF rec

(* One call moves on.                                                       *)
LEMMA MovesAlone ==
  ASSUME Core, ConflictInv, NEW c \in Calls, NEW rec \in CallRec, SetCall(c, rec),
         calls[c].pc # "idle" => SameEffect(rec, calls[c]),
         rec.pc # "idle",
         \A k \in Keys : effects'[k] = effects[k]
                           \/ (k = calls[c].key /\ calls[c].pc \in Executing),
         rec.pc \in Executing => /\ calls[c].pc # "idle" /\ rec.key \in Keys
                                 /\ calls[c].pc \in Executing \/ Leaders(c) = {},
         rec.pc = "joined" => /\ calls[c].pc # "idle"
                              /\ \/ calls[c].pc = "joined" /\ rec.leader = calls[c].leader
                                 \/ calls[c].pc \notin Executing /\ rec.leader \in Leaders(c),
         rec.pc \in {"policy", "approval", "ask"} => rec.via = "none",
         rec.pc = "estart" => Len(effects'[rec.key]) = 0 \/ ForeignIn(calls, rec),
         rec.pc \in Settling => Len(effects'[rec.key]) = 1 \/ ForeignIn(calls, rec),
         rec.pc = "rejected" /\ rec.via \in {"allowed", "approved"} =>
           rec.key \in Keys /\ ForeignIn(calls, rec)
  PROVE  ConflictInv'
<1>1. calls'[c] = rec /\ \A d \in Calls : d # c => calls'[d] = calls[d]
  BY DEF Core, CallsOK, SetCall
<1>2. AskedKept
  BY <1>1 DEF AskedKept, SameEffect
<1>3. rec.key \in Keys /\ ForeignIn(calls, rec) => ForeignIn(calls', rec)
  BY <1>2, ForeignStays
<1>4. Alone(calls', effects', rec)
  BY <1>3 DEF Alone, Executing, Settling, Holding
<1>5. \A d \in Calls : Alone(calls', effects', calls'[d])
  BY <1>1, <1>2, <1>4, OthersAlone
<1>6. OneExecution'
  <2> SUFFICES ASSUME NEW d \in Calls, d # c, calls[d].pc \in Executing, rec.pc \in Executing,
                      SameEffect(calls[d], rec)
               PROVE  FALSE
    BY <1>1 DEF ConflictInv, OneExecution, SameEffect
  <2>1. SameEffect(calls[d], calls[c])
    BY DEF SameEffect
  <2>2. d \in Leaders(c)
    BY <2>1 DEF Leaders, SameEffect
  <2> QED BY <2>1, <2>2 DEF ConflictInv, OneExecution
<1>7. SharesItsEffect'
  <2> SUFFICES ASSUME NEW d \in Calls, calls'[d].pc = "joined"
               PROVE  SameEffect(calls'[d], calls'[calls'[d].leader])
    BY DEF SharesItsEffect
  <2>1. CASE d = c /\ calls[c].pc \notin Executing /\ rec.leader \in Leaders(c)
    <3>1. rec.leader \in Calls /\ SameEffect(rec, calls[rec.leader]) /\ rec.leader # c
      BY <1>1, <2>1 DEF Leaders, SameEffect
    <3> QED BY <1>1, <2>1, <3>1
  <2>2. CASE calls[d].pc = "joined" /\ calls'[d].leader = calls[d].leader
    <3>1. /\ calls[d].leader \in Calls /\ calls[calls[d].leader].pc # "idle"
          /\ SameEffect(calls[d], calls[calls[d].leader])
      BY <2>2 DEF Core, Fits, CallRec, JoinedOK, ConflictInv, SharesItsEffect
    <3> QED BY <1>2, <2>2, <3>1 DEF AskedKept, SameEffect
  <2> QED BY <1>1, <2>1, <2>2
<1> QED BY <1>5, <1>6, <1>7 DEF ConflictInv

(* An execution settles for its call and the calls that share it: rejected  *)
(* only when somebody else used the key.                                    *)
LEMMA SettlesAlone ==
  ASSUME Core, ConflictInv, NEW c \in Calls, calls[c].pc \in Executing,
         NEW pc \in {"tell", "rejected"}, NEW outcome, SettleCalls(c, pc, outcome),
         \A k \in Keys : effects'[k] = effects[k] \/ k = calls[c].key,
         pc = "rejected" => ForeignIn(calls, calls[c])
  PROVE  ConflictInv'
<1> DEFINE Shares(d) == d = c \/ (calls[d].pc = "joined" /\ calls[d].leader = c)
<1>1. \A d \in Calls : calls'[d] = IF Shares(d)
         THEN [calls[d] EXCEPT !.pc = pc, !.outcome = outcome] ELSE calls[d]
  BY DEF SettleCalls
<1>2. \A d \in Calls : calls[d] \in CallRec /\ (calls[d].pc \in Executing \cup {"joined"} => calls[d].key \in Keys)
  BY DEF Core, Fits
<1>3. \A d \in Calls : /\ SameEffect(calls'[d], calls[d]) /\ calls'[d].leader = calls[d].leader
                       /\ Shares(d) => calls'[d].pc = pc
                       /\ ~Shares(d) => calls'[d] = calls[d]
  <2> SUFFICES ASSUME NEW d \in Calls, Shares(d)
               PROVE  /\ SameEffect(calls'[d], calls[d]) /\ calls'[d].leader = calls[d].leader
                      /\ calls'[d].pc = pc
    BY <1>1 DEF SameEffect
  <2>1. calls'[d] = [calls[d] EXCEPT !.pc = pc, !.outcome = outcome]
    BY <1>1
  <2> HIDE DEF Shares
  <2> QED BY <1>2, <2>1 DEF SameEffect, CallRec
<1>4. AskedKept
  BY <1>3 DEF AskedKept
<1>5. \A d \in Calls : Shares(d) => SameEffect(calls[d], calls[c]) /\ calls[d].key \in Keys
  BY <1>2 DEF ConflictInv, SharesItsEffect, SameEffect
<1>6. ASSUME NEW d \in Calls PROVE Alone(calls', effects', calls'[d])
  <2>1. CASE ~Shares(d)
    BY <1>3, <1>4, <2>1, OthersAlone
  <2>2. CASE Shares(d)
    <3>1. calls'[d].pc = pc /\ SameEffect(calls'[d], calls[c]) /\ calls'[d].key \in Keys
      BY <1>3, <1>5, <2>2 DEF SameEffect
    <3>2. pc = "rejected" => ForeignIn(calls, calls'[d])
      BY <3>1 DEF ForeignIn, SameEffect
    <3>3. pc = "rejected" => ForeignIn(calls', calls'[d])
      BY <1>4, <3>1, <3>2, ForeignStays
    <3> QED BY <3>1, <3>3 DEF Alone, Settling, Holding
  <2> QED BY <2>1, <2>2
<1>7. OneExecution'
  BY <1>3 DEF ConflictInv, OneExecution, SameEffect, Executing
<1>8. SharesItsEffect'
  <2> SUFFICES ASSUME NEW d \in Calls, calls'[d].pc = "joined"
               PROVE  SameEffect(calls'[d], calls'[calls'[d].leader])
    BY DEF SharesItsEffect
  <2>1. calls'[d] = calls[d] /\ calls[d].leader \in Calls
    BY <1>2, <1>3 DEF CallRec
  <2> QED BY <1>3, <2>1 DEF ConflictInv, SharesItsEffect, SameEffect
<1> QED BY <1>6, <1>7, <1>8 DEF ConflictInv

(* A step of a call before or beside the ledger: it keeps what the call     *)
(* asked for.                                                               *)
LEMMA AsideAlone ==
  ASSUME Core, ConflictInv, NEW c \in Calls, calls[c].pc # "idle", UNCHANGED effects,
         NEW rec \in CallRec, SetCall(c, rec), SameEffect(rec, calls[c]),
         \/ rec.pc \in {"approval", "ask"} /\ rec.via = "none"
         \/ rec.pc \in {"direct", "tell", "told"}
         \/ rec.pc = "rejected" /\ rec.via \notin {"allowed", "approved"}
  PROVE  ConflictInv'
<1>1. rec.pc \notin Executing \cup Settling \cup {"idle", "joined", "policy", "estart"}
  BY DEF Executing, Settling, Holding
<1> QED BY <1>1, MovesAlone

LEMMA EnterAlone ==
  ASSUME Core, ConflictInv, NEW c \in Calls, calls[c].pc \in {"policy", "approval"},
         calls[c].key \in Keys, NEW via \in {"allowed", "approved"},
         EnterLedger(c, via), UNCHANGED effects
  PROVE  ConflictInv'
<1>1. calls[c] \in CallRec /\ calls[c].pc \notin Executing
  BY DEF Core, Fits, Executing
<1>2. CASE Leaders(c) = {}
  <2> DEFINE rec == [calls[c] EXCEPT !.pc = "eread", !.via = via]
  <2>1. SetCall(c, rec)
    BY <1>2 DEF EnterLedger
  <2>2. rec \in CallRec /\ rec.pc = "eread" /\ SameEffect(rec, calls[c]) /\ rec.key \in Keys
    BY <1>1 DEF CallRec, CallPCs, Executing, SameEffect
  <2> HIDE DEF rec
  <2> QED BY <1>2, <2>1, <2>2, MovesAlone DEF Settling, Holding
<1>3. CASE Leaders(c) # {}
  <2>1. PICK d \in Leaders(c) :
          SetCall(c, [calls[c] EXCEPT !.pc = "joined", !.via = via, !.leader = d])
    BY <1>3 DEF EnterLedger
  <2> DEFINE rec == [calls[c] EXCEPT !.pc = "joined", !.via = via, !.leader = d]
  <2>2. d \in Calls
    BY DEF Leaders
  <2>3. /\ rec \in CallRec /\ rec.pc = "joined" /\ SameEffect(rec, calls[c])
        /\ rec.leader = d /\ SetCall(c, rec)
    BY <1>1, <2>1, <2>2 DEF CallRec, CallPCs, SameEffect
  <2> HIDE DEF rec
  <2> QED BY <1>1, <2>1, <2>3, MovesAlone DEF Settling, Holding, Executing
<1> QED BY <1>2, <1>3

LEMMA RequestAlone ==
  ASSUME Core, ConflictInv, NEW c \in Calls, NEW seam \in Seams,
         NEW key \in Keys \cup {NoKey}, NEW intent \in Intents, Request(c, seam, key, intent)
  PROVE  ConflictInv'
<1>1. PICK pc \in {"policy", "tell"} :
        SetCall(c, [IdleCall(c) EXCEPT !.pc = pc, !.seam = seam, !.key = key,
                      !.intent = intent, !.outcome = IF pc = "tell" THEN "refused" ELSE "none"])
  BY DEF Request
<1> DEFINE rec == [IdleCall(c) EXCEPT !.pc = pc, !.seam = seam, !.key = key,
                     !.intent = intent, !.outcome = IF pc = "tell" THEN "refused" ELSE "none"]
<1>2. rec \in CallRec /\ rec.pc = pc /\ rec.via = "none"
  BY DEF IdleCall, CallRec, CallPCs
<1>3. calls[c].pc = "idle" /\ UNCHANGED effects /\ SetCall(c, rec)
  BY <1>1 DEF Request, CallsOnly
<1> HIDE DEF rec
<1> QED BY <1>2, <1>3, MovesAlone DEF Executing, Settling, Holding

LEMMA ResultKeeps ==
  ASSUME Core, NEW c \in Calls, NEW outcome \in Results \cup {"refused"}
  PROVE  Result(c, outcome) \in CallRec /\ Result(c, outcome).pc = "tell"
         /\ SameEffect(Result(c, outcome), calls[c])
BY DEF Core, Fits, Result, CallRec, CallPCs, SameEffect

(* A change of progress, and of nothing that was asked for.                 *)
LEMMA ProgressKeeps ==
  ASSUME Core, NEW c \in Calls, NEW pc \in CallPCs
  PROVE  /\ [calls[c] EXCEPT !.pc = pc] \in CallRec
         /\ [calls[c] EXCEPT !.pc = pc].pc = pc
         /\ [calls[c] EXCEPT !.pc = pc].via = calls[c].via
         /\ SameEffect([calls[c] EXCEPT !.pc = pc], calls[c])
<1>1. calls[c] \in CallRec
  BY DEF Core, Fits
<1> QED BY <1>1 DEF CallRec, SameEffect

LEMMA DirectKeeps ==
  ASSUME Core, NEW c \in Calls
  PROVE  /\ [calls[c] EXCEPT !.pc = "direct", !.via = "direct"] \in CallRec
         /\ [calls[c] EXCEPT !.pc = "direct", !.via = "direct"].pc = "direct"
         /\ SameEffect([calls[c] EXCEPT !.pc = "direct", !.via = "direct"], calls[c])
<1>1. calls[c] \in CallRec
  BY DEF Core, Fits
<1> QED BY <1>1 DEF CallRec, CallPCs, SameEffect

(* Up to the sandbox or the ledger.                                         *)
LEMMA DecidingAlone ==
  ASSUME Core, Rest, ConflictInv, NEW c \in Calls,
         PolicyDecide(c) \/ ApprovalRead(c) \/ ApprovalAsk(c) \/ DirectRun(c) \/ Tell(c)
  PROVE  ConflictInv'
<1>1. /\ calls[c] \in CallRec /\ calls[c].pc \in {"policy", "approval", "ask", "direct", "tell"}
      /\ UNCHANGED effects
      /\ calls[c].pc \in {"policy", "approval", "ask"} => calls[c].via = "none"
      /\ calls[c].pc = "direct" => calls[c].via = "direct"
  BY DEF Core, Fits, ConflictInv, Alone, PolicyDecide, ApprovalRead, ApprovalAsk, DirectRun, Tell, CallsOnly
<1>a. {"approval", "ask", "rejected", "told"} \subseteq CallPCs
  BY DEF CallPCs, Ended
<1>2. ASSUME NEW outcome \in Results \cup {"refused"}, SetCall(c, Result(c, outcome)) PROVE ConflictInv'
  BY <1>1, <1>2, ResultKeeps, AsideAlone
<1>3. ASSUME SetCall(c, [calls[c] EXCEPT !.pc = "rejected"]), calls[c].pc \in {"ask", "direct"}
      PROVE  ConflictInv'
  BY <1>1, <1>a, <1>3, ProgressKeeps, AsideAlone
<1>4. ASSUME SetCall(c, [calls[c] EXCEPT !.pc = "direct", !.via = "direct"]) PROVE ConflictInv'
  BY <1>1, <1>4, DirectKeeps, AsideAlone
<1>5. CASE PolicyDecide(c)
  <2>0. calls[c].pc = "policy"
    BY <1>5 DEF PolicyDecide
  <2>1. PICK decision \in Decisions \cup {"unavailable"} :
         \/ SetCall(c, [calls[c] EXCEPT !.pc = "direct", !.via = "direct"])
         \/ RunsLedgered(c, decision) /\ EnterLedger(c, "allowed")
         \/ SetCall(c, [calls[c] EXCEPT !.pc = "approval"])
         \/ Refuse(c)
    BY <1>5 DEF PolicyDecide
  <2>2. CASE RunsLedgered(c, decision) /\ EnterLedger(c, "allowed")
    <3>1. calls[c].key \in Keys
      BY <1>1, <2>2 DEF RunsLedgered, CallRec
    <3> QED BY <1>1, <2>0, <2>2, <3>1, EnterAlone
  <2>3. CASE SetCall(c, [calls[c] EXCEPT !.pc = "approval"])
    BY <1>1, <1>a, <2>0, <2>3, ProgressKeeps, AsideAlone
  <2> QED BY <1>2, <1>4, <2>1, <2>2, <2>3 DEF Refuse
<1>6. CASE ApprovalRead(c)
  <2>0. calls[c].pc = "approval" /\ calls[c].key \in Keys
    BY <1>6 DEF ApprovalRead, Core, Fits
  <2>1. CASE EnterLedger(c, "approved")
    BY <1>1, <2>0, <2>1, EnterAlone
  <2>2. CASE SetCall(c, [calls[c] EXCEPT !.pc = "ask", !.len = Len(runlog)])
    <3> DEFINE rec == [calls[c] EXCEPT !.pc = "ask", !.len = Len(runlog)]
    <3>0. Len(runlog) \in Nat /\ "ask" \in CallPCs
      BY DEF Rest, CallPCs
    <3>1. rec \in CallRec /\ rec.pc = "ask" /\ rec.via = calls[c].via /\ SameEffect(rec, calls[c])
      BY <1>1, <3>0 DEF CallRec, SameEffect
    <3>2. SetCall(c, rec)
      BY <2>2
    <3> HIDE DEF rec
    <3> QED BY <1>1, <2>0, <3>1, <3>2, AsideAlone
  <2> QED BY <1>2, <1>4, <1>6, <2>1, <2>2 DEF ApprovalRead, Refuse
<1>7. CASE ApprovalAsk(c)
  BY <1>2, <1>3, <1>7 DEF ApprovalAsk, Refuse
<1>8. CASE DirectRun(c)
  BY <1>2, <1>3, <1>8 DEF DirectRun
<1>9. CASE Tell(c)
  BY <1>1, <1>a, <1>9, ProgressKeeps, AsideAlone DEF Tell
<1> QED BY <1>5, <1>6, <1>7, <1>8, <1>9

LEMMA AbortAlone ==
  ASSUME Core, ConflictInv, NEW c \in Calls, Abort(c)
  PROVE  ConflictInv'
<1> DEFINE rec == [calls[c] EXCEPT !.aborted = TRUE]
<1>1. /\ calls[c] \in CallRec /\ calls[c].pc # "idle" /\ UNCHANGED effects /\ SetCall(c, rec)
      /\ Alone(calls, effects, calls[c])
      /\ calls[c].pc \in Executing \cup {"joined"} => calls[c].key \in Keys
  BY DEF Core, Fits, ConflictInv, Abort, CallsOnly
<1>2. /\ rec \in CallRec /\ SameEffect(rec, calls[c]) /\ rec.pc = calls[c].pc
      /\ rec.via = calls[c].via /\ rec.leader = calls[c].leader /\ rec.key = calls[c].key
  BY <1>1 DEF CallRec, SameEffect
<1>3. ForeignIn(calls, calls[c]) => ForeignIn(calls, rec)
  BY <1>2 DEF ForeignIn, SameEffect
<1> HIDE DEF rec
<1> QED BY <1>1, <1>2, <1>3, MovesAlone DEF Alone

(* The execution in the ledger.                                             *)
LEMMA ReadsAlone ==
  ASSUME Core, ConflictInv, NEW c \in Calls, EffectRead(c)
  PROVE  ConflictInv'
<1> DEFINE k == calls[c].key
<1>1. /\ calls[c] \in CallRec /\ calls[c].pc = "eread" /\ calls[c].pc \in Executing
      /\ k \in Keys /\ UNCHANGED effects
  BY DEF Core, Fits, EffectRead, CallsOnly, Executing
<1>2. ASSUME NEW outcome, Finish(c, outcome) PROVE ConflictInv'
  BY <1>1, <1>2, SettlesAlone DEF Finish
<1>3. /\ Len(effects[k]) \in {0, 1, 2}
      /\ HasStarted(k) <=> Len(effects[k]) # 0
      /\ IsRecorded(k) <=> Len(effects[k]) = 2
  BY <1>1, StreamShape DEF Core
<1>4. ASSUME NEW pc \in {"estart", "eunknown"}, ~IsRecorded(k), pc = "eunknown" <=> HasStarted(k),
             SetCall(c, [calls[c] EXCEPT !.pc = pc, !.len = Len(effects[k])])
      PROVE  ConflictInv'
  <2> DEFINE rec == [calls[c] EXCEPT !.pc = pc, !.len = Len(effects[k])]
  <2>0. Len(effects[k]) \in Nat /\ pc \in CallPCs
    BY <1>3 DEF CallPCs, Executing
  <2>1. rec \in CallRec /\ rec.pc = pc /\ rec.key = k /\ SameEffect(rec, calls[c])
    BY <1>1, <2>0 DEF CallRec, SameEffect
  <2>3. SetCall(c, rec)
    BY <1>4
  <2> HIDE DEF rec
  <2>2. /\ rec.pc = "estart" => Len(effects'[rec.key]) = 0
        /\ rec.pc \in Settling => Len(effects'[rec.key]) = 1
    BY <1>1, <1>3, <1>4, <2>1 DEF Settling, Holding
  <2> QED BY <1>1, <2>1, <2>2, <2>3, MovesAlone
<1> QED BY <1>2, <1>4 DEF EffectRead

LEMMA RunsAlone ==
  ASSUME Core, ConflictInv, NEW c \in Calls, EffectRun(c) \/ EffectReturn(c)
  PROVE  ConflictInv'
<1>1. /\ calls[c] \in CallRec /\ calls[c].pc \in {"esandbox", "erunning"} /\ calls[c].pc \in Executing
      /\ calls[c].key \in Keys /\ UNCHANGED effects /\ Alone(calls, effects, calls[c])
  BY DEF Core, Fits, ConflictInv, EffectRun, EffectReturn, CallsOnly, Executing
<1>2. ASSUME NEW rec \in CallRec, SetCall(c, rec), SameEffect(rec, calls[c]), rec.pc \in {"erunning", "esettle"}
      PROVE  ConflictInv'
  <2>1. Len(effects[rec.key]) = 1 \/ ForeignIn(calls, rec)
    BY <1>1, <1>2 DEF Alone, Settling, Holding, SameEffect, ForeignIn
  <2> QED BY <1>1, <1>2, <2>1, MovesAlone DEF SameEffect
<1>3. CASE SetCall(c, [calls[c] EXCEPT !.pc = "erunning"])
  <2>1. "erunning" \in CallPCs
    BY DEF CallPCs, Executing
  <2> QED BY <1>2, <1>3, <2>1, ProgressKeeps
<1>4. ASSUME NEW type \in Terminals, NEW r \in Results,
             SetCall(c, [calls[c] EXCEPT !.pc = "esettle", !.type = type, !.outcome = r])
      PROVE  ConflictInv'
  <2> DEFINE rec == [calls[c] EXCEPT !.pc = "esettle", !.type = type, !.outcome = r]
  <2>1. rec \in CallRec /\ rec.pc = "esettle" /\ SameEffect(rec, calls[c]) /\ SetCall(c, rec)
    BY <1>1, <1>4 DEF CallRec, CallPCs, Executing, SameEffect
  <2> HIDE DEF rec
  <2> QED BY <1>2, <2>1
<1>5. "cancelled" \in Terminals /\ "failed" \in Results
  BY DEF Terminals, Results
<1> QED BY <1>3, <1>4, <1>5 DEF EffectRun, EffectReturn

LEMMA StoresAlone ==
  ASSUME Core, ConflictInv, NEW c \in Calls, EffectStart(c) \/ EffectSettle(c) \/ EffectUnknown(c)
  PROVE  ConflictInv'
<1> DEFINE k == calls[c].key
<1>1. /\ calls[c] \in CallRec /\ calls[c].pc \in {"estart", "esettle", "eunknown"}
      /\ calls[c].pc \in Executing /\ k \in Keys /\ Alone(calls, effects, calls[c])
      /\ calls[c].len = IF calls[c].pc = "estart" THEN 0 ELSE 1
      /\ effects[k] \in Seq(EffectEvent) /\ Len(effects[k]) \in Nat
  <2>1. calls[c].pc \in {"estart", "esettle", "eunknown"}
    BY DEF EffectStart, EffectSettle, EffectUnknown
  <2> QED BY <2>1 DEF Core, Fits, LedgerOK, ConflictInv, Executing
<1>2. ASSUME ~Accepts(effects[k], calls[c].len), Reject(c), UNCHANGED effects PROVE ConflictInv'
  <2>1. ForeignIn(calls, calls[c])
    BY <1>1, <1>2 DEF Alone, Accepts, Settling, Holding
  <2> QED BY <1>1, <1>2, <2>1, SettlesAlone DEF Reject
<1>3. ASSUME NEW type, NEW result, EffectAppend(c, type, result)
      PROVE  \A q \in Keys : effects'[q] = effects[q] \/ q = k
  BY <1>3 DEF EffectAppend, Core, LedgerOK
<1>4. ASSUME NEW type, NEW result, EffectAppend(c, type, result), NEW outcome, Finish(c, outcome)
      PROVE  ConflictInv'
  BY <1>1, <1>3, <1>4, SettlesAlone DEF Finish
<1>5. ASSUME calls[c].pc = "estart", Accepts(effects[k], calls[c].len), EffectAppend(c, "started", "none"),
             SetCall(c, [calls[c] EXCEPT !.pc = "esandbox", !.len = @ + 1])
      PROVE  ConflictInv'
  <2> DEFINE rec == [calls[c] EXCEPT !.pc = "esandbox", !.len = 1]
             e == [type |-> "started", intent |-> calls[c].intent, result |-> "none"]
  <2>0. SetCall(c, rec)
    <3>1. calls[c].len + 1 = 1
      BY <1>1, <1>5
    <3> QED BY <1>5, <3>1
  <2>1. rec \in CallRec /\ rec.pc = "esandbox" /\ SameEffect(rec, calls[c]) /\ rec.key = k
    BY <1>1, <1>5 DEF CallRec, CallPCs, Executing, SameEffect
  <2>2. effects'[k] = Append(effects[k], e) /\ e \in EffectEvent
    BY <1>1, <1>5 DEF EffectAppend, Core, LedgerOK, EffectEvent, CallRec
  <2> HIDE DEF rec, e
  <2>3. Len(effects'[rec.key]) = 1
    BY <1>1, <1>5, <2>1, <2>2 DEF Accepts
  <2>4. \A q \in Keys : effects'[q] = effects[q] \/ q = k
    BY <1>3, <1>5
  <2> QED BY <1>1, <2>0, <2>1, <2>3, <2>4, MovesAlone
<1>6. CASE EffectStart(c)
  BY <1>2, <1>5, <1>6 DEF EffectStart
<1>7. CASE EffectSettle(c)
  BY <1>2, <1>4, <1>7 DEF EffectSettle
<1>8. CASE EffectUnknown(c)
  BY <1>2, <1>4, <1>8 DEF EffectUnknown
<1> QED BY <1>6, <1>7, <1>8

LEMMA CrashAlone ==
  ASSUME Core, ConflictInv, NEW seam \in Seams, Crash(seam)
  PROVE  ConflictInv'
<1>1. \A c \in Calls : calls[c] \in CallRec /\ (calls[c].pc \in Executing => calls[c].key \in Keys)
  BY DEF Core, Fits
<1>2. ASSUME NEW c \in Calls
      PROVE  /\ SameEffect(calls'[c], calls[c])
             /\ calls'[c] = calls[c] \/ calls'[c].pc = "lost"
  BY <1>1 DEF Crash, SameEffect, CallRec
<1>3. AskedKept /\ UNCHANGED effects
  BY <1>2 DEF AskedKept, Crash
<1>4. ASSUME NEW c \in Calls PROVE Alone(calls', effects', calls'[c])
  <2>1. CASE calls'[c].pc = "lost"
    BY <2>1 DEF Alone, Settling, Holding
  <2>2. CASE calls'[c] = calls[c]
    <3>1. calls[c].key \in Keys /\ ForeignIn(calls, calls[c]) => ForeignIn(calls', calls[c])
      BY <1>3, ForeignStays
    <3> QED BY <1>1, <1>3, <2>2, <3>1 DEF ConflictInv, Alone, Settling, Holding, Executing
  <2> QED BY <1>2, <2>1, <2>2
<1>5. OneExecution'
  BY <1>2 DEF ConflictInv, OneExecution, SameEffect, Executing
<1>6. SharesItsEffect'
  <2> SUFFICES ASSUME NEW d \in Calls, calls'[d].pc = "joined"
               PROVE  SameEffect(calls'[d], calls'[calls'[d].leader])
    BY DEF SharesItsEffect
  <2>1. calls'[d] = calls[d] /\ calls[d].leader \in Calls
    BY <1>1, <1>2 DEF CallRec
  <2> QED BY <1>2, <2>1 DEF ConflictInv, SharesItsEffect, SameEffect
<1> QED BY <1>4, <1>5, <1>6 DEF ConflictInv

LEMMA NextAlone ==
  ASSUME Core, Rest, ConflictInv, [Next]_vars
  PROVE  ConflictInv'
<1>1. ASSUME UNCHANGED <<calls, effects>> PROVE ConflictInv'
  BY <1>1 DEF ConflictInv, OneExecution, SharesItsEffect
<1>2. ASSUME NEW c \in Calls, CallStep(c) PROVE ConflictInv'
  BY <1>2, DecidingAlone, ReadsAlone, RunsAlone, StoresAlone DEF CallStep
<1>3. CASE \E c \in Calls, seam \in Seams, key \in Keys \cup {NoKey}, intent \in Intents :
             Request(c, seam, key, intent)
  BY <1>3, RequestAlone
<1> QED BY <1>1, <1>2, <1>3, AbortAlone, CrashAlone
        DEF Next, AnswerRead, AnswerAppend, OtherEvent, vars

LEMMA InitAlone == Init => ConflictInv
<1> SUFFICES ASSUME Init PROVE ConflictInv
  OBVIOUS
<1>1. \A c \in Calls : calls[c].pc = "idle" /\ calls[c].key = NoKey
  BY DEF Init, IdleCall
<1> QED BY <1>1 DEF ConflictInv, OneExecution, SharesItsEffect, Alone, Executing, Settling, Holding

(* The calls of one seam and one intent share one execution, so a ledger    *)
(* call is rejected for a sequence conflict only when another seam or       *)
(* another intent used its key.                                             *)
THEOREM ConflictsAreForeign == Spec => []ConflictIsForeign
<1>1. Core /\ Rest /\ ConflictInv /\ [Next]_vars => ConflictInv'
  BY NextAlone
<1>2. ConflictInv => ConflictIsForeign
  BY DEF ConflictInv, Alone, ForeignIn, ConflictIsForeign
<1> QED BY <1>1, <1>2, InitAlone, AlwaysCore, PTL DEF Spec
-----------------------------------------------------------------------------
(* Approval comes first.                                                    *)

(* On Run stream L the request of this call has an approval for its first   *)
(* answer.                                                                  *)
Granted(L, rec) ==
  \E i, j \in DOMAIN L :
    /\ i < j
    /\ L[i].type = "requested" /\ L[i].key = rec.key /\ L[i].tool = Tool[rec.intent]
    /\ L[j].type = "answered" /\ L[j].key = rec.key /\ L[j].decision = "approved"
    /\ \A m \in (i + 1)..(j - 1) : ~(L[m].type = "answered" /\ L[m].key = rec.key)

NeedsGrant(rec) == rec.via = "approved" \/ (rec.via = "direct" /\ rec.key # NoKey)

(* A call keeps the way it took and what it asked for, or takes one that    *)
(* needs no approval, or has the approval.                                  *)
Lawful(rec, new) ==
  \/ ~NeedsGrant(new) \/ Granted(runlog, new)
  \/ new.via = rec.via /\ SameEffect(new, rec)

(* The Run stream only grows, so an approval that came first stays first.   *)
LEMMA GrantStays ==
  ASSUME Rest, NEW rec, Granted(runlog, rec),
         runlog' = runlog \/ \E e \in RunEvent : runlog' = Append(runlog, e)
  PROVE  Granted(runlog', rec)
<1>1. runlog \in Seq(RunEvent)
  BY DEF Rest
<1>2. CASE \E e \in RunEvent : runlog' = Append(runlog, e)
  <2>1. /\ DOMAIN runlog \subseteq DOMAIN runlog'
        /\ \A i \in DOMAIN runlog : runlog'[i] = runlog[i]
    BY <1>1, <1>2
  <2>2. PICK i, j \in DOMAIN runlog :
          /\ i < j
          /\ runlog[i].type = "requested" /\ runlog[i].key = rec.key
          /\ runlog[i].tool = Tool[rec.intent]
          /\ runlog[j].type = "answered" /\ runlog[j].key = rec.key
          /\ runlog[j].decision = "approved"
          /\ \A m \in (i + 1)..(j - 1) : ~(runlog[m].type = "answered" /\ runlog[m].key = rec.key)
    BY DEF Granted
  <2>3. \A m \in (i + 1)..(j - 1) : m \in DOMAIN runlog
    BY <1>1
  <2>4. \A m \in (i + 1)..(j - 1) : ~(runlog'[m].type = "answered" /\ runlog'[m].key = rec.key)
    BY <2>1, <2>2, <2>3
  <2>5. /\ i \in DOMAIN runlog' /\ j \in DOMAIN runlog'
        /\ runlog'[i] = runlog[i] /\ runlog'[j] = runlog[j]
    BY <2>1
  <2> QED BY <2>2, <2>4, <2>5 DEF Granted
<1> QED BY <1>2

LEMMA GrantsStay ==
  ASSUME Rest, ApprovedFirst,
         runlog' = runlog \/ \E e \in RunEvent : runlog' = Append(runlog, e),
         \A c \in Calls : Lawful(calls[c], calls'[c])
  PROVE  ApprovedFirst'
<1>1. ASSUME NEW c \in Calls, NeedsGrant(calls'[c]) PROVE Granted(runlog', calls'[c])
  <2>1. Granted(runlog, calls'[c])
    BY <1>1 DEF Lawful, ApprovedFirst, NeedsGrant, SameEffect, Granted
  <2> QED BY <2>1, GrantStays
<1> QED BY <1>1 DEF ApprovedFirst, NeedsGrant, Granted

(* approvalFor finds an approval: it is the first answer since the request. *)
LEMMA FirstAnswer ==
  ASSUME Rest, NEW rec, Decision(rec.key, Tool[rec.intent]) = "approved"
  PROVE  Granted(runlog, rec)
<1> DEFINE k == rec.key
           t == Tool[rec.intent]
           S == AnsweredAt(k, t)
<1>1. runlog \in Seq(RunEvent) /\ DOMAIN runlog = 1..Len(runlog) /\ Len(runlog) \in Nat
  BY DEF Rest
<1>2. S # {} /\ S \in SUBSET Nat
  BY <1>1 DEF Decision, AnsweredAt
<1>3. \E j \in S : \A other \in S : j <= other
  <2> HIDE DEF S
  <2> QED BY <1>2, SmallestExists
<1> DEFINE j == CHOOSE x \in S : \A other \in S : x <= other
<1>4. j \in S /\ \A other \in S : j <= other
  <2> HIDE DEF S
  <2> QED BY <1>3
<1>5. runlog[j].decision = "approved"
  BY <1>2 DEF Decision
<1> HIDE DEF j
<1>6. /\ j \in DOMAIN runlog /\ runlog[j].type = "answered" /\ runlog[j].key = k
      /\ \E i \in RequestedAt(k, t) : i < j
  BY <1>4 DEF AnsweredAt
<1>7. PICK i \in RequestedAt(k, t) : i < j
  BY <1>6
<1>8. /\ i \in DOMAIN runlog /\ runlog[i].type = "requested" /\ runlog[i].key = k
      /\ runlog[i].tool = t
  BY <1>7 DEF RequestedAt
<1>9. ASSUME NEW m \in (i + 1)..(j - 1), runlog[m].type = "answered", runlog[m].key = k
      PROVE  FALSE
  <2>1. m \in DOMAIN runlog /\ i < m /\ m < j
    BY <1>1, <1>6, <1>8
  <2>2. m \in S
    BY <1>7, <1>9, <2>1 DEF AnsweredAt
  <2>3. j <= m
    <3> HIDE DEF S
    <3> QED BY <1>4, <2>2
  <2> QED BY <1>1, <1>6, <2>1, <2>3
<1> QED BY <1>5, <1>6, <1>7, <1>8, <1>9 DEF Granted

LEMMA MoveIsLawful ==
  ASSUME Core, Rest, ApprovedFirst, UNCHANGED runlog, NEW c \in Calls, NEW rec \in CallRec,
         SetCall(c, rec), Lawful(calls[c], rec)
  PROVE  ApprovedFirst'
<1>1. calls'[c] = rec /\ \A d \in Calls : d # c => calls'[d] = calls[d]
  BY DEF Core, CallsOK, SetCall
<1>2. \A d \in Calls : Lawful(calls[d], calls'[d])
  BY <1>1 DEF Lawful, SameEffect
<1> QED BY <1>2, GrantsStay

(* Steps in which no call changes the way it runs.                          *)
LEMMA WayKept ==
  ASSUME Rest, ApprovedFirst,
         runlog' = runlog \/ \E e \in RunEvent : runlog' = Append(runlog, e),
         \A d \in Calls : calls'[d].via = calls[d].via /\ SameEffect(calls'[d], calls[d])
  PROVE  ApprovedFirst'
BY GrantsStay DEF Lawful

LEMMA EnterIsLawful ==
  ASSUME Core, Rest, ApprovedFirst, UNCHANGED runlog, NEW c \in Calls,
         NEW via \in {"allowed", "approved"}, EnterLedger(c, via),
         via = "approved" => Granted(runlog, calls[c])
  PROVE  ApprovedFirst'
<1>1. calls[c] \in CallRec
  BY DEF Core, Fits
<1>2. ASSUME NEW rec, SameEffect(rec, calls[c]), rec.via = via PROVE Lawful(calls[c], rec)
  BY <1>2 DEF Lawful, NeedsGrant, Granted, SameEffect
<1>3. CASE SetCall(c, [calls[c] EXCEPT !.pc = "eread", !.via = via])
  <2> DEFINE rec == [calls[c] EXCEPT !.pc = "eread", !.via = via]
  <2>1. rec \in CallRec /\ SameEffect(rec, calls[c]) /\ rec.via = via
    BY <1>1 DEF CallRec, CallPCs, Executing, SameEffect
  <2>2. SetCall(c, rec)
    BY <1>3
  <2> HIDE DEF rec
  <2> QED BY <1>2, <2>1, <2>2, MoveIsLawful
<1>4. ASSUME NEW d \in Calls,
             SetCall(c, [calls[c] EXCEPT !.pc = "joined", !.via = via, !.leader = d])
      PROVE  ApprovedFirst'
  <2> DEFINE rec == [calls[c] EXCEPT !.pc = "joined", !.via = via, !.leader = d]
  <2>1. rec \in CallRec /\ SameEffect(rec, calls[c]) /\ rec.via = via
    BY <1>1 DEF CallRec, CallPCs, SameEffect
  <2>2. SetCall(c, rec)
    BY <1>4
  <2> HIDE DEF rec
  <2> QED BY <1>2, <2>1, <2>2, MoveIsLawful
<1> QED BY <1>3, <1>4 DEF EnterLedger, Leaders

LEMMA DirectIsLawful ==
  ASSUME Core, Rest, ApprovedFirst, UNCHANGED runlog, NEW c \in Calls,
         SetCall(c, [calls[c] EXCEPT !.pc = "direct", !.via = "direct"]),
         calls[c].key = NoKey \/ Granted(runlog, calls[c])
  PROVE  ApprovedFirst'
<1> DEFINE rec == [calls[c] EXCEPT !.pc = "direct", !.via = "direct"]
<1>1. /\ rec \in CallRec /\ SameEffect(rec, calls[c]) /\ rec.via = "direct" /\ SetCall(c, rec)
  <2>1. rec.via = "direct"
    BY DEF Core, Fits, CallRec
  <2> QED BY <2>1, DirectKeeps
<1> HIDE DEF rec
<1>2. Lawful(calls[c], rec)
  BY <1>1 DEF Lawful, NeedsGrant, Granted, SameEffect
<1> QED BY <1>1, <1>2, MoveIsLawful

LEMMA ProgressIsLawful ==
  ASSUME Core, Rest, ApprovedFirst,
         runlog' = runlog \/ \E e \in RunEvent : runlog' = Append(runlog, e),
         NEW c \in Calls, NEW rec \in CallRec, SetCall(c, rec),
         rec.via = calls[c].via, SameEffect(rec, calls[c])
  PROVE  ApprovedFirst'
<1>1. calls'[c] = rec /\ \A d \in Calls : d # c => calls'[d] = calls[d]
  BY DEF Core, CallsOK, SetCall
<1> QED BY <1>1, WayKept DEF SameEffect

LEMMA ResultKeepsWay ==
  ASSUME Core, NEW c \in Calls, NEW outcome \in Results \cup {"refused"}
  PROVE  Result(c, outcome).via = calls[c].via
BY DEF Core, Fits, Result, CallRec

LEMMA RequestIsLawful ==
  ASSUME Core, Rest, ApprovedFirst, NEW c \in Calls, NEW seam \in Seams,
         NEW key \in Keys \cup {NoKey}, NEW intent \in Intents, Request(c, seam, key, intent)
  PROVE  ApprovedFirst'
<1>1. PICK pc \in {"policy", "tell"} :
        SetCall(c, [IdleCall(c) EXCEPT !.pc = pc, !.seam = seam, !.key = key,
                      !.intent = intent, !.outcome = IF pc = "tell" THEN "refused" ELSE "none"])
  BY DEF Request
<1> DEFINE rec == [IdleCall(c) EXCEPT !.pc = pc, !.seam = seam, !.key = key,
                      !.intent = intent, !.outcome = IF pc = "tell" THEN "refused" ELSE "none"]
<1>2. calls' = [calls EXCEPT ![c] = rec] /\ UNCHANGED runlog
  BY <1>1 DEF SetCall, Request, CallsOnly
<1>3. rec.via = "none"
  BY DEF IdleCall
<1> HIDE DEF rec
<1>4. \A d \in Calls : Lawful(calls[d], calls'[d])
  BY <1>2, <1>3 DEF Core, CallsOK, Lawful, NeedsGrant, SameEffect
<1> QED BY <1>2, <1>4, GrantsStay

LEMMA DecidingIsLawful ==
  ASSUME Core, Rest, ApprovedFirst, NEW c \in Calls, PolicyDecide(c) \/ ApprovalRead(c)
  PROVE  ApprovedFirst'
<1>1. calls[c] \in CallRec /\ UNCHANGED runlog
  BY DEF Core, Fits, PolicyDecide, ApprovalRead, CallsOnly
<1>2. CASE Refuse(c)
  BY <1>1, <1>2, ResultKeeps, ResultKeepsWay, ProgressIsLawful DEF Refuse
<1>3. CASE SetCall(c, [calls[c] EXCEPT !.pc = "approval"])
  <2>1. "approval" \in CallPCs
    BY DEF CallPCs
  <2> QED BY <1>1, <1>3, <2>1, ProgressKeeps, ProgressIsLawful
<1>4. CASE SetCall(c, [calls[c] EXCEPT !.pc = "ask", !.len = Len(runlog)])
  <2> DEFINE rec == [calls[c] EXCEPT !.pc = "ask", !.len = Len(runlog)]
  <2>1. Len(runlog) \in Nat /\ "ask" \in CallPCs
    BY DEF Rest, CallPCs
  <2>2. rec \in CallRec /\ rec.via = calls[c].via /\ SameEffect(rec, calls[c])
    BY <1>1, <2>1 DEF CallRec, SameEffect
  <2>3. SetCall(c, rec)
    BY <1>4
  <2> HIDE DEF rec
  <2> QED BY <1>1, <2>2, <2>3, ProgressIsLawful
<1>5. CASE PolicyDecide(c)
  <2>1. \/ calls[c].key = NoKey /\ SetCall(c, [calls[c] EXCEPT !.pc = "direct", !.via = "direct"])
        \/ EnterLedger(c, "allowed")
        \/ SetCall(c, [calls[c] EXCEPT !.pc = "approval"])
        \/ Refuse(c)
    BY <1>5 DEF PolicyDecide, RunsDirectly
  <2>2. "allowed" # "approved"
    OBVIOUS
  <2> QED BY <1>1, <1>2, <1>3, <2>1, <2>2, EnterIsLawful, DirectIsLawful
<1>6. CASE ApprovalRead(c)
  <2>1. CASE Decision(calls[c].key, Tool[calls[c].intent]) = "approved"
    <3>1. Granted(runlog, calls[c])
      BY <2>1, FirstAnswer
    <3>2. \/ EnterLedger(c, "approved")
          \/ SetCall(c, [calls[c] EXCEPT !.pc = "direct", !.via = "direct"])
          \/ SetCall(c, [calls[c] EXCEPT !.pc = "ask", !.len = Len(runlog)])
      BY <1>6, <2>1 DEF ApprovalRead
    <3> QED BY <1>1, <1>4, <3>1, <3>2, EnterIsLawful, DirectIsLawful
  <2>2. CASE Decision(calls[c].key, Tool[calls[c].intent]) # "approved"
    <3>1. Refuse(c) \/ SetCall(c, [calls[c] EXCEPT !.pc = "ask", !.len = Len(runlog)])
      BY <1>6, <2>2 DEF ApprovalRead
    <3> QED BY <1>2, <1>4, <3>1
  <2> QED BY <2>1, <2>2
<1> QED BY <1>5, <1>6

LEMMA AskIsLawful ==
  ASSUME Core, Rest, ApprovedFirst, NEW c \in Calls, ApprovalAsk(c)
  PROVE  ApprovedFirst'
<1> DEFINE e == [type |-> "requested", key |-> calls[c].key,
                 tool |-> Tool[calls[c].intent], decision |-> "none"]
<1>1. calls[c] \in CallRec
  BY DEF Core, Fits
<1>2. e \in RunEvent
  BY <1>1 DEF RunEvent, CallRec
<1>3. runlog' = runlog \/ runlog' = Append(runlog, e)
  BY DEF ApprovalAsk
<1> HIDE DEF e
<1>4. "rejected" \in CallPCs
  BY DEF CallPCs, Ended
<1>5. Refuse(c) \/ SetCall(c, [calls[c] EXCEPT !.pc = "rejected"])
  BY DEF ApprovalAsk
<1> QED BY <1>2, <1>3, <1>4, <1>5, ResultKeeps, ResultKeepsWay, ProgressKeeps, ProgressIsLawful
        DEF Refuse

(* Everything that happens to a call once its way is settled.               *)
LEMMA SettlingIsLawful ==
  ASSUME Core, Rest, ApprovedFirst, UNCHANGED runlog, NEW c \in Calls, NEW pc, NEW outcome,
         SettleCalls(c, pc, outcome)
  PROVE  ApprovedFirst'
<1>1. \A d \in Calls : calls[d] \in CallRec
  BY DEF Core, Fits
<1>2. \A d \in Calls : calls'[d].via = calls[d].via /\ SameEffect(calls'[d], calls[d])
  BY <1>1 DEF SettleCalls, SameEffect, CallRec
<1> QED BY <1>2, WayKept

LEMMA RunningIsLawful ==
  ASSUME Core, Rest, ApprovedFirst, NEW c \in Calls,
         \/ DirectRun(c) \/ EffectRead(c) \/ EffectStart(c) \/ EffectRun(c) \/ EffectReturn(c)
         \/ EffectSettle(c) \/ EffectUnknown(c) \/ Tell(c) \/ Abort(c)
  PROVE  ApprovedFirst'
<1>1. UNCHANGED runlog
  BY DEF DirectRun, EffectRead, EffectStart, EffectRun, EffectReturn, EffectSettle,
         EffectUnknown, Tell, Abort, CallsOnly, LedgerOnly
<1>2. ASSUME NEW outcome, Finish(c, outcome) \/ Reject(c) PROVE ApprovedFirst'
  BY <1>1, <1>2, SettlingIsLawful DEF Finish, Reject
<1>3. calls[c] \in CallRec /\ \A d \in Calls : calls[d] \in CallRec
  BY DEF Core, Fits
<1>4. ASSUME NEW rec, SetCall(c, rec), rec.via = calls[c].via, SameEffect(rec, calls[c])
      PROVE  ApprovedFirst'
  <2>1. calls'[c] = rec /\ \A d \in Calls : d # c => calls'[d] = calls[d]
    BY <1>4 DEF Core, CallsOK, SetCall
  <2> QED BY <1>1, <1>4, <2>1, WayKept DEF SameEffect
<1>5. ASSUME NEW pc, NEW len, SetCall(c, [calls[c] EXCEPT !.pc = pc, !.len = len])
      PROVE  ApprovedFirst'
  BY <1>3, <1>4, <1>5 DEF CallRec, SameEffect
<1>6. ASSUME NEW pc, SetCall(c, [calls[c] EXCEPT !.pc = pc]) PROVE ApprovedFirst'
  BY <1>3, <1>4, <1>6 DEF CallRec, SameEffect
<1>7. ASSUME NEW type, NEW r, SetCall(c, [calls[c] EXCEPT !.pc = "esettle", !.type = type, !.outcome = r])
      PROVE  ApprovedFirst'
  BY <1>3, <1>4, <1>7 DEF CallRec, SameEffect
<1>8. ASSUME NEW r, SetCall(c, Result(c, r)) PROVE ApprovedFirst'
  BY <1>3, <1>4, <1>8 DEF CallRec, SameEffect, Result
<1>9. CASE Abort(c)
  BY <1>3, <1>4, <1>9 DEF Abort, CallRec, SameEffect
<1>10. CASE DirectRun(c)
  BY <1>6, <1>8, <1>10 DEF DirectRun
<1>11. CASE EffectRead(c)
  BY <1>2, <1>5, <1>11 DEF EffectRead
<1>12. CASE EffectStart(c)
  BY <1>2, <1>5, <1>12 DEF EffectStart
<1>13. CASE EffectRun(c) \/ EffectReturn(c) \/ Tell(c)
  BY <1>6, <1>7, <1>13 DEF EffectRun, EffectReturn, Tell
<1>14. CASE EffectSettle(c) \/ EffectUnknown(c)
  BY <1>2, <1>14 DEF EffectSettle, EffectUnknown
<1> QED BY <1>9, <1>10, <1>11, <1>12, <1>13, <1>14

LEMMA CrashIsLawful ==
  ASSUME Core, Rest, ApprovedFirst, NEW seam \in Seams, Crash(seam)
  PROVE  ApprovedFirst'
<1>1. \A d \in Calls : calls[d] \in CallRec
  BY DEF Core, Fits
<1>2. \A d \in Calls : calls'[d].via = calls[d].via /\ SameEffect(calls'[d], calls[d])
  BY <1>1 DEF Crash, SameEffect, CallRec
<1>3. UNCHANGED runlog
  BY DEF Crash
<1> QED BY <1>2, <1>3, WayKept

LEMMA LogIsLawful ==
  ASSUME Core, Rest, ApprovedFirst, UNCHANGED calls,
         OtherEvent \/ (\E a \in Approvers : AnswerRead(a) \/ AnswerAppend(a)) \/ UNCHANGED vars
  PROVE  ApprovedFirst'
<1>1. \A d \in Calls : calls'[d].via = calls[d].via /\ SameEffect(calls'[d], calls[d])
  BY DEF SameEffect
<1>2. CASE OtherEvent
  <2> DEFINE e == [type |-> "other", key |-> NoKey, tool |-> "none", decision |-> "none"]
  <2>1. e \in RunEvent /\ runlog' = Append(runlog, e)
    BY <1>2 DEF OtherEvent, RunEvent
  <2> HIDE DEF e
  <2> QED BY <1>1, <2>1, WayKept
<1>3. ASSUME NEW a \in Approvers, AnswerAppend(a) PROVE ApprovedFirst'
  <2> DEFINE e == [type |-> "answered", key |-> answers[a].key, tool |-> "none",
                   decision |-> answers[a].decision]
  <2>1. e \in RunEvent
    BY DEF RunEvent, Rest
  <2>2. runlog' = runlog \/ runlog' = Append(runlog, e)
    BY <1>3 DEF AnswerAppend
  <2> HIDE DEF e
  <2> QED BY <1>1, <2>1, <2>2, WayKept
<1>4. CASE UNCHANGED runlog
  BY <1>1, <1>4, WayKept
<1> QED BY <1>2, <1>3, <1>4 DEF AnswerRead, vars

LEMMA NextIsLawful ==
  ASSUME Core, Rest, ApprovedFirst, [Next]_vars
  PROVE  ApprovedFirst'
<1>1. ASSUME NEW c \in Calls, CallStep(c) \/ Abort(c) PROVE ApprovedFirst'
  BY <1>1, DecidingIsLawful, AskIsLawful, RunningIsLawful DEF CallStep
<1>2. CASE \E c \in Calls, seam \in Seams, key \in Keys \cup {NoKey}, intent \in Intents :
             Request(c, seam, key, intent)
  BY <1>2, RequestIsLawful
<1>3. CASE OtherEvent \/ (\E a \in Approvers : AnswerRead(a) \/ AnswerAppend(a)) \/ UNCHANGED vars
  <2>1. UNCHANGED calls
    BY <1>3 DEF OtherEvent, AnswerRead, AnswerAppend, vars
  <2> QED BY <1>3, <2>1, LogIsLawful
<1> QED BY <1>1, <1>2, <1>3, CrashIsLawful DEF Next

(* "approval-required Tool has zero effect before approval": whatever is    *)
(* answered, appended or read in between, a call that runs by approval has  *)
(* an approval as the first answer to its request.                          *)
THEOREM ApprovalComesFirst == Spec => []ApprovedFirst
<1>1. Init => ApprovedFirst
  BY DEF Init, IdleCall, ApprovedFirst
<1>2. Core /\ Rest /\ ApprovedFirst /\ [Next]_vars => ApprovedFirst'
  BY NextIsLawful
<1> QED BY <1>1, <1>2, AlwaysCore, PTL DEF Spec
===============================================================================
