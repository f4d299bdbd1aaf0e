--------------------------- MODULE SchedulerProofs ---------------------------
(***************************************************************************)
(* Theorems about Scheduler, for any schedules, instances and calls, any    *)
(* due times and intervals, and any number of crashes and lost leases.      *)
(***************************************************************************)
EXTENDS Scheduler, NatMin, TLAPS

-----------------------------------------------------------------------------
(* Which occurrence a call is at.                                           *)

LEMMA MultipleBelow ==
  ASSUME NEW a \in Nat, NEW b \in Nat, b # 0
  PROVE  (a \div b) * b \in 0..a
OBVIOUS

(* The due time processDue computes lies between the first one and its now. *)
LEMMA LatestDueInTime ==
  ASSUME NEW s \in Schedules, NEW at \in Nat, FirstDue[s] <= at
  PROVE  LatestDueAt(s, at) \in 0..at
<1>1. FirstDue[s] \in Nat /\ Interval[s] \in Nat
  BY SchedulerAssumption
<1>2. CASE Interval[s] = 0
  BY <1>1, <1>2 DEF LatestDueAt
<1>3. CASE Interval[s] # 0
  <2>1. at - FirstDue[s] \in Nat
    BY <1>1
  <2>2. ((at - FirstDue[s]) \div Interval[s]) * Interval[s] \in 0..(at - FirstDue[s])
    BY <1>1, <1>3, <2>1, MultipleBelow
  <2> QED BY <1>1, <1>3, <2>2 DEF LatestDueAt
<1> QED BY <1>2, <1>3

-----------------------------------------------------------------------------
(* The inductive invariant.                                                 *)

Behind   == {"creating", "notifying", "notified"}
Started  == {"fenced", "creating", "notifying", "notified"}
PCs      == {"idle", "due", "skipped", "claimed", "leased"} \cup Started
CallRec  == [pc : PCs, recovering : BOOLEAN, at : 0..MaxTime, todo : SUBSET Schedules, lost : BOOLEAN]

Typed ==
  /\ now \in 0..MaxTime
  /\ occurrence \in [Occurrences -> {"none", "claimed", "skipped", "started"}]
  /\ runs \in [Occurrences -> Nat]
  /\ call \in [Calls -> CallRec]

(* A call past its list is at a schedule that was due when it began.        *)
OnList ==
  \A c \in Calls : call[c].pc # "idle"
    => call[c].todo # {} /\ \A s \in call[c].todo : FirstDue[s] <= call[c].at

(* What a call has behind it is in the table.                               *)
Decided ==
  \A c \in Calls : /\ call[c].pc = "skipped" => occurrence[Current(c)] = "skipped"
                   /\ call[c].pc \in Started => occurrence[Current(c)] = "started"

(* The fence lets one call past it.                                         *)
Alone ==
  \A c, d \in Calls :
    call[c].pc \in Started /\ call[d].pc \in Started /\ Current(c) = Current(d) => c = d

(* It has not created the Run where it leaves the fence, and has later on.  *)
Counted ==
  /\ \A o \in Occurrences : runs[o] = 0 \/ (runs[o] = 1 /\ occurrence[o] = "started")
  /\ \A c \in Calls : /\ call[c].pc = "fenced" => runs[Current(c)] = 0
                      /\ call[c].pc \in Behind => runs[Current(c)] = 1

Told ==
  /\ \A o \in Occurrences : <<"skipped", o>> \in events => occurrence[o] = "skipped"
  /\ \A n \in notified : n[1] \in Occurrences /\ occurrence[n[1]] = "started" /\ runs[n[1]] = 1
  /\ \A n, m \in notified : m[1] = n[1] => m = n

IInv == Typed /\ OnList /\ Decided /\ Alone /\ Counted /\ Told

LEMMA QuietOK == Quiet \in CallRec
BY SchedulerAssumption DEF Quiet, CallRec, PCs

LEMMA CurrentOK ==
  ASSUME IInv, NEW c \in Calls, call[c].pc # "idle"
  PROVE  /\ Current(c) \in Occurrences
         /\ Current(c)[1] \in call[c].todo
<1> DEFINE s == Min(call[c].todo)
<1>1. call[c] \in CallRec /\ call[c].todo # {} /\ \A t \in call[c].todo : FirstDue[t] <= call[c].at
  BY DEF IInv, Typed, OnList
<1>2. call[c].todo \in SUBSET Schedules /\ call[c].at \in 0..MaxTime
  BY <1>1 DEF CallRec
<1>3. s \in call[c].todo
  <2>1. call[c].todo \in SUBSET Nat
    BY <1>2, SchedulerAssumption
  <2> QED BY <1>1, <2>1, MinIsMember
<1> HIDE DEF s
<1>4. s \in Schedules /\ FirstDue[s] <= call[c].at /\ call[c].at \in Nat
  BY <1>1, <1>2, <1>3, SchedulerAssumption
<1>5. LatestDueAt(s, call[c].at) \in 0..call[c].at
  BY <1>4, LatestDueInTime
<1>6. LatestDueAt(s, call[c].at) \in 0..MaxTime
  BY <1>2, <1>5, SchedulerAssumption
<1>7. Current(c) = <<s, LatestDueAt(s, call[c].at)>>
  BY DEF Current, s
<1> QED BY <1>3, <1>4, <1>6, <1>7 DEF Occurrences

LEMMA InitOK == Init => IInv
<1> SUFFICES ASSUME Init PROVE IInv
  OBVIOUS
<1>1. Typed
  BY QuietOK, SchedulerAssumption DEF Init, Typed
<1>2. OnList /\ Decided /\ Alone
  BY DEF Init, OnList, Decided, Alone, Quiet, Started, Behind
<1>3. Counted /\ Told
  BY DEF Init, Counted, Told, Quiet, Behind
<1> QED BY <1>1, <1>2, <1>3 DEF IInv

-----------------------------------------------------------------------------
(* The ways a step can disturb it.                                          *)

(* How the table of occurrences may change.                                 *)
TableStep ==
  /\ occurrence' \in [Occurrences -> {"none", "claimed", "skipped", "started"}]
  /\ \A o \in Occurrences :
       \/ occurrence'[o] = occurrence[o]
       \/ /\ occurrence[o] = "none" /\ schedule[o[1]] = "active"
          /\ occurrence'[o] \in {"claimed", "skipped"}
       \/ occurrence[o] = "claimed" /\ occurrence'[o] = "started"

(* One call goes on: it stays at its occurrence with what the table says of *)
(* it, or comes to a rest of its list that is not empty, or ends.           *)
GoesOn(c, k) ==
  /\ k \in CallRec
  /\ k.pc # "idle" => /\ call[c].pc # "idle" /\ k.at = call[c].at
                      /\ k.todo # {} /\ k.todo \subseteq call[c].todo
  /\ k.pc \in {"skipped"} \cup Started =>
       /\ k.todo = call[c].todo
       /\ occurrence'[Current(c)] = IF k.pc = "skipped" THEN "skipped" ELSE "started"
  /\ k.pc \in Started =>
       /\ call[c].pc \in Started \/ occurrence[Current(c)] = "claimed"
       /\ runs'[Current(c)] = IF k.pc = "fenced" THEN 0 ELSE 1

(* Only the call that comes from the fence creates a Run.                   *)
RunStep(c) ==
  \/ UNCHANGED runs
  \/ call[c].pc = "fenced" /\ runs' = [runs EXCEPT ![Current(c)] = @ + 1]

LEMMA SameCurrent ==
  ASSUME NEW c \in Calls, call'[c].todo = call[c].todo, call'[c].at = call[c].at
  PROVE  Current(c)' = Current(c)
BY DEF Current, LatestDueAt

LEMMA CallStep ==
  ASSUME IInv, TableStep, NEW c \in Calls, RunStep(c),
         NEW k, GoesOn(c, k), call' = [call EXCEPT ![c] = k]
  PROVE  call' \in [Calls -> CallRec] /\ OnList' /\ Decided' /\ Alone' /\ Counted'
<1>1. call \in [Calls -> CallRec] /\ OnList /\ Decided
  BY DEF IInv, Typed
<1>2. call' \in [Calls -> CallRec]
  BY <1>1 DEF GoesOn
<1>3. OnList'
  <2> SUFFICES ASSUME NEW d \in Calls, call'[d].pc # "idle"
               PROVE  call'[d].todo # {} /\ \A s \in call'[d].todo : FirstDue[s] <= call'[d].at
    BY DEF OnList
  <2>1. CASE d = c
    BY <1>1, <2>1 DEF GoesOn, OnList
  <2>2. CASE d # c
    BY <1>1, <2>2 DEF OnList
  <2> QED BY <2>1, <2>2
<1>4. Decided'
  <2> SUFFICES ASSUME NEW d \in Calls, call'[d].pc \in {"skipped"} \cup Started
               PROVE  occurrence'[Current(d)'] = IF call'[d].pc = "skipped" THEN "skipped" ELSE "started"
    BY DEF Decided, Started
  <2>1. CASE d = c
    <3>1. call'[d] = k /\ k.todo = call[d].todo /\ k.at = call[d].at
      BY <1>1, <2>1 DEF GoesOn, Started
    <3>2. Current(d)' = Current(d)
      BY <3>1, SameCurrent
    <3> QED BY <2>1, <3>1, <3>2 DEF GoesOn
  <2>2. CASE d # c
    <3>1. call'[d] = call[d]
      BY <1>1, <2>2
    <3>2. Current(d)' = Current(d)
      BY <3>1, SameCurrent
    <3>3. call[d].pc # "idle"
      BY <3>1 DEF Started
    <3>4. Current(d) \in Occurrences
      BY <3>3, CurrentOK
    <3>5. occurrence[Current(d)] = IF call[d].pc = "skipped" THEN "skipped" ELSE "started"
      BY <1>1, <3>1 DEF Decided, Started
    <3>6. occurrence'[Current(d)] = occurrence[Current(d)]
      BY <3>4, <3>5 DEF TableStep
    <3> QED BY <3>1, <3>2, <3>5, <3>6
  <2> QED BY <2>1, <2>2
<1>5. \A d \in Calls \ {c} : call'[d] = call[d] /\ Current(d)' = Current(d)
  BY <1>1, SameCurrent
<1>6. call'[c] = k
  BY <1>1
<1>7. ASSUME k.pc \in Started
      PROVE  /\ Current(c)' = Current(c) /\ Current(c) \in Occurrences /\ call[c].pc # "idle"
             /\ call[c].pc \in Started \/ occurrence[Current(c)] = "claimed"
             /\ runs'[Current(c)] = IF k.pc = "fenced" THEN 0 ELSE 1
  <2>1. call'[c].todo = call[c].todo /\ call'[c].at = call[c].at /\ call[c].pc # "idle"
    BY <1>6, <1>7 DEF GoesOn, Started, Behind
  <2> QED BY <1>7, <2>1, SameCurrent, CurrentOK DEF GoesOn
<1>8. ASSUME k.pc \in Started, NEW d \in Calls \ {c}, call[d].pc \in Started
      PROVE  Current(d) # Current(c)
  <2>1. occurrence[Current(d)] = "started"
    BY <1>1, <1>8 DEF Decided
  <2> QED BY <1>7, <1>8, <2>1 DEF IInv, Alone
<1>9. Alone'
  <2> SUFFICES ASSUME NEW d \in Calls, NEW e \in Calls, d # e,
                      call'[d].pc \in Started, call'[e].pc \in Started
               PROVE  Current(d)' # Current(e)'
    BY DEF Alone
  <2>1. CASE d # c /\ e # c
    BY <1>5, <2>1 DEF IInv, Alone
  <2>2. CASE d = c
    BY <1>5, <1>6, <1>7, <1>8, <2>2
  <2>3. CASE e = c
    BY <1>5, <1>6, <1>7, <1>8, <2>3
  <2> QED BY <2>1, <2>2, <2>3
<1>10. ASSUME NEW d \in Calls \ {c}, call[d].pc \in Started
       PROVE  runs'[Current(d)] = runs[Current(d)]
  <2>1. CASE UNCHANGED runs
    BY <2>1
  <2>2. CASE call[c].pc = "fenced" /\ runs' = [runs EXCEPT ![Current(c)] = @ + 1]
    <3>1. Current(d) # Current(c)
      BY <1>10, <2>2 DEF IInv, Alone, Started
    <3>2. Current(d) \in Occurrences
      BY <1>10, CurrentOK DEF Started, Behind
    <3> QED BY <2>2, <3>1, <3>2 DEF IInv, Typed
  <2> QED BY <2>1, <2>2 DEF RunStep
<1>11. \A o \in Occurrences : runs'[o] = 0 \/ (runs'[o] = 1 /\ occurrence'[o] = "started")
  <2> SUFFICES ASSUME NEW o \in Occurrences
               PROVE  runs'[o] = 0 \/ (runs'[o] = 1 /\ occurrence'[o] = "started")
    OBVIOUS
  <2>1. /\ runs[o] = 0 \/ (runs[o] = 1 /\ occurrence[o] = "started")
        /\ occurrence[o] = "started" => occurrence'[o] = "started"
    BY DEF IInv, Counted, TableStep
  <2>2. CASE UNCHANGED runs
    BY <2>1, <2>2
  <2>3. CASE call[c].pc = "fenced" /\ runs' = [runs EXCEPT ![Current(c)] = @ + 1]
    <3>1. runs[Current(c)] = 0 /\ occurrence[Current(c)] = "started"
      BY <2>3 DEF IInv, Counted, Decided, Started
    <3>2. runs'[o] = IF o = Current(c) THEN 1 ELSE runs[o]
      BY <2>3, <3>1 DEF IInv, Typed
    <3> QED BY <2>1, <3>1, <3>2
  <2> QED BY <2>2, <2>3 DEF RunStep
<1>12. ASSUME NEW d \in Calls
       PROVE  /\ call'[d].pc = "fenced" => runs'[Current(d)'] = 0
              /\ call'[d].pc \in Behind => runs'[Current(d)'] = 1
  <2>1. CASE d = c
    BY <1>6, <1>7, <2>1 DEF Started, Behind
  <2>2. CASE d # c
    <3>1. call'[d] = call[d] /\ Current(d)' = Current(d)
      BY <1>5, <2>2
    <3>2. /\ call[d].pc = "fenced" => runs[Current(d)] = 0
          /\ call[d].pc \in Behind => runs[Current(d)] = 1
      BY DEF IInv, Counted
    <3>3. call[d].pc \in Started => runs'[Current(d)] = runs[Current(d)]
      BY <1>10, <2>2
    <3> QED BY <3>1, <3>2, <3>3 DEF Started, Behind
  <2> QED BY <2>1, <2>2
<1>13. Counted'
  BY <1>11, <1>12 DEF Counted
<1> QED BY <1>2, <1>3, <1>4, <1>9, <1>13

(* A step that brings no call past the fence.                               *)
LEMMA CallsKept ==
  ASSUME IInv, UNCHANGED <<occurrence, runs>>,
         \A d \in Calls : call'[d].pc \in Started => call'[d] = call[d]
  PROVE  Alone' /\ Counted'
<1>1. ASSUME NEW d \in Calls, call'[d].pc \in Started
      PROVE  call[d].pc = call'[d].pc /\ Current(d)' = Current(d)
  BY <1>1, SameCurrent
<1>2. Alone'
  BY <1>1 DEF IInv, Alone
<1>3. ASSUME NEW d \in Calls
      PROVE  /\ call'[d].pc = "fenced" => runs'[Current(d)'] = 0
             /\ call'[d].pc \in Behind => runs'[Current(d)'] = 1
  BY <1>1 DEF IInv, Counted, Started, Behind
<1>4. \A o \in Occurrences : runs'[o] = 0 \/ (runs'[o] = 1 /\ occurrence'[o] = "started")
  BY DEF IInv, Counted
<1> QED BY <1>2, <1>3, <1>4 DEF Counted

LEMMA ToldKept ==
  ASSUME IInv, TableStep, UNCHANGED <<events, notified, runs>>
  PROVE  Told'
BY DEF IInv, Told, TableStep

LEMMA SameTable ==
  ASSUME IInv, UNCHANGED occurrence
  PROVE  TableStep
BY DEF IInv, Typed, TableStep

(* Next position, next schedule, end.                                       *)
LEMMA GotoGoesOn ==
  ASSUME IInv, NEW c \in Calls, call[c].pc # "idle", NEW pc \in PCs \ {"idle"}, Goto(c, pc),
         pc = "skipped" => occurrence'[Current(c)] = "skipped",
         pc \in Started =>
           /\ occurrence'[Current(c)] = "started"
           /\ call[c].pc \in Started \/ occurrence[Current(c)] = "claimed"
           /\ runs'[Current(c)] = IF pc = "fenced" THEN 0 ELSE 1
  PROVE  \E k : GoesOn(c, k) /\ call' = [call EXCEPT ![c] = k]
<1> DEFINE k == [call[c] EXCEPT !.pc = pc]
<1>1. call[c] \in CallRec /\ call[c].todo # {}
  BY DEF IInv, Typed, OnList
<1>2. k \in CallRec /\ k.pc = pc /\ k.at = call[c].at /\ k.todo = call[c].todo
  BY <1>1 DEF CallRec
<1>3. call' = [call EXCEPT ![c] = k]
  BY DEF Goto, IInv, Typed
<1> HIDE DEF k
<1>4. GoesOn(c, k)
  BY <1>1, <1>2 DEF GoesOn, Started, Behind
<1> QED BY <1>3, <1>4, Zenon

LEMMA QuietGoesOn == \A c \in Calls : GoesOn(c, Quiet)
BY QuietOK DEF GoesOn, Quiet, Started, Behind

LEMMA NextGoesOn ==
  ASSUME IInv, NEW c \in Calls, call[c].pc # "idle", NextSchedule(c)
  PROVE  \E k : GoesOn(c, k) /\ call' = [call EXCEPT ![c] = k]
<1> DEFINE rest == call[c].todo \ {Current(c)[1]}
           k == [call[c] EXCEPT !.pc = "due", !.todo = rest, !.lost = FALSE]
<1>1. call[c] \in CallRec
  BY DEF IInv, Typed
<1>2. CASE rest = {}
  <2>1. call' = [call EXCEPT ![c] = Quiet]
    BY <1>2 DEF NextSchedule
  <2> QED BY <2>1, QuietGoesOn, Zenon
<1>3. CASE rest # {}
  <2>1. call' = [call EXCEPT ![c] = k]
    BY <1>3 DEF NextSchedule
  <2>2. k \in CallRec /\ k.pc = "due" /\ k.at = call[c].at /\ k.todo = rest
    BY <1>1 DEF CallRec, PCs
  <2>3. rest \subseteq call[c].todo
    OBVIOUS
  <2> HIDE DEF k, rest
  <2>4. GoesOn(c, k)
    BY <1>3, <2>2, <2>3 DEF GoesOn, Started, Behind
  <2> QED BY <2>1, <2>4, Zenon
<1> QED BY <1>2, <1>3

-----------------------------------------------------------------------------
(* One lemma per group of actions: each changes the table as TableStep says,*)
(* and keeps the invariant.                                                 *)

(* A step of one call that says nothing to anybody and starts no Run.       *)
LEMMA SilentStep ==
  ASSUME IInv, TableStep, UNCHANGED <<now, runs, events, notified>>, NEW c \in Calls,
         \E k : GoesOn(c, k) /\ call' = [call EXCEPT ![c] = k]
  PROVE  IInv'
<1>1. call' \in [Calls -> CallRec] /\ OnList' /\ Decided' /\ Alone' /\ Counted'
  <2>1. PICK k : GoesOn(c, k) /\ call' = [call EXCEPT ![c] = k]
    OBVIOUS
  <2> QED BY <2>1, CallStep DEF RunStep
<1>2. Told'
  BY ToldKept
<1>3. Typed'
  BY <1>1 DEF IInv, Typed, TableStep
<1> QED BY <1>1, <1>2, <1>3 DEF IInv

(* Steps outside the calls: tables of schedules and leases, the clock.      *)
LEMMA OutsideOK ==
  ASSUME IInv, UNCHANGED <<occurrence, notified, events, runs, call>>, now' \in 0..MaxTime
  PROVE  IInv' /\ TableStep
<1>1. TableStep
  BY SameTable
<1>2. \A c \in Calls : Current(c)' = Current(c)
  BY SameCurrent
<1>3. OnList' /\ Decided'
  BY <1>2 DEF IInv, OnList, Decided
<1>4. Alone' /\ Counted'
  BY CallsKept
<1>5. Typed' /\ Told'
  BY DEF IInv, Typed, Told
<1> QED BY <1>1, <1>3, <1>4, <1>5 DEF IInv

LEMMA CrashOK ==
  ASSUME IInv, NEW v \in Services, Crash(v)
  PROVE  IInv' /\ TableStep
<1>1. TableStep
  BY SameTable DEF Crash
<1>2. call' = [c \in Calls |-> IF Owner(c) = v THEN Quiet ELSE call[c]]
  BY DEF Crash
<1>3. OnList'
  BY <1>2 DEF IInv, OnList, Quiet
<1>4. Decided'
  <2> SUFFICES ASSUME NEW c \in Calls, call'[c].pc \in {"skipped"} \cup Started
               PROVE  occurrence'[Current(c)'] = IF call'[c].pc = "skipped" THEN "skipped" ELSE "started"
    BY DEF Decided, Started
  <2>1. call'[c] = call[c]
    BY <1>2 DEF Quiet, Started
  <2>2. Current(c)' = Current(c)
    BY <2>1, SameCurrent
  <2> QED BY <2>1, <2>2 DEF IInv, Decided, Crash, Started
<1>5. Typed'
  BY <1>2, QuietOK DEF IInv, Typed, Crash
<1>6. Alone' /\ Counted'
  <2>1. \A d \in Calls : call'[d].pc \in Started => call'[d] = call[d]
    BY <1>2 DEF Quiet, Started, Behind
  <2> QED BY <2>1, CallsKept DEF Crash
<1>7. Told'
  BY DEF IInv, Told, Crash
<1> QED BY <1>1, <1>3, <1>4, <1>5, <1>6, <1>7 DEF IInv

LEMMA BeginOK ==
  ASSUME IInv, NEW c \in Calls, NEW recovering \in BOOLEAN, Begin(c, recovering)
  PROVE  IInv' /\ TableStep
<1> DEFINE due == {s \in Schedules : schedule[s] = "active" /\ FirstDue[s] <= now}
           k == [Quiet EXCEPT !.pc = "due", !.recovering = recovering, !.at = now, !.todo = due]
<1>1. due # {} /\ call' = [call EXCEPT ![c] = k]
      /\ UNCHANGED <<now, occurrence, notified, events, runs>>
  BY DEF Begin
<1>2. TableStep
  BY <1>1, SameTable
<1>3. k \in CallRec /\ k.pc = "due" /\ k.todo = due /\ k.at = now
  BY QuietOK DEF IInv, Typed, CallRec, PCs, Quiet
<1>4. due \subseteq Schedules /\ \A s \in due : FirstDue[s] <= now
  OBVIOUS
<1> HIDE DEF due, k
<1>5. Typed'
  BY <1>1, <1>3 DEF IInv, Typed
<1>6. OnList'
  BY <1>1, <1>3, <1>4 DEF IInv, Typed, OnList
<1>7. Decided'
  <2> SUFFICES ASSUME NEW d \in Calls, call'[d].pc \in {"skipped"} \cup Started
               PROVE  occurrence'[Current(d)'] = IF call'[d].pc = "skipped" THEN "skipped" ELSE "started"
    BY DEF Decided, Started
  <2>1. call'[d] = call[d]
    BY <1>1, <1>3 DEF IInv, Typed, Started
  <2>2. Current(d)' = Current(d)
    BY <2>1, SameCurrent
  <2> QED BY <1>1, <2>1, <2>2 DEF IInv, Decided, Started
<1>8. Alone' /\ Counted'
  <2>1. \A d \in Calls : call'[d].pc \in Started => call'[d] = call[d]
    BY <1>1, <1>3 DEF IInv, Typed, Started, Behind
  <2> QED BY <1>1, <2>1, CallsKept
<1>9. Told'
  BY <1>1 DEF IInv, Told
<1> QED BY <1>2, <1>5, <1>6, <1>7, <1>8, <1>9 DEF IInv

LEMMA SkipOK ==
  ASSUME IInv, NEW c \in Calls, Skip(c)
  PROVE  IInv' /\ TableStep
<1> DEFINE o == Current(c)
<1>1. call[c].pc # "idle" /\ UNCHANGED <<now, runs, events, notified>>
  BY DEF Skip, At
<1>2. o \in Occurrences
  BY <1>1, CurrentOK
<1> HIDE DEF o
<1>3. occurrence' = [occurrence EXCEPT ![o] = IF Skippable(o) THEN "skipped" ELSE @]
  BY DEF Skip, o
<1>4. TableStep
  BY <1>2, <1>3 DEF IInv, Typed, TableStep, Skippable
<1>5. \E k : GoesOn(c, k) /\ call' = [call EXCEPT ![c] = k]
  <2>1. CASE occurrence'[o] = "skipped"
    BY <1>1, <2>1, GotoGoesOn DEF Skip, PCs, Started, o
  <2>2. CASE occurrence'[o] # "skipped"
    BY <1>1, <2>2, NextGoesOn DEF Skip, o
  <2> QED BY <2>1, <2>2
<1> QED BY <1>1, <1>4, <1>5, SilentStep

LEMMA ClaimOK ==
  ASSUME IInv, NEW c \in Calls, Claim(c)
  PROVE  IInv' /\ TableStep
<1> DEFINE o == Current(c)
<1>1. call[c].pc # "idle" /\ UNCHANGED <<now, runs, events, notified>>
  BY DEF Claim, At
<1>2. o \in Occurrences
  BY <1>1, CurrentOK
<1> HIDE DEF o
<1>3. occurrence' = [occurrence EXCEPT ![o] = IF Claimable(o) THEN "claimed" ELSE @]
  BY DEF Claim, o
<1>4. TableStep
  BY <1>2, <1>3 DEF IInv, Typed, TableStep, Claimable
<1>5. \E k : GoesOn(c, k) /\ call' = [call EXCEPT ![c] = k]
  <2>1. CASE Goto(c, "claimed")
    BY <1>1, <2>1, GotoGoesOn DEF PCs, Started
  <2>2. CASE NextSchedule(c)
    BY <1>1, <2>2, NextGoesOn
  <2> QED BY <2>1, <2>2 DEF Claim
<1> QED BY <1>1, <1>4, <1>5, SilentStep

LEMMA LeaseOK ==
  ASSUME IInv, NEW c \in Calls, Lease(c)
  PROVE  IInv' /\ TableStep
<1>1. call[c].pc # "idle" /\ UNCHANGED <<now, occurrence, runs, events, notified>>
  BY DEF Lease, At
<1>2. TableStep
  BY <1>1, SameTable
<1>3. \E k : GoesOn(c, k) /\ call' = [call EXCEPT ![c] = k]
  <2>1. CASE Goto(c, "leased")
    BY <1>1, <2>1, GotoGoesOn DEF PCs, Started
  <2>2. CASE NextSchedule(c)
    BY <1>1, <2>2, NextGoesOn
  <2> QED BY <2>1, <2>2 DEF Lease
<1> QED BY <1>1, <1>2, <1>3, SilentStep

(* The fence: only a claimed occurrence is started, and by one call.        *)
LEMMA StartOK ==
  ASSUME IInv, NEW c \in Calls, Start(c)
  PROVE  IInv' /\ TableStep
<1> DEFINE o == Current(c)
<1>1. call[c].pc # "idle" /\ UNCHANGED <<now, runs, events, notified>>
  BY DEF Start, At
<1>2. o \in Occurrences
  BY <1>1, CurrentOK
<1>3. CASE Fence(c)
  <2>1. /\ occurrence[o] = "claimed"
        /\ occurrence' = [occurrence EXCEPT ![o] = "started"]
        /\ Goto(c, "fenced")
    BY <1>3 DEF Start, Fence
  <2> HIDE DEF o
  <2>2. TableStep /\ occurrence'[o] = "started"
    BY <1>2, <2>1 DEF IInv, Typed, TableStep
  <2>3. runs'[o] = 0
    BY <1>1, <1>2, <2>1 DEF IInv, Counted
  <2>4. \E k : GoesOn(c, k) /\ call' = [call EXCEPT ![c] = k]
    BY <1>1, <2>1, <2>2, <2>3, GotoGoesOn DEF PCs, Started, o
  <2> QED BY <1>1, <2>2, <2>4, SilentStep
<1>4. CASE ~Fence(c)
  <2>1. NextSchedule(c) /\ UNCHANGED <<occurrence, runs>>
    BY <1>1, <1>4 DEF Start
  <2>2. TableStep
    BY <2>1, SameTable
  <2> QED BY <1>1, <2>1, <2>2, NextGoesOn, SilentStep
<1> QED BY <1>3, <1>4

(* The call behind the fence creates the one Run, or none.                  *)
LEMMA CreateOK ==
  ASSUME IInv, NEW c \in Calls, Create(c)
  PROVE  IInv' /\ TableStep
<1> DEFINE o == Current(c)
<1>1. call[c].pc = "fenced" /\ UNCHANGED <<now, occurrence, events, notified>>
  BY DEF Create, At
<1>2. TableStep
  BY <1>1, SameTable
<1>3. CASE runs' = [runs EXCEPT ![o] = @ + 1] /\ Goto(c, "creating")
  <2>1. o \in Occurrences /\ occurrence[o] = "started" /\ runs[o] = 0
    BY <1>1, CurrentOK DEF IInv, Decided, Counted, Started
  <2>2. RunStep(c)
    BY <1>1, <1>3 DEF RunStep
  <2> HIDE DEF o
  <2>3. runs'[o] = 1 /\ runs' \in [Occurrences -> Nat]
    BY <1>3, <2>1 DEF IInv, Typed
  <2>4. \E k : GoesOn(c, k) /\ call' = [call EXCEPT ![c] = k]
    BY <1>1, <1>3, <2>1, <2>3, GotoGoesOn DEF PCs, Started, Behind, o
  <2>5. call' \in [Calls -> CallRec] /\ OnList' /\ Decided' /\ Alone' /\ Counted'
    <3>1. PICK k : GoesOn(c, k) /\ call' = [call EXCEPT ![c] = k]
      BY <2>4
    <3> QED BY <1>2, <2>2, <3>1, CallStep
  <2>6. Told'
    <3>1. \A n \in notified : n[1] # o
      BY <2>1 DEF IInv, Told
    <3>2. \A n \in notified : n[1] \in Occurrences /\ runs'[n[1]] = runs[n[1]]
      BY <1>3, <3>1 DEF IInv, Typed, Told
    <3> QED BY <1>1, <3>2 DEF IInv, Told
  <2>7. Typed'
    BY <1>1, <2>3, <2>5 DEF IInv, Typed
  <2> QED BY <1>2, <2>5, <2>6, <2>7 DEF IInv
<1>4. CASE Throw(c) /\ UNCHANGED runs
  <2>1. \E k : GoesOn(c, k) /\ call' = [call EXCEPT ![c] = k]
    BY <1>4, QuietGoesOn, Zenon DEF Throw
  <2> QED BY <1>1, <1>2, <1>4, <2>1, SilentStep
<1> QED BY <1>3, <1>4 DEF Create

LEMMA RenewOK ==
  ASSUME IInv, NEW c \in Calls, Renew(c)
  PROVE  IInv' /\ TableStep
<1>1. call[c].pc = "creating" /\ UNCHANGED <<now, occurrence, runs, events, notified>>
  BY DEF Renew, At
<1>2. CASE UNCHANGED call
  BY <1>1, <1>2, OutsideOK DEF IInv, Typed
<1>3. CASE call' = [call EXCEPT ![c].lost = TRUE]
  <2> DEFINE k == [call[c] EXCEPT !.lost = TRUE]
  <2>1. /\ call[c] \in CallRec /\ call[c].todo # {} /\ occurrence[Current(c)] = "started"
        /\ runs'[Current(c)] = 1
    BY <1>1 DEF IInv, Typed, OnList, Decided, Counted, Started, Behind
  <2>2. k \in CallRec /\ k.pc = "creating" /\ k.at = call[c].at /\ k.todo = call[c].todo
    BY <1>1, <2>1 DEF CallRec
  <2>3. call' = [call EXCEPT ![c] = k]
    BY <1>3 DEF IInv, Typed
  <2> HIDE DEF k
  <2>4. GoesOn(c, k)
    BY <1>1, <2>1, <2>2 DEF GoesOn, Started, Behind
  <2>5. TableStep
    BY <1>1, SameTable
  <2>6. \E j : GoesOn(c, j) /\ call' = [call EXCEPT ![c] = j]
    BY <2>3, <2>4, Zenon
  <2> QED BY <1>1, <2>5, <2>6, SilentStep
<1> QED BY <1>2, <1>3 DEF Renew

(* Behind the fence the call only adds what the table already says.         *)
LEMMA TellOK ==
  ASSUME IInv, NEW c \in Calls, TellSkipped(c) \/ Created(c) \/ TellNotified(c)
  PROVE  IInv' /\ TableStep
<1>1. /\ call[c].pc \in {"skipped"} \cup Behind
      /\ UNCHANGED <<now, occurrence, runs, notified>>
  BY DEF TellSkipped, Created, TellNotified, At, Behind
<1>2. TableStep
  BY <1>1, SameTable
<1>3. \E k : GoesOn(c, k) /\ call' = [call EXCEPT ![c] = k]
  <2>1. CASE NextSchedule(c)
    BY <1>1, <2>1, NextGoesOn DEF Behind
  <2>2. CASE Throw(c)
    BY <2>2, QuietGoesOn, Zenon DEF Throw
  <2>3. CASE Goto(c, "notifying") /\ call[c].pc = "creating"
    <3>1. occurrence'[Current(c)] = "started" /\ runs'[Current(c)] = 1
      BY <1>1, <2>3 DEF IInv, Decided, Counted, Started, Behind
    <3> QED BY <2>3, <3>1, GotoGoesOn DEF PCs, Started, Behind
  <2> QED BY <2>1, <2>2, <2>3 DEF TellSkipped, Created, TellNotified, At
<1>4. call' \in [Calls -> CallRec] /\ OnList' /\ Decided' /\ Alone' /\ Counted'
  <2>1. PICK k : GoesOn(c, k) /\ call' = [call EXCEPT ![c] = k]
    BY <1>3
  <2> QED BY <1>1, <1>2, <2>1, CallStep DEF RunStep
<1>5. \A o \in Occurrences : <<"skipped", o>> \in events' => occurrence[o] = "skipped"
  <2>1. CASE TellSkipped(c)
    <3>1. /\ occurrence[Current(c)] = "skipped"
          /\ events' = events \cup {<<"skipped", Current(c)>>}
      BY <2>1 DEF TellSkipped, At, IInv, Decided
    <3> QED BY <3>1 DEF IInv, Told
  <2>2. CASE Created(c) \/ TellNotified(c)
    <3>1. \A o : <<"skipped", o>> \in events' => <<"skipped", o>> \in events
      BY <2>2 DEF Created, TellNotified
    <3> QED BY <3>1 DEF IInv, Told
  <2> QED BY <2>1, <2>2
<1>6. Told'
  BY <1>1, <1>5 DEF IInv, Told
<1>7. Typed'
  BY <1>1, <1>4 DEF IInv, Typed
<1> QED BY <1>2, <1>4, <1>6, <1>7 DEF IInv

LEMMA NotifyOK ==
  ASSUME IInv, NEW c \in Calls, Notify(c)
  PROVE  IInv' /\ TableStep
<1> DEFINE n == <<Current(c), call[c].at>>
<1>1. call[c].pc = "notifying" /\ UNCHANGED <<now, occurrence, runs, events>>
  BY DEF Notify, At
<1>2. TableStep
  BY <1>1, SameTable
<1>3. Current(c) \in Occurrences /\ occurrence[Current(c)] = "started" /\ runs[Current(c)] = 1
  BY <1>1, CurrentOK DEF IInv, Decided, Counted, Started, Behind
<1>4. CASE \E m \in notified : m[1] = n[1] /\ m # n
  <2>1. call' = [call EXCEPT ![c] = Quiet] /\ UNCHANGED notified
    BY <1>4 DEF Notify, Throw
  <2>2. \E k : GoesOn(c, k) /\ call' = [call EXCEPT ![c] = k]
    BY <2>1, QuietGoesOn, Zenon
  <2> QED BY <1>1, <1>2, <2>1, <2>2, SilentStep
<1>5. CASE ~\E m \in notified : m[1] = n[1] /\ m # n
  <2>1. notified' = notified \cup {n} /\ Goto(c, "notified")
    BY <1>5 DEF Notify
  <2>2. \E k : GoesOn(c, k) /\ call' = [call EXCEPT ![c] = k]
    BY <1>1, <1>3, <2>1, GotoGoesOn DEF PCs, Started, Behind
  <2>3. call' \in [Calls -> CallRec] /\ OnList' /\ Decided' /\ Alone' /\ Counted'
    <3>1. PICK k : GoesOn(c, k) /\ call' = [call EXCEPT ![c] = k]
      BY <2>2
    <3> QED BY <1>1, <1>2, <3>1, CallStep DEF RunStep
  <2>4. n[1] \in Occurrences /\ occurrence[n[1]] = "started" /\ runs[n[1]] = 1
    BY <1>3
  <2> HIDE DEF n
  <2>5. Told'
    BY <1>1, <1>5, <2>1, <2>4 DEF IInv, Told
  <2>6. Typed'
    BY <1>1, <2>3 DEF IInv, Typed
  <2> QED BY <1>2, <2>3, <2>5, <2>6 DEF IInv
<1> QED BY <1>4, <1>5

LEMMA StepOK ==
  ASSUME IInv, [Next]_vars
  PROVE  IInv' /\ TableStep
<1>1. CASE UNCHANGED vars
  BY <1>1, OutsideOK DEF vars, IInv, Typed
<1>2. ASSUME NEW s \in Schedules, CancelSchedule(s) \/ \E p \in {"skip", "run_latest"} : CreateSchedule(s, p)
      PROVE  IInv' /\ TableStep
  BY <1>2, OutsideOK DEF CancelSchedule, CreateSchedule, IInv, Typed
<1>3. ASSUME NEW c \in Calls, Step(c) \/ Renew(c) \/ \E recovering \in BOOLEAN : Begin(c, recovering)
      PROVE  IInv' /\ TableStep
  BY <1>3, SkipOK, ClaimOK, LeaseOK, StartOK, CreateOK, RenewOK, TellOK, NotifyOK, BeginOK DEF Step
<1>4. ASSUME NEW o \in Occurrences, Age(o)
      PROVE  IInv' /\ TableStep
  BY <1>4, OutsideOK DEF Age, IInv, Typed
<1>5. ASSUME NEW v \in Services, Crash(v)
      PROVE  IInv' /\ TableStep
  BY <1>5, CrashOK
<1>6. CASE Tick
  <2>1. now' \in 0..MaxTime
    BY <1>6, SchedulerAssumption DEF Tick, IInv, Typed
  <2> QED BY <1>6, <2>1, OutsideOK DEF Tick
<1> QED BY <1>1, <1>2, <1>3, <1>4, <1>5, <1>6 DEF Next

-----------------------------------------------------------------------------
(* However tick() and recover() of any number of instances overlap, lose    *)
(* their leases, fail and crash, the started fence lets the Run of an       *)
(* occurrence be created at most once, and only such a Run is notified.     *)
THEOREM OneRunPerOccurrence == Spec => []RunsOnce
<1>1. IInv /\ [Next]_vars => IInv'
  BY StepOK
<1>2. IInv => RunsOnce
  <2> SUFFICES ASSUME IInv PROVE RunsOnce
    OBVIOUS
  <2>1. \A o \in Occurrences : /\ runs[o] <= (IF occurrence[o] = "started" THEN 1 ELSE 0)
                               /\ <<"skipped", o>> \in events => occurrence[o] = "skipped"
    <3> TAKE o \in Occurrences
    <3>1. runs[o] = 0 \/ (runs[o] = 1 /\ occurrence[o] = "started")
      BY DEF IInv, Counted
    <3>2. runs[o] <= (IF occurrence[o] = "started" THEN 1 ELSE 0)
      BY <3>1
    <3>3. <<"skipped", o>> \in events => occurrence[o] = "skipped"
      BY DEF IInv, Told
    <3> QED BY <3>2, <3>3
  <2>2. \A n \in notified : runs[n[1]] = 1 /\ \A m \in notified : m[1] = n[1] => m = n
    BY DEF IInv, Told
  <2> QED BY <2>1, <2>2 DEF RunsOnce
<1> QED BY InitOK, <1>1, <1>2, PTL DEF Spec

(* What an instance decided about an occurrence no other one revises.       *)
THEOREM DecisionsAreFinal == Spec => DecidedOnce
<1>1. IInv /\ [Next]_vars => IInv'
  BY StepOK
<1>2. IInv /\ [Next]_vars =>
        [\A o \in Occurrences :
           <<occurrence[o], occurrence'[o]>> \in
              {<<"none", "claimed">>, <<"none", "skipped">>, <<"claimed", "started">>}
           \/ occurrence'[o] = occurrence[o]]_vars
  BY StepOK DEF TableStep
<1> QED BY InitOK, <1>1, <1>2, PTL DEF Spec, DecidedOnce

(* A call that still holds the schedule in its list takes up nothing of it  *)
(* once it is cancelled: claims and skips look it up again.                 *)
THEOREM CancellationHolds == Spec => CancelledNotClaimed
<1>1. IInv /\ [Next]_vars => IInv'
  BY StepOK
<1>2. IInv /\ [Next]_vars =>
        [\A o \in Occurrences : schedule[o[1]] = "cancelled" /\ occurrence[o] = "none"
                                   => occurrence'[o] = "none"]_vars
  BY StepOK DEF TableStep
<1> QED BY InitOK, <1>1, <1>2, PTL DEF Spec, CancelledNotClaimed
=============================================================================
