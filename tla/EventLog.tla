------------------------------ MODULE EventLog ------------------------------
(***************************************************************************)
(* One stream of the channel-scoped EventStore, as pure operators.          *)
(*                                                                          *)
(* A stream is the sequence of the events stored under one streamId; the    *)
(* event at index i has seq i-1.  An event keeps its type (without the      *)
(* "run." prefix) and the component that wrote it: ids, timestamps and      *)
(* payloads are not told apart by any property here.                        *)
(***************************************************************************)
EXTENDS Naturals, Sequences

FinalTypes   == {"completed", "failed", "timed_out", "cancelled"}
SuspendTypes == {"awaiting_approval"}
RunningTypes == {"started", "resumed", "progress"}
OtherTypes   == {"queued", "context", "transcript", "tool", "eval",
                 "approval_requested", "approved", "denied"}
EventTypes   == FinalTypes \cup SuspendTypes \cup RunningTypes \cup OtherTypes

Writers == {"runtime", "settle", "kernel", "gateway", "approver"}
Event   == [type : EventTypes, by : Writers]

IsFinal(e)   == e.type \in FinalTypes
IsSettled(e) == e.type \in FinalTypes \cup SuspendTypes

HasFinal(log)   == \E i \in DOMAIN log : IsFinal(log[i])
HasType(log, t) == \E i \in DOMAIN log : log[i].type = t

(* append(): the sequence check, then the terminal check; both in one       *)
(* transaction with the insert.                                             *)
AcceptsAtEnd(log, seq) == seq = Len(log)        \* a fault: no terminal check

Accepts(log, seq) == seq = Len(log) /\ ~HasFinal(log)

(* The last event of the stream is a terminal or a suspension.              *)
LastSettled(log) == log # << >> /\ IsSettled(log[Len(log)])

(* RunManager.get: the first terminal event decides; otherwise the last of  *)
(* the events that start, resume or suspend the Run.                        *)
Marks(log) == {i \in DOMAIN log : log[i].type \in RunningTypes \cup SuspendTypes}

StatusOfLast(log) ==                            \* a fault: only the last event
  IF log = << >> THEN "queued"
  ELSE LET last == log[Len(log)].type
       IN  IF last \in FinalTypes \cup SuspendTypes THEN last
           ELSE IF last \in RunningTypes THEN "running" ELSE "queued"

Status(log) ==
  IF HasFinal(log)
  THEN log[CHOOSE i \in DOMAIN log :
             /\ IsFinal(log[i])
             /\ \A j \in 1..(i - 1) : ~IsFinal(log[j])].type
  ELSE IF Marks(log) = {}
       THEN "queued"
       ELSE LET last == log[CHOOSE i \in Marks(log) : \A j \in Marks(log) : j <= i]
            IN  IF last.type \in SuspendTypes THEN last.type ELSE "running"

Statuses == {"queued", "running"} \cup SuspendTypes \cup FinalTypes

(* tool-approval.ts, approvalFor: an answer counts only after the request,  *)
(* and the first one decides.                                               *)
Requested(log) == HasType(log, "approval_requested")

Decision(log) ==
  LET req == CHOOSE i \in DOMAIN log :
               /\ log[i].type = "approval_requested"
               /\ \A j \in 1..(i - 1) : log[j].type # "approval_requested"
      answers == {i \in DOMAIN log : i > req /\ log[i].type \in {"approved", "denied"}}
  IN  IF ~Requested(log) \/ answers = {}
      THEN "undecided"
      ELSE log[CHOOSE i \in answers : \A j \in answers : i <= j].type
=============================================================================
