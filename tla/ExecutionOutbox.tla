-------------------------- MODULE ExecutionOutbox ---------------------------
(***************************************************************************)
(* The outbox of the execution store and the projectors that drain it:      *)
(* claim_outbox_events, the projection with its receipt, and the ack, each  *)
(* a transaction of its own.                                                *)
(***************************************************************************)
EXTENDS ExecutionStore

CONSTANT Projectors  \* owner ids of projectors

VARIABLES
  proj,     \* the batch of each projector
  applied   \* projection receipts of each execution, in the order they were stored

outVars == <<proj, applied>>

NoBatch == [todo |-> {}, acking |-> {}]
OutboxInit ==
  /\ proj    = [p \in Projectors |-> NoBatch]
  /\ applied = [e \in Execs |-> << >>]

(* claim_outbox_events: of each execution only the first undelivered row.   *)
AnyOpen(e) == {n \in DOMAIN log[e] : log[e][n].state # "done"}  \* a fault: any undelivered row
HeadOpen(e) == {n \in AnyOpen(e) : \A m \in 1..(n - 1) : log[e][m].state = "done"}
Batch == {x \in Execs \X (1..Max({Len(log[e]) : e \in Execs})) :
            x[2] \in HeadOpen(x[1]) /\ log[x[1]][x[2]].state \in {"new", "lapsed"}}

ClaimOutbox(p) ==
  /\ proj[p] = NoBatch /\ Batch # {}
  /\ log' = [e \in Execs |-> [n \in DOMAIN log[e] |->
       IF <<e, n>> \in Batch THEN [log[e][n] EXCEPT !.state = "held", !.by = p] ELSE log[e][n]]]
  /\ proj' = [proj EXCEPT ![p].todo = Batch]
  /\ UNCHANGED <<row, signals, effect, command, worker, applied, faults>>

(* apply_execution_projection stores its receipt with the change it makes;  *)
(* an event that has one is skipped.  The ack is a transaction of its own.  *)
IsNew(x) == x[2] \notin Range(applied[x[1]])

Project(p) ==
  /\ proj[p].acking = {}
  /\ \E x \in proj[p].todo :
       /\ applied' = [applied EXCEPT ![x[1]] = IF IsNew(x) THEN Append(@, x[2]) ELSE @]
       /\ proj' = [proj EXCEPT ![p].todo = @ \ {x}, ![p].acking = {x}]
  /\ UNCHANGED <<row, log, signals, effect, command, worker, faults>>

(* The projection raises: the row stays claimed and is retried later.       *)
ProjectFails(p) ==
  /\ proj[p].acking = {} /\ Fault
  /\ \E x \in proj[p].todo : proj' = [proj EXCEPT ![p].todo = @ \ {x}]
  /\ UNCHANGED <<row, log, signals, effect, command, worker, applied>>

Ack(p) ==
  /\ \E x \in proj[p].acking :
       log' = [log EXCEPT ![x[1]][x[2]] =
                 IF @.state = "held" /\ @.by = p THEN [@ EXCEPT !.state = "done", !.by = Nobody] ELSE @]
  /\ proj' = [proj EXCEPT ![p].acking = {}]
  /\ UNCHANGED <<row, signals, effect, command, worker, applied, faults>>

Worked(e, n) == \E p \in Projectors :
                  log[e][n].by = p /\ <<e, n>> \in proj[p].todo \cup proj[p].acking
LapseClaim(e) ==
  /\ \E n \in DOMAIN log[e] :
       /\ log[e][n].state = "held"
       /\ IF Worked(e, n) THEN Fault ELSE UNCHANGED faults
       /\ log' = [log EXCEPT ![e][n].state = "lapsed"]
  /\ UNCHANGED <<row, signals, effect, command, worker, proj, applied>>

CrashProjector(p) ==
  /\ proj[p] # NoBatch /\ Fault
  /\ proj' = [proj EXCEPT ![p] = NoBatch]
  /\ UNCHANGED <<row, log, signals, effect, command, worker, applied>>

Deliver ==
  \/ \E p \in Projectors : ClaimOutbox(p) \/ ProjectFails(p) \/ Ack(p) \/ CrashProjector(p)
  \/ \E e \in Execs : LapseClaim(e)

-----------------------------------------------------------------------------
(* The projection has applied the events of an execution in their order,    *)
(* each once, and an event that is marked delivered was applied: whatever   *)
(* projectors crash, stall past their claim or repeat.                      *)
ProjectedInOrder ==
  \A e \in Execs : /\ \A i \in DOMAIN applied[e] : applied[e][i] = i
                   /\ \A n \in DOMAIN log[e] : log[e][n].state = "done" => n <= Len(applied[e])
=============================================================================
