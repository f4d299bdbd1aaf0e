---------------------------- MODULE RunLifecycle ----------------------------
(***************************************************************************)
(* What the run runtime promises of every Run, whatever happens inside it:  *)
(* a Run is claimed once, becomes running only from queued or from a        *)
(* suspension, is suspended only while running, and a terminal status is    *)
(* for ever.                                                                *)
(***************************************************************************)
CONSTANT Runs
VARIABLE st        \* st[r]: the status a client reads for Run r

Final     == {"completed", "failed", "timed_out", "cancelled"}
Suspended == {"awaiting_approval"}
Status    == {"unclaimed", "queued", "running"} \cup Suspended \cup Final

TypeOK == st \in [Runs -> Status]

Init == st = [r \in Runs |-> "unclaimed"]

Become(r, from, to) == st[r] \in from /\ st' = [st EXCEPT ![r] = to]

Claim(r)   == Become(r, {"unclaimed"}, "queued")
Run(r)     == Become(r, {"queued"} \cup Suspended, "running")
Suspend(r) == \E s \in Suspended : Become(r, {"running"}, s)
Finish(r)  == \E f \in Final : Become(r, {"queued", "running"} \cup Suspended, f)

Next == \E r \in Runs : Claim(r) \/ Run(r) \/ Suspend(r) \/ Finish(r)

Spec == Init /\ [][Next]_st
=============================================================================
