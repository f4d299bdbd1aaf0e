------------------------ MODULE ExecutionStoreProofs ------------------------
(***************************************************************************)
(* Theorems about ExecutionStore, for any executions, requests and workers  *)
(* and any number of stalls, crashes and interrupts.                        *)
(***************************************************************************)
EXTENDS ExecutionStore, NatMin, SequenceTheorems, TLAPS

-----------------------------------------------------------------------------
(* The inductive invariant.                                                 *)

RowType == [status : {"unused"} \cup Active \cup Terminal, subject : Subjects \cup {Nobody},
            attempt : Nat, token : Nat, owner : Workers \cup {Nobody},
            lease : {"none", "live", "lapsed"}, delayed : BOOLEAN, checkpoint : Nat]
Consistent(x) ==
  /\ (x.status = "running") <=> (x.lease # "none")
  /\ (x.status = "running") <=> (x.owner # Nobody)
  /\ x.status = "running" => ~x.delayed
  /\ x.status = "unused" => x.checkpoint = 0
RowRec   == {x \in RowType : Consistent(x)}
EntryRec == [type : EventTypes, state : {"new", "held", "lapsed", "done"}, by : {Nobody}]
Looping  == {"looping", "releasing"}
WorkRec  == [pc : {"idle", "claimed"} \cup Looping, exec : 0..MaxExecs, token : Nat,
             seen : SUBSET Requests, base : Nat]

Typed ==
  /\ row \in [Execs -> RowRec]
  /\ log \in [Execs -> Seq(EntryRec)]
  /\ signals \in [Execs -> SUBSET Requests]
  /\ effect \in [Execs -> {"none", "pending", "unknown", "succeeded", "failed"}]
  /\ DOMAIN command = Requests
  /\ worker \in [Workers -> WorkRec]
  /\ \A w \in Workers : worker[w].pc # "idle" => worker[w].exec \in Execs
  /\ faults \in 0..MaxFaults

(* Who still owns its execution has read the checkpoint that is stored.     *)
BaseRead ==
  \A w \in Workers : worker[w].pc \in Looping /\ row[worker[w].exec].owner = w
                       => worker[w].base = row[worker[w].exec].checkpoint

IInv == Typed /\ OneEnding /\ SuccessHeardAll /\ OneStartPerRequest /\ BaseRead

-----------------------------------------------------------------------------
(* Events.                                                                  *)

LEMMA EntriesOK ==
  ASSUME NEW ts \in Seq(EventTypes)
  PROVE  /\ Entries(ts) \in Seq(EntryRec) /\ Len(Entries(ts)) = Len(ts)
         /\ \A i \in 1..Len(ts) : Entries(ts)[i].type = ts[i]
<1>1. DOMAIN ts = 1..Len(ts) /\ Len(ts) \in Nat /\ \A i \in 1..Len(ts) : ts[i] \in EventTypes
  BY ElementOfSeq, LenProperties
<1>2. Entries(ts) \in [1..Len(ts) -> EntryRec]
  BY <1>1 DEF Entries, EntryRec
<1>3. Entries(ts) \in Seq(EntryRec)
  BY <1>1, <1>2, SeqDef
<1>4. Len(Entries(ts)) = Len(ts)
  BY <1>1, <1>2, <1>3
<1> QED BY <1>1, <1>3, <1>4 DEF Entries

LEMMA Concatenated ==
  ASSUME NEW s \in Seq(EntryRec), NEW t \in Seq(EntryRec)
  PROVE  /\ s \o t \in Seq(EntryRec) /\ Len(s \o t) = Len(s) + Len(t)
         /\ DOMAIN (s \o t) = 1..(Len(s) + Len(t))
         /\ \A n \in 1..(Len(s) + Len(t)) :
              (s \o t)[n] = IF n <= Len(s) THEN s[n] ELSE t[n - Len(s)]
<1>1. s \o t \in Seq(EntryRec) /\ Len(s \o t) = Len(s) + Len(t)
  OBVIOUS
<1>2. DOMAIN (s \o t) = 1..(Len(s) + Len(t))
  BY <1>1
<1>3. \A n \in 1..(Len(s) + Len(t)) :
        (s \o t)[n] = IF n <= Len(s) THEN s[n] ELSE t[n - Len(s)]
  OBVIOUS
<1> QED BY <1>1, <1>2, <1>3

LEMMA NoEntries ==
  ASSUME NEW s \in Seq(EntryRec)
  PROVE  s \o Entries(<< >>) = s
<1>1. << >> \in Seq(EventTypes)
  BY EmptySeq
<1>2. Entries(<< >>) \in Seq(EntryRec) /\ Len(Entries(<< >>)) = 0
  BY <1>1, EntriesOK
<1>3. Entries(<< >>) = << >>
  BY <1>2, EmptySeq
<1> QED BY <1>3, ConcatEmptySeq

(* An execution that is not over gets events of which exactly the last may  *)
(* say that it now is.                                                      *)
Ends(old, new, ts) ==
  /\ ts \in Seq(EventTypes) /\ ts # << >> /\ old.status \notin Terminal
  /\ \A i \in 1..Len(ts) : ts[i] \in TerminalTypes <=> (i = Len(ts) /\ new.status \in Terminal)

ExecMoves(e) ==
  \/ log'[e] = log[e] /\ (row'[e].status \in Terminal <=> row[e].status \in Terminal)
  \/ \E ts : log'[e] = log[e] \o Entries(ts) /\ Ends(row[e], row'[e], ts)

LEMMA EndingKept ==
  ASSUME IInv, NEW e \in Execs, ExecMoves(e)
  PROVE  /\ log'[e] \in Seq(EntryRec)
         /\ \A n \in DOMAIN log'[e] :
              (log'[e][n].type \in TerminalTypes)
                <=> (n = Len(log'[e]) /\ row'[e].status \in Terminal)
<1>1. /\ log[e] \in Seq(EntryRec)
      /\ \A n \in DOMAIN log[e] :
           (log[e][n].type \in TerminalTypes) <=> (n = Len(log[e]) /\ row[e].status \in Terminal)
  BY DEF IInv, Typed, OneEnding
<1>2. CASE log'[e] = log[e] /\ (row'[e].status \in Terminal <=> row[e].status \in Terminal)
  BY <1>1, <1>2
<1>3. ASSUME NEW ts, log'[e] = log[e] \o Entries(ts), Ends(row[e], row'[e], ts)
      PROVE  /\ log'[e] \in Seq(EntryRec)
             /\ \A n \in DOMAIN log'[e] :
                  (log'[e][n].type \in TerminalTypes)
                    <=> (n = Len(log'[e]) /\ row'[e].status \in Terminal)
  <2> DEFINE old == log[e]
             new == Entries(ts)
  <2>1. ts \in Seq(EventTypes) /\ Len(ts) \in Nat \ {0}
    BY <1>3, EmptySeq DEF Ends
  <2>2. /\ new \in Seq(EntryRec) /\ Len(new) = Len(ts)
        /\ \A i \in 1..Len(ts) : new[i].type = ts[i]
    BY <2>1, EntriesOK
  <2>3. \A n \in 1..Len(old) : old[n].type \notin TerminalTypes
    BY <1>1, <1>3 DEF Ends
  <2> HIDE DEF old, new
  <2>4. old \in Seq(EntryRec) /\ Len(old) \in Nat /\ log'[e] = old \o new
    BY <1>1, <1>3 DEF old, new
  <2>5. /\ log'[e] \in Seq(EntryRec) /\ Len(log'[e]) = Len(old) + Len(ts)
        /\ DOMAIN log'[e] = 1..(Len(old) + Len(ts))
        /\ \A n \in 1..(Len(old) + Len(ts)) :
             log'[e][n] = IF n <= Len(old) THEN old[n] ELSE new[n - Len(old)]
    <3>1. new \in Seq(EntryRec) /\ old \in Seq(EntryRec)
      BY <2>2, <2>4
    <3>2. /\ old \o new \in Seq(EntryRec) /\ Len(old \o new) = Len(old) + Len(new)
          /\ DOMAIN (old \o new) = 1..(Len(old) + Len(new))
          /\ \A n \in 1..(Len(old) + Len(new)) :
               (old \o new)[n] = IF n <= Len(old) THEN old[n] ELSE new[n - Len(old)]
      BY <3>1, Concatenated, Zenon
    <3>3. log'[e] = old \o new /\ Len(new) = Len(ts)
      BY <2>2, <2>4
    <3> QED BY <3>2, <3>3, Zenon
  <2>6. ASSUME NEW n \in 1..(Len(old) + Len(ts))
        PROVE  (log'[e][n].type \in TerminalTypes)
                 <=> (n = Len(log'[e]) /\ row'[e].status \in Terminal)
    <3>1. CASE n <= Len(old)
      <4>1. log'[e][n] = old[n] /\ n # Len(log'[e]) /\ n \in 1..Len(old)
        BY <2>1, <2>4, <2>5, <3>1
      <4> QED BY <2>3, <4>1
    <3>2. CASE ~(n <= Len(old))
      <4>1. n - Len(old) \in 1..Len(ts) /\ (n - Len(old) = Len(ts) <=> n = Len(log'[e]))
        BY <2>1, <2>4, <2>5, <3>2
      <4>2. log'[e][n].type = ts[n - Len(old)]
        BY <2>2, <2>5, <3>2, <4>1
      <4> QED BY <1>3, <4>1, <4>2 DEF Ends
    <3> QED BY <3>1, <3>2
  <2> QED BY <2>5, <2>6
<1> QED BY <1>2, <1>3 DEF ExecMoves

-----------------------------------------------------------------------------
(* Rows.                                                                    *)

(* What any step may do to the row of an execution; w acts, or nobody does. *)
RowMoves(w, e) ==
  /\ row'[e] \in RowRec
  /\ row'[e].owner \in {Nobody, w}
       \/ (row'[e].owner = row[e].owner /\ row'[e].checkpoint = row[e].checkpoint)

(* The two action properties, for one execution.                            *)
ReadFirst(e) ==
  row'[e].checkpoint # row[e].checkpoint
    => \E w \in Workers : /\ worker[w].exec = e /\ worker'[w] # worker[w]
                          /\ worker[w].base = row[e].checkpoint
NotResumed(e) ==
  Expired(e) /\ Uncertain(e) /\ signals[e] = {} => row'[e].status # "running" \/ row'[e] = row[e]

Tables(w) ==
  /\ row' = [e \in Execs |-> row'[e]] /\ log' = [e \in Execs |-> log'[e]]
  /\ \A e \in Execs : RowMoves(w, e) /\ ExecMoves(e) /\ NotResumed(e)

LEMMA TablesOK ==
  ASSUME IInv, NEW w, Tables(w)
  PROVE  row' \in [Execs -> RowRec] /\ log' \in [Execs -> Seq(EntryRec)] /\ OneEnding'
<1>1. \A e \in Execs :
        /\ log'[e] \in Seq(EntryRec)
        /\ \A n \in DOMAIN log'[e] :
             (log'[e][n].type \in TerminalTypes)
               <=> (n = Len(log'[e]) /\ row'[e].status \in Terminal)
  BY EndingKept, Zenon DEF Tables
<1>2. OneEnding'
  BY <1>1, Zenon DEF OneEnding
<1>3. row' \in [Execs -> RowRec]
  BY Zenon DEF Tables, RowMoves
<1>4. log' \in [Execs -> Seq(EntryRec)]
  BY <1>1, Zenon DEF Tables
<1> QED BY <1>2, <1>3, <1>4

(* The row of one execution changes, with events or without.                *)
LEMMA OneRow ==
  ASSUME IInv, NEW w, NEW e \in Execs, NEW x \in RowRec, NEW ts,
         row' = [row EXCEPT ![e] = x], Emit(e, ts), Ends(row[e], x, ts),
         x.owner \in {Nobody, w} \/ (x.owner = row[e].owner /\ x.checkpoint = row[e].checkpoint),
         NotResumed(e)
  PROVE  Tables(w)
<1>1. row \in [Execs -> RowRec] /\ log \in [Execs -> Seq(EntryRec)]
  BY DEF IInv, Typed
<1>2. row' = [d \in Execs |-> row'[d]] /\ log' = [d \in Execs |-> log'[d]]
  BY <1>1 DEF Emit
<1>3. ASSUME NEW d \in Execs PROVE RowMoves(w, d) /\ ExecMoves(d) /\ NotResumed(d)
  <2>1. CASE d = e
    <3>1. row'[d] = x /\ log'[d] = log[d] \o Entries(ts)
      BY <1>1, <2>1 DEF Emit
    <3> QED BY <2>1, <3>1, Zenon DEF RowMoves, ExecMoves
  <2>2. CASE d # e
    <3>1. row'[d] = row[d] /\ log'[d] = log[d] /\ row[d] \in RowRec
      BY <1>1, <2>2 DEF Emit
    <3> QED BY <3>1 DEF RowMoves, ExecMoves, NotResumed
  <2> QED BY <2>1, <2>2
<1> QED BY <1>2, <1>3 DEF Tables

LEMMA OneRowSilent ==
  ASSUME IInv, NEW w, NEW e \in Execs, NEW x \in RowRec, UNCHANGED log,
         row' = [row EXCEPT ![e] = x], x.status = row[e].status,
         x.owner = row[e].owner, x.checkpoint = row[e].checkpoint, NotResumed(e)
  PROVE  Tables(w)
<1>1. row \in [Execs -> RowRec] /\ log \in [Execs -> Seq(EntryRec)]
  BY DEF IInv, Typed
<1>2. row' = [d \in Execs |-> row'[d]] /\ log' = [d \in Execs |-> log'[d]]
  BY <1>1
<1>3. ASSUME NEW d \in Execs PROVE RowMoves(w, d) /\ ExecMoves(d) /\ NotResumed(d)
  <2>1. CASE d = e
    <3>1. row'[d] = x /\ log'[d] = log[d]
      BY <1>1, <2>1
    <3> QED BY <2>1, <3>1 DEF RowMoves, ExecMoves
  <2>2. CASE d # e
    <3>1. row'[d] = row[d] /\ log'[d] = log[d] /\ row[d] \in RowRec
      BY <1>1, <2>2
    <3> QED BY <3>1 DEF RowMoves, ExecMoves, NotResumed
  <2> QED BY <2>1, <2>2
<1> QED BY <1>2, <1>3 DEF Tables

LEMMA NoRow ==
  ASSUME IInv, NEW w, UNCHANGED <<row, log>>
  PROVE  Tables(w)
<1>1. row \in [Execs -> RowRec] /\ log \in [Execs -> Seq(EntryRec)]
  BY DEF IInv, Typed
<1> QED BY <1>1 DEF Tables, RowMoves, ExecMoves, NotResumed

(* Events of the steps.                                                     *)
LEMMA TwoInARow ==
  ASSUME NEW s \in EventTypes, NEW t \in EventTypes
  PROVE  <<s>> \o <<t>> = <<s, t>>
<1> DEFINE p == <<s>> \o <<t>>
           q == <<s, t>>
<1>1. <<s>> \in Seq(EventTypes) /\ <<t>> \in Seq(EventTypes) /\ Len(<<s>>) = 1 /\ Len(<<t>>) = 1
  OBVIOUS
<1>2. p \in Seq(EventTypes) /\ Len(p) = 2 /\ p[1] = s /\ p[2] = t
  BY <1>1
<1>3. q \in Seq(EventTypes) /\ Len(q) = 2 /\ q[1] = s /\ q[2] = t
  OBVIOUS
<1> HIDE DEF p, q
<1>4. \A i \in 1..Len(p) : p[i] = q[i]
  BY <1>2, <1>3
<1>5. p = q
  BY <1>2, <1>3, <1>4, SeqEqual
<1> QED BY <1>5 DEF p, q

LEMMA OneEvent ==
  ASSUME NEW old, NEW new, NEW t \in EventTypes, old.status \notin Terminal,
         t \in TerminalTypes <=> new.status \in Terminal
  PROVE  Ends(old, new, <<t>>)
<1>1. <<t>> \in Seq(EventTypes) /\ <<t>> # << >> /\ Len(<<t>>) = 1 /\ <<t>>[1] = t
  OBVIOUS
<1> QED BY <1>1 DEF Ends

LEMMA TwoEvents ==
  ASSUME NEW old, NEW new, NEW s \in EventTypes, NEW t \in EventTypes, old.status \notin Terminal,
         s \notin TerminalTypes, t \in TerminalTypes <=> new.status \in Terminal
  PROVE  Ends(old, new, <<s, t>>)
<1>1. <<s, t>> \in Seq(EventTypes) /\ <<s, t>> # << >> /\ Len(<<s, t>>) = 2
      /\ <<s, t>>[1] = s /\ <<s, t>>[2] = t
  OBVIOUS
<1> QED BY <1>1 DEF Ends

(* A lease is given back.                                                   *)
LEMMA ReleasedOK ==
  ASSUME NEW x \in RowRec, NEW status \in {"queued", "awaiting_signal"} \cup Terminal
  PROVE  /\ Released(x, status) \in RowRec
         /\ Released(x, status).status = status /\ Released(x, status).owner = Nobody
         /\ Released(x, status).checkpoint = x.checkpoint
BY DEF Released, RowRec, RowType, Consistent, Active, Terminal

-----------------------------------------------------------------------------
(* Workers, and a step as a whole.                                          *)

WorkersTyped ==
  /\ worker \in [Workers -> WorkRec]
  /\ \A w \in Workers : worker[w].pc # "idle" => worker[w].exec \in Execs

LEMMA WorkerStep ==
  ASSUME IInv, NEW w \in Workers, Tables(w), NEW k \in WorkRec, k.pc # "idle" => k.exec \in Execs,
         worker' = [worker EXCEPT ![w] = k],
         k.pc \in Looping /\ row'[k.exec].owner = w => k.base = row'[k.exec].checkpoint
  PROVE  WorkersTyped' /\ BaseRead'
<1>1. worker \in [Workers -> WorkRec] /\ \A v \in Workers : worker[v].pc # "idle" => worker[v].exec \in Execs
  BY DEF IInv, Typed
<1>2. WorkersTyped'
  BY <1>1 DEF WorkersTyped
<1>3. BaseRead'
  <2> SUFFICES ASSUME NEW v \in Workers, worker'[v].pc \in Looping, row'[worker'[v].exec].owner = v
               PROVE  worker'[v].base = row'[worker'[v].exec].checkpoint
    BY DEF BaseRead
  <2>1. CASE v = w
    BY <1>1, <2>1
  <2>2. CASE v # w
    <3> DEFINE e == worker[v].exec
    <3>1. worker'[v] = worker[v]
      BY <1>1, <2>2
    <3>2. e \in Execs /\ worker[v].pc \in Looping /\ row'[e].owner = v
      BY <1>1, <3>1 DEF Looping
    <3> HIDE DEF e
    <3>3. v # Nobody
      BY StoreAssumption DEF Nobody
    <3>4. row'[e].owner = row[e].owner /\ row'[e].checkpoint = row[e].checkpoint
      BY <2>2, <3>2, <3>3 DEF Tables, RowMoves
    <3>5. worker[v].base = row[e].checkpoint
      BY <3>2, <3>4 DEF IInv, BaseRead, e
    <3> QED BY <3>1, <3>4, <3>5 DEF e
  <2> QED BY <2>1, <2>2
<1> QED BY <1>2, <1>3

LEMMA WorkersStill ==
  ASSUME IInv, Tables(Nobody), UNCHANGED worker
  PROVE  WorkersTyped' /\ BaseRead'
<1>1. worker \in [Workers -> WorkRec] /\ \A v \in Workers : worker[v].pc # "idle" => worker[v].exec \in Execs
  BY DEF IInv, Typed
<1>2. WorkersTyped'
  BY <1>1 DEF WorkersTyped
<1>3. BaseRead'
  <2> SUFFICES ASSUME NEW v \in Workers, worker[v].pc \in Looping, row'[worker[v].exec].owner = v
               PROVE  worker[v].base = row'[worker[v].exec].checkpoint
    BY DEF BaseRead
  <2> DEFINE e == worker[v].exec
  <2>1. e \in Execs /\ row'[e].owner = v /\ v # Nobody
    BY <1>1, StoreAssumption DEF Looping, Nobody
  <2> HIDE DEF e
  <2>2. row'[e].owner = row[e].owner /\ row'[e].checkpoint = row[e].checkpoint
    BY <2>1 DEF Tables, RowMoves
  <2> QED BY <2>1, <2>2 DEF IInv, BaseRead, e
<1> QED BY <1>2, <1>3

Good == IInv' /\ \A e \in Execs : ReadFirst(e) /\ NotResumed(e)

LEMMA IdleOK == Idle \in WorkRec /\ Idle.pc = "idle"
BY StoreAssumption DEF Idle, WorkRec, Looping

LEMMA StartsKept ==
  ASSUME IInv, \A r \in Requests : ~Fresh(r) => command'[r] = command[r],
         \A e \in Execs : row'[e].status # "unused" => row[e].status # "unused"
  PROVE  OneStartPerRequest'
<1> SUFFICES ASSUME NEW e \in Execs, row'[e].status # "unused"
             PROVE  \E r \in Requests : command'[r].exec = e /\ command'[r].kind \in {"start", "redrive"}
  BY DEF OneStartPerRequest
<1>1. PICK r \in Requests : command[r].exec = e /\ command[r].kind \in {"start", "redrive"}
  BY DEF IInv, OneStartPerRequest
<1>2. command'[r] = command[r]
  BY <1>1 DEF Fresh
<1> QED BY <1>1, <1>2

(* A step that leaves signals, effects and commands alone and neither       *)
(* begins nor concludes an execution.                                       *)
LEMMA QuietStep ==
  ASSUME IInv, NEW w, Tables(w), WorkersTyped', BaseRead',
         UNCHANGED <<signals, effect, command>>, faults' \in 0..MaxFaults,
         \A e \in Execs : /\ row'[e].status # "unused" => row[e].status # "unused"
                          /\ row'[e].status = "succeeded" => row[e].status = "succeeded"
                          /\ row'[e].checkpoint = row[e].checkpoint
  PROVE  Good
<1>1. row' \in [Execs -> RowRec] /\ log' \in [Execs -> Seq(EntryRec)] /\ OneEnding'
  BY TablesOK
<1>2. Typed'
  BY <1>1 DEF IInv, Typed, WorkersTyped
<1>3. SuccessHeardAll'
  BY DEF IInv, SuccessHeardAll
<1>4. OneStartPerRequest'
  BY StartsKept
<1>5. \A e \in Execs : ReadFirst(e) /\ NotResumed(e)
  BY DEF ReadFirst, Tables
<1> QED BY <1>1, <1>2, <1>3, <1>4, <1>5 DEF IInv, Good

(* A driver gives its execution back and rests.                             *)
LEMMA GivesBack ==
  ASSUME IInv, NEW w \in Workers, NEW e \in Execs, NEW x \in RowRec, NEW ts,
         row' = [row EXCEPT ![e] = x], Emit(e, ts), Ends(row[e], x, ts), row[e].lease = "live",
         x.owner = Nobody, x.checkpoint = row[e].checkpoint, x.status \in {"queued", "awaiting_signal", "failed"},
         Rest(w), UNCHANGED <<signals, effect, command, faults>>
  PROVE  Good
<1>1. row \in [Execs -> RowRec] /\ row[e].status = "running"
  BY DEF IInv, Typed, RowRec, Consistent
<1>2. Tables(w)
  <2>1. NotResumed(e)
    BY DEF NotResumed, Expired
  <2> QED BY <2>1, OneRow
<1>3. WorkersTyped' /\ BaseRead'
  <2>1. worker' = [worker EXCEPT ![w] = Idle] /\ Idle.pc \notin Looping
    BY IdleOK DEF Rest, Looping
  <2> QED BY <1>2, <2>1, IdleOK, WorkerStep
<1>4. \A d \in Execs : /\ row'[d].status # "unused" => row[d].status # "unused"
                       /\ row'[d].status = "succeeded" => row[d].status = "succeeded"
                       /\ row'[d].checkpoint = row[d].checkpoint
  BY <1>1
<1>5. faults' \in 0..MaxFaults
  BY DEF IInv, Typed
<1> QED BY <1>2, <1>3, <1>4, <1>5, QuietStep

-----------------------------------------------------------------------------
(* One lemma per action.                                                    *)

LEMMA InitOK == Init => IInv
<1> SUFFICES ASSUME Init PROVE IInv
  OBVIOUS
<1>1. Unused \in RowRec /\ Unused.status = "unused"
  BY DEF Unused, RowRec, RowType, Consistent, Active, Terminal
<1>2. << >> \in Seq(EntryRec) /\ DOMAIN << >> = {}
  BY EmptySeq
<1>3. Typed
  BY <1>1, <1>2, IdleOK, StoreAssumption DEF Init, Typed
<1>4. OneEnding
  BY <1>2 DEF Init, OneEnding
<1>5. SuccessHeardAll /\ OneStartPerRequest
  BY <1>1 DEF Init, SuccessHeardAll, OneStartPerRequest
<1>6. BaseRead
  BY IdleOK DEF Init, BaseRead, Looping
<1> QED BY <1>3, <1>4, <1>5, <1>6 DEF IInv

LEMMA DispatchStep ==
  ASSUME IInv, Tables(Nobody), UNCHANGED <<effect, worker, faults>>,
         signals' \in [Execs -> SUBSET Requests], DOMAIN command' = Requests,
         SuccessHeardAll', OneStartPerRequest',
         \A e \in Execs : row'[e].checkpoint = row[e].checkpoint
  PROVE  Good
<1>1. row' \in [Execs -> RowRec] /\ log' \in [Execs -> Seq(EntryRec)] /\ OneEnding'
  BY TablesOK
<1>2. WorkersTyped' /\ BaseRead'
  BY WorkersStill
<1>3. Typed'
  BY <1>1, <1>2 DEF IInv, Typed, WorkersTyped
<1>4. \A e \in Execs : ReadFirst(e) /\ NotResumed(e)
  BY DEF ReadFirst, Tables
<1> QED BY <1>1, <1>2, <1>3, <1>4 DEF IInv, Good

LEMMA CreateOK ==
  ASSUME IInv, NEW r \in Requests, NEW kind \in {"start", "redrive"}, NEW target,
         NEW s \in Subjects \cup {Nobody}, Create(r, kind, target, s)
  PROVE  Good
<1>1. Fresh(r) /\ UNCHANGED <<signals, effect, worker, faults>>
  BY DEF Create
<1>2. signals \in [Execs -> SUBSET Requests] /\ DOMAIN command = Requests /\ row \in [Execs -> RowRec]
  BY DEF IInv, Typed
<1>3. CASE /\ command' = [command EXCEPT ![r] = [kind |-> kind, target |-> target, exec |-> 0]]
           /\ UNCHANGED <<row, log>>
  <2>1. Tables(Nobody)
    BY <1>3, NoRow
  <2>2. \A q \in Requests : ~Fresh(q) => command'[q] = command[q]
    BY <1>1, <1>2, <1>3
  <2>3. SuccessHeardAll' /\ OneStartPerRequest'
    BY <1>1, <1>3, <2>2, StartsKept DEF IInv, SuccessHeardAll
  <2>4. DOMAIN command' = Requests
    BY <1>2, <1>3
  <2> QED BY <1>1, <1>2, <1>3, <2>1, <2>3, <2>4, DispatchStep
<1>4. CASE /\ Unborn # {}
           /\ LET e == Min(Unborn) IN
                /\ row' = [row EXCEPT ![e] = [Unused EXCEPT !.status = "queued", !.subject = s]]
                /\ Emit(e, <<"started">>)
                /\ command' = [command EXCEPT ![r] = [kind |-> kind, target |-> target, exec |-> e]]
  <2> DEFINE e == Min(Unborn)
             x == [Unused EXCEPT !.status = "queued", !.subject = s]
  <2>1. e \in Unborn
    <3>1. Unborn \in SUBSET Nat
      BY StoreAssumption DEF Unborn, Execs
    <3> QED BY <1>4, <3>1, MinIsMember
  <2>2. /\ row' = [row EXCEPT ![e] = x] /\ Emit(e, <<"started">>)
        /\ command' = [command EXCEPT ![r] = [kind |-> kind, target |-> target, exec |-> e]]
    BY <1>4
  <2> HIDE DEF e
  <2>3. e \in Execs /\ row[e].status = "unused"
    BY <2>1 DEF Unborn
  <2>4. x \in RowRec /\ x.status = "queued" /\ x.owner = Nobody /\ x.checkpoint = 0
    BY DEF Unused, RowRec, RowType, Consistent, Active, Terminal
  <2> HIDE DEF x
  <2>5. row[e].checkpoint = 0
    BY <1>2, <2>3 DEF RowRec, Consistent
  <2>6. Tables(Nobody)
    <3>1. Ends(row[e], x, <<"started">>)
      BY <2>3, <2>4, OneEvent DEF EventTypes, TerminalTypes, Terminal
    <3>2. NotResumed(e)
      BY <2>3 DEF NotResumed, Expired
    <3> QED BY <2>2, <2>3, <2>4, <3>1, <3>2, OneRow
  <2>7. SuccessHeardAll'
    BY <1>1, <1>2, <2>2, <2>4 DEF IInv, SuccessHeardAll
  <2>8. OneStartPerRequest'
    <3> SUFFICES ASSUME NEW d \in Execs, row'[d].status # "unused"
                 PROVE  \E q \in Requests : command'[q].exec = d /\ command'[q].kind \in {"start", "redrive"}
      BY DEF OneStartPerRequest
    <3>1. CASE d = e
      BY <1>2, <2>2, <3>1
    <3>2. CASE d # e
      <4>1. row[d].status # "unused"
        BY <1>2, <2>2, <3>2
      <4>2. PICK q \in Requests : command[q].exec = d /\ command[q].kind \in {"start", "redrive"}
        BY <4>1 DEF IInv, OneStartPerRequest
      <4>3. q # r
        BY <1>1, <4>2 DEF Fresh
      <4> QED BY <1>2, <2>2, <4>2, <4>3
    <3> QED BY <3>1, <3>2
  <2>9. DOMAIN command' = Requests /\ \A d \in Execs : row'[d].checkpoint = row[d].checkpoint
    BY <1>2, <2>2, <2>4, <2>5
  <2> QED BY <1>1, <1>2, <2>6, <2>7, <2>8, <2>9, DispatchStep
<1> QED BY <1>3, <1>4 DEF Create

LEMMA SignalOK ==
  ASSUME IInv, NEW r \in Requests, NEW e \in Execs, DispatchSignal(r, e)
  PROVE  Good
<1>1. /\ Fresh(r) /\ row[e].status \in Active /\ signals' = [signals EXCEPT ![e] = @ \cup {r}]
      /\ Emit(e, <<"signaled">>) /\ UNCHANGED <<row, effect, worker, faults>>
      /\ command' = [command EXCEPT ![r] = [kind |-> "signal", target |-> e, exec |-> e]]
  BY DEF DispatchSignal
<1>2. signals \in [Execs -> SUBSET Requests] /\ DOMAIN command = Requests /\ row \in [Execs -> RowRec]
  BY DEF IInv, Typed
<1>3. Tables(Nobody)
  <2>1. row' = [row EXCEPT ![e] = row[e]]
    BY <1>1, <1>2
  <2>2. Ends(row[e], row[e], <<"signaled">>)
    BY <1>1, OneEvent DEF EventTypes, TerminalTypes, Terminal, Active
  <2>3. NotResumed(e)
    BY <1>1 DEF NotResumed
  <2> QED BY <1>1, <1>2, <2>1, <2>2, <2>3, OneRow
<1>4. signals' \in [Execs -> SUBSET Requests] /\ DOMAIN command' = Requests
  BY <1>1, <1>2
<1>5. SuccessHeardAll'
  BY <1>1, <1>2 DEF IInv, SuccessHeardAll, Active
<1>6. OneStartPerRequest'
  <2>1. \A q \in Requests : ~Fresh(q) => command'[q] = command[q]
    BY <1>1, <1>2
  <2> QED BY <1>1, <2>1, StartsKept
<1> QED BY <1>1, <1>3, <1>4, <1>5, <1>6, DispatchStep

LEMMA CancelOK ==
  ASSUME IInv, NEW r \in Requests, NEW e \in Execs, DispatchCancel(r, e)
  PROVE  Good
<1> DEFINE x == [Released(row[e], "cancelled") EXCEPT !.delayed = row[e].delayed]
<1>1. /\ Fresh(r) /\ row[e].status \in Active /\ row' = [row EXCEPT ![e] = x]
      /\ Emit(e, <<"cancelled">>) /\ UNCHANGED <<signals, effect, worker, faults>>
      /\ command' = [command EXCEPT ![r] = [kind |-> "cancel", target |-> e, exec |-> e]]
  BY DEF DispatchCancel, IInv, Typed
<1>2. signals \in [Execs -> SUBSET Requests] /\ DOMAIN command = Requests /\ row \in [Execs -> RowRec]
  BY DEF IInv, Typed
<1>3. /\ x \in RowRec /\ x.status = "cancelled" /\ x.owner = Nobody
      /\ x.checkpoint = row[e].checkpoint
  BY <1>2 DEF Released, RowRec, RowType, Consistent, Active, Terminal
<1> HIDE DEF x
<1>4. Tables(Nobody)
  <2>1. Ends(row[e], x, <<"cancelled">>)
    BY <1>1, <1>3, OneEvent DEF EventTypes, TerminalTypes, Terminal, Active
  <2>2. NotResumed(e)
    BY <1>1, <1>2, <1>3 DEF NotResumed
  <2> QED BY <1>1, <1>3, <2>1, <2>2, OneRow
<1>5. DOMAIN command' = Requests /\ \A d \in Execs : row'[d].checkpoint = row[d].checkpoint
  BY <1>1, <1>2, <1>3
<1>6. SuccessHeardAll'
  BY <1>1, <1>2, <1>3 DEF IInv, SuccessHeardAll
<1>7. OneStartPerRequest'
  <2>1. \A q \in Requests : ~Fresh(q) => command'[q] = command[q]
    BY <1>1, <1>2
  <2>2. \A d \in Execs : row'[d].status # "unused" => row[d].status # "unused"
    BY <1>1, <1>2, <1>3 DEF Active
  <2> QED BY <2>1, <2>2, StartsKept
<1> QED BY <1>1, <1>2, <1>4, <1>5, <1>6, <1>7, DispatchStep

LEMMA EffectOK ==
  ASSUME IInv, NEW e \in Execs, NEW status \in Effects, RecordToolEffect(e, status)
  PROVE  Good
<1>1. effect' = [effect EXCEPT ![e] = status] /\ UNCHANGED <<row, log, signals, command, worker, faults>>
  BY DEF RecordToolEffect
<1>2. Tables(Nobody)
  BY <1>1, NoRow
<1>3. WorkersTyped' /\ BaseRead'
  BY <1>1, <1>2, WorkersStill
<1>4. Typed'
  BY <1>1, StoreAssumption DEF IInv, Typed
<1>5. OneEnding' /\ SuccessHeardAll' /\ OneStartPerRequest'
  BY <1>1 DEF IInv, OneEnding, SuccessHeardAll, OneStartPerRequest
<1>6. \A d \in Execs : ReadFirst(d) /\ NotResumed(d)
  BY <1>1, <1>2 DEF ReadFirst, Tables
<1> QED BY <1>3, <1>4, <1>5, <1>6 DEF IInv, Good

(* The oldest execution that can be taken is; the expired ones before it    *)
(* are put aside.                                                           *)
LEMMA TakenOK ==
  ASSUME IInv, NEW e \in Execs, NEW w \in Workers
  PROVE  /\ Taken(e, w) \in RowRec /\ Taken(e, w).status = "running"
         /\ Taken(e, w).owner = w /\ Taken(e, w).checkpoint = row[e].checkpoint
<1>1. row[e] \in RowRec /\ w # Nobody
  BY StoreAssumption DEF IInv, Typed, Nobody
<1>2. row[e] \in RowType /\ row[e].attempt + 1 \in Nat /\ row[e].token + 1 \in Nat
  BY <1>1 DEF RowRec, RowType
<1>3. Taken(e, w) \in RowType
  BY <1>2 DEF Taken, RowType, Active
<1>4. /\ Taken(e, w).status = "running" /\ Taken(e, w).owner = w /\ Taken(e, w).lease = "live"
      /\ Taken(e, w).delayed = FALSE /\ Taken(e, w).checkpoint = row[e].checkpoint
  BY <1>2 DEF Taken, RowType
<1> QED BY <1>1, <1>3, <1>4 DEF RowRec, Consistent

LEMMA ClaimNextOK ==
  ASSUME IInv, NEW w \in Workers, ClaimNext(w)
  PROVE  Good
<1>1. PICK e \in Execs :
        /\ Takeable(e) /\ \A d \in 1..(e - 1) : ~Takeable(d)
        /\ row' = [d \in Execs |->
             IF d = e THEN Taken(e, w)
             ELSE IF d < e /\ Expired(d) THEN Released(row[d], "awaiting_signal") ELSE row[d]]
        /\ log' = [d \in Execs |-> log[d] \o Entries(ClaimEvents(d, e))]
        /\ worker' = [worker EXCEPT ![w] = [Idle EXCEPT !.pc = "claimed", !.exec = e,
                                                        !.token = row[e].token + 1]]
  BY DEF ClaimNext
<1>2. UNCHANGED <<signals, effect, command, faults>>
  BY DEF ClaimNext
<1>3. row \in [Execs -> RowRec] /\ log \in [Execs -> Seq(EntryRec)] /\ e \in Nat
  BY StoreAssumption DEF IInv, Typed, Execs
<1>4. row[e].status \in Active
  BY <1>1 DEF Takeable, Expired, Active
<1>5. ASSUME NEW d \in Execs, ~(d < e /\ Expired(d)), d # e
      PROVE  row'[d] = row[d] /\ log'[d] = log[d]
  <2>1. d > e \/ (d < e /\ ~Expired(d))
    BY <1>3, <1>5 DEF Execs
  <2>2. ClaimEvents(d, e) = << >>
    BY <2>1, <1>3, <1>5 DEF ClaimEvents, Execs
  <2>3. log'[d] = log[d] \o Entries(<< >>)
    BY <1>1, <2>2
  <2>4. log'[d] = log[d]
    BY <1>3, <2>3, NoEntries
  <2> QED BY <1>1, <1>5, <2>4
<1>6. ASSUME NEW d \in Execs, d < e, Expired(d)
      PROVE  /\ row'[d] = Released(row[d], "awaiting_signal")
             /\ log'[d] = log[d] \o Entries(<<"recovery_blocked">>)
  <2>1. d \in 1..(e - 1) /\ d # e /\ ~(d > e)
    BY <1>3, <1>6 DEF Execs
  <2>2. ~Takeable(d)
    BY <1>1, <2>1
  <2>3. Uncertain(d)
    BY <1>6, <2>2 DEF Takeable
  <2>4. ClaimEvents(d, e) = <<"recovery_blocked">> \o << >>
    BY <1>6, <2>1, <2>3 DEF ClaimEvents
  <2>5. ClaimEvents(d, e) = <<"recovery_blocked">>
    BY <2>4
  <2>6. log'[d] = log[d] \o Entries(<<"recovery_blocked">>)
    BY <1>1, <2>5
  <2>7. row'[d] = Released(row[d], "awaiting_signal")
    BY <1>1, <1>6, <2>1
  <2> QED BY <2>6, <2>7
<1>7. /\ row'[e] = Taken(e, w)
      /\ \/ log'[e] = log[e] \o Entries(<<"claimed">>)
         \/ log'[e] = log[e] \o Entries(<<"lease_expired", "claimed">>)
         \/ log'[e] = log[e] \o Entries(<<"recovery_blocked", "claimed">>)
  <2>1. \/ ClaimEvents(e, e) = << >> \o <<"claimed">>
        \/ ClaimEvents(e, e) = <<"lease_expired">> \o <<"claimed">>
        \/ ClaimEvents(e, e) = <<"recovery_blocked">> \o <<"claimed">>
    <3>1. ~(e > e)
      BY <1>3
    <3>2. CASE Expired(e) /\ Uncertain(e)
      BY <3>1, <3>2 DEF ClaimEvents
    <3>3. CASE Expired(e) /\ ~Uncertain(e)
      BY <3>1, <3>3 DEF ClaimEvents
    <3>4. CASE ~Expired(e)
      BY <3>1, <3>4 DEF ClaimEvents
    <3> QED BY <3>2, <3>3, <3>4
  <2>2. \/ ClaimEvents(e, e) = <<"claimed">>
        \/ ClaimEvents(e, e) = <<"lease_expired", "claimed">>
        \/ ClaimEvents(e, e) = <<"recovery_blocked", "claimed">>
    BY <2>1
  <2>3. log'[e] = log[e] \o Entries(ClaimEvents(e, e)) /\ row'[e] = Taken(e, w)
    BY <1>1
  <2> QED BY <2>2, <2>3, Zenon
<1>8. Tables(w)
  <2>1. row' = [d \in Execs |-> row'[d]] /\ log' = [d \in Execs |-> log'[d]]
    BY <1>1
  <2>2. ASSUME NEW d \in Execs PROVE RowMoves(w, d) /\ ExecMoves(d) /\ NotResumed(d)
    <3>1. CASE d = e
      <4>1. RowMoves(w, e)
        BY <1>7, TakenOK DEF RowMoves
      <4>2. ExecMoves(e)
        <5>1. /\ Ends(row[e], row'[e], <<"claimed">>)
              /\ Ends(row[e], row'[e], <<"lease_expired", "claimed">>)
              /\ Ends(row[e], row'[e], <<"recovery_blocked", "claimed">>)
          BY <1>4, <1>7, TakenOK, OneEvent, TwoEvents DEF EventTypes, TerminalTypes, Terminal, Active
        <5> QED BY <1>7, <5>1, Zenon DEF ExecMoves
      <4>3. NotResumed(e)
        BY <1>1 DEF NotResumed, Takeable, Expired
      <4> QED BY <3>1, <4>1, <4>2, <4>3
    <3>2. CASE d < e /\ Expired(d)
      <4>1. row[d].status = "running" /\ row[d] \in RowRec
        BY <1>3, <3>2 DEF Expired
      <4>2. /\ row'[d] \in RowRec /\ row'[d].status = "awaiting_signal" /\ row'[d].owner = Nobody
        BY <1>6, <3>2, <4>1, ReleasedOK
      <4>3. Ends(row[d], row'[d], <<"recovery_blocked">>)
        BY <4>1, <4>2, OneEvent DEF EventTypes, TerminalTypes, Terminal
      <4>4. ExecMoves(d)
        BY <1>6, <3>2, <4>3, Zenon DEF ExecMoves
      <4> QED BY <4>2, <4>4 DEF RowMoves, NotResumed
    <3>3. CASE d # e /\ ~(d < e /\ Expired(d))
      BY <1>3, <1>5, <3>3 DEF RowMoves, ExecMoves, NotResumed
    <3> QED BY <3>1, <3>2, <3>3
  <2> QED BY <2>1, <2>2 DEF Tables
<1>9. WorkersTyped' /\ BaseRead'
  <2> DEFINE k == [Idle EXCEPT !.pc = "claimed", !.exec = e, !.token = row[e].token + 1]
  <2>1. row[e].token + 1 \in Nat /\ e \in 0..MaxExecs
    BY <1>3, StoreAssumption DEF RowRec, RowType, Execs
  <2>2. k \in WorkRec /\ k.exec = e /\ k.pc = "claimed"
    BY <2>1 DEF Idle, WorkRec, Looping
  <2>3. worker' = [worker EXCEPT ![w] = k]
    BY <1>1
  <2> HIDE DEF k
  <2> QED BY <1>8, <2>2, <2>3, WorkerStep DEF Looping
<1>10. \A d \in Execs : /\ row'[d].status # "unused" => row[d].status # "unused"
                        /\ row'[d].status = "succeeded" => row[d].status = "succeeded"
                        /\ row'[d].checkpoint = row[d].checkpoint
  <2> TAKE d \in Execs
  <2>1. CASE d = e
    BY <1>4, <1>7, <2>1, TakenOK DEF Active
  <2>2. CASE d < e /\ Expired(d)
    <3>1. row[d] \in RowRec /\ row[d].status = "running"
      BY <1>3, <2>2 DEF Expired
    <3> QED BY <1>6, <2>2, <3>1, ReleasedOK
  <2>3. CASE d # e /\ ~(d < e /\ Expired(d))
    BY <1>5, <2>3
  <2> QED BY <2>1, <2>2, <2>3
<1>11. faults' \in 0..MaxFaults
  BY <1>2 DEF IInv, Typed
<1> QED BY <1>2, <1>8, <1>9, <1>10, <1>11, QuietStep

(* All expired executions are put aside, or queued again at start-up.       *)
LEMMA PutAsideOK ==
  ASSUME IInv, UNCHANGED <<signals, effect, command, worker, faults>>,
         NEW st \in [Execs -> {"awaiting_signal", "queued"}],
         NEW ev \in [Execs -> {"recovery_blocked", "requeued"}],
         row' = [e \in Execs |-> IF Expired(e) THEN Released(row[e], st[e]) ELSE row[e]],
         log' = [e \in Execs |-> IF Expired(e) THEN log[e] \o Entries(<<ev[e]>>) ELSE log[e]]
  PROVE  Good
<1>1. row \in [Execs -> RowRec]
  BY DEF IInv, Typed
<1>2. ASSUME NEW e \in Execs, Expired(e)
      PROVE  /\ row[e].status = "running" /\ row'[e] \in RowRec /\ row'[e].status = st[e]
             /\ row'[e].owner = Nobody /\ row'[e].checkpoint = row[e].checkpoint
             /\ log'[e] = log[e] \o Entries(<<ev[e]>>)
  BY <1>1, <1>2, ReleasedOK DEF Expired
<1>3. ASSUME NEW e \in Execs, ~Expired(e)
      PROVE  row'[e] = row[e] /\ log'[e] = log[e] /\ row[e] \in RowRec
  BY <1>1, <1>3
<1>4. Tables(Nobody)
  <2>1. ASSUME NEW e \in Execs PROVE RowMoves(Nobody, e) /\ ExecMoves(e) /\ NotResumed(e)
    <3>1. CASE Expired(e)
      <4>1. Ends(row[e], row'[e], <<ev[e]>>)
        BY <1>2, <3>1, OneEvent DEF EventTypes, TerminalTypes, Terminal
      <4>2. ExecMoves(e)
        BY <1>2, <3>1, <4>1, Zenon DEF ExecMoves
      <4> QED BY <1>2, <3>1, <4>2 DEF RowMoves, NotResumed
    <3>2. CASE ~Expired(e)
      BY <1>3, <3>2 DEF RowMoves, ExecMoves, NotResumed
    <3> QED BY <3>1, <3>2
  <2>2. row' = [e \in Execs |-> row'[e]] /\ log' = [e \in Execs |-> log'[e]]
    OBVIOUS
  <2> QED BY <2>1, <2>2 DEF Tables
<1>5. WorkersTyped' /\ BaseRead'
  BY <1>4, WorkersStill
<1>6. \A e \in Execs : /\ row'[e].status # "unused" => row[e].status # "unused"
                       /\ row'[e].status = "succeeded" => row[e].status = "succeeded"
                       /\ row'[e].checkpoint = row[e].checkpoint
  BY <1>2, <1>3
<1>7. faults' \in 0..MaxFaults
  BY DEF IInv, Typed
<1> QED BY <1>4, <1>5, <1>6, <1>7, QuietStep

LEMMA ClaimNothingOK ==
  ASSUME IInv, NEW w \in Workers, ClaimNothing(w)
  PROVE  Good
<1> DEFINE st == [e \in Execs |-> "awaiting_signal"]
           ev == [e \in Execs |-> "recovery_blocked"]
<1>1. st \in [Execs -> {"awaiting_signal", "queued"}] /\ ev \in [Execs -> {"recovery_blocked", "requeued"}]
  OBVIOUS
<1>2. row' = [e \in Execs |-> IF Expired(e) THEN Released(row[e], st[e]) ELSE row[e]]
  BY DEF ClaimNothing
<1>3. log' = [e \in Execs |-> IF Expired(e) THEN log[e] \o Entries(<<ev[e]>>) ELSE log[e]]
  BY DEF ClaimNothing
<1>4. UNCHANGED <<signals, effect, command, worker, faults>>
  BY DEF ClaimNothing
<1> HIDE DEF st, ev
<1> QED BY <1>1, <1>2, <1>3, <1>4, PutAsideOK

LEMMA ReconcileOK ==
  ASSUME IInv, Reconcile
  PROVE  Good
<1> DEFINE st == [e \in Execs |-> IF Uncertain(e) THEN "awaiting_signal" ELSE "queued"]
           ev == [e \in Execs |-> IF Uncertain(e) THEN "recovery_blocked" ELSE "requeued"]
<1>1. st \in [Execs -> {"awaiting_signal", "queued"}] /\ ev \in [Execs -> {"recovery_blocked", "requeued"}]
  OBVIOUS
<1>2. row' = [e \in Execs |-> IF Expired(e) THEN Released(row[e], st[e]) ELSE row[e]]
  BY DEF Reconcile
<1>3. log' = [e \in Execs |-> IF Expired(e) THEN log[e] \o Entries(<<ev[e]>>) ELSE log[e]]
  BY DEF Reconcile
<1>4. UNCHANGED <<signals, effect, command, worker, faults>>
  BY DEF Reconcile
<1> HIDE DEF st, ev
<1> QED BY <1>1, <1>2, <1>3, <1>4, PutAsideOK

(* Time: the row keeps its owner and its checkpoint.                        *)
LEMMA TimeOK ==
  ASSUME IInv, NEW e \in Execs, Lapse(e) \/ Due(e)
  PROVE  Good
<1>1. row \in [Execs -> RowRec] /\ faults \in 0..MaxFaults
  BY DEF IInv, Typed
<1>2. UNCHANGED <<log, signals, effect, command, worker>> /\ faults' \in 0..MaxFaults
  BY <1>1, StoreAssumption DEF Lapse, Due, Fault
<1>3. PICK x \in RowRec :
        /\ row' = [row EXCEPT ![e] = x] /\ x.status = row[e].status
        /\ x.owner = row[e].owner /\ x.checkpoint = row[e].checkpoint
  <2>1. CASE Lapse(e)
    <3> DEFINE x == [row[e] EXCEPT !.lease = "lapsed"]
    <3>1. row' = [row EXCEPT ![e] = x] /\ row[e].lease = "live"
      BY <1>1, <2>1 DEF Lapse
    <3>2. /\ x \in RowRec /\ x.status = row[e].status
          /\ x.owner = row[e].owner /\ x.checkpoint = row[e].checkpoint
      BY <1>1, <3>1 DEF RowRec, RowType, Consistent
    <3> QED BY <3>1, <3>2
  <2>2. CASE Due(e)
    <3> DEFINE x == [row[e] EXCEPT !.delayed = FALSE]
    <3>1. row' = [row EXCEPT ![e] = x]
      BY <1>1, <2>2 DEF Due
    <3>2. /\ x \in RowRec /\ x.status = row[e].status
          /\ x.owner = row[e].owner /\ x.checkpoint = row[e].checkpoint
      BY <1>1 DEF RowRec, RowType, Consistent
    <3> QED BY <3>1, <3>2
  <2> QED BY <2>1, <2>2
<1>4. NotResumed(e)
  BY <1>1 DEF NotResumed, Expired, Lapse, Due, RowRec, Consistent
<1>5. Tables(Nobody)
  BY <1>2, <1>3, <1>4, OneRowSilent
<1>6. WorkersTyped' /\ BaseRead'
  BY <1>2, <1>5, WorkersStill
<1>7. \A d \in Execs : /\ row'[d].status # "unused" => row[d].status # "unused"
                       /\ row'[d].status = "succeeded" => row[d].status = "succeeded"
                       /\ row'[d].checkpoint = row[d].checkpoint
  BY <1>1, <1>3
<1> QED BY <1>2, <1>5, <1>6, <1>7, QuietStep

(* Steps of a driver that leave the tables alone.                           *)
LEMMA DriverOnly ==
  ASSUME IInv, NEW w \in Workers, UNCHANGED <<row, log, signals, effect, command>>,
         faults' \in 0..MaxFaults, NEW k \in WorkRec, k.pc # "idle" => k.exec \in Execs,
         worker' = [worker EXCEPT ![w] = k],
         k.pc \in Looping /\ row[k.exec].owner = w => k.base = row[k.exec].checkpoint
  PROVE  Good
<1>1. Tables(w)
  BY NoRow
<1>2. WorkersTyped' /\ BaseRead'
  BY <1>1, WorkerStep
<1> QED BY <1>1, <1>2, QuietStep

LEMMA RestOK ==
  ASSUME IInv, NEW w \in Workers,
         \/ LoseFence(w) \/ Crash(w)
         \/ Rest(w) /\ UNCHANGED <<row, log, signals, effect, command, faults>>
  PROVE  Good
<1>1. /\ UNCHANGED <<row, log, signals, effect, command>> /\ worker' = [worker EXCEPT ![w] = Idle]
      /\ faults' \in 0..MaxFaults
  BY StoreAssumption DEF LoseFence, Crash, Rest, Fault, IInv, Typed
<1> QED BY <1>1, IdleOK, DriverOnly DEF Looping

LEMMA FetchOK ==
  ASSUME IInv, NEW w \in Workers, Fetch(w)
  PROVE  Good
<1> DEFINE e == worker[w].exec
           k == [worker[w] EXCEPT !.pc = "looping", !.seen = signals[e], !.base = row[e].checkpoint]
<1>1. worker[w] \in WorkRec /\ e \in Execs /\ signals[e] \in SUBSET Requests /\ row[e] \in RowRec
  BY DEF Fetch, IInv, Typed
<1>2. row[e].checkpoint \in Nat
  BY <1>1 DEF RowRec, RowType
<1>3. UNCHANGED <<row, log, signals, effect, command>> /\ worker' = [worker EXCEPT ![w] = k]
      /\ faults' \in 0..MaxFaults
  BY DEF Fetch, IInv, Typed
<1>4. k \in WorkRec /\ k.exec = e /\ k.base = row[e].checkpoint
  BY <1>1, <1>2 DEF WorkRec, Looping
<1> HIDE DEF k
<1> QED BY <1>1, <1>3, <1>4, DriverOnly

LEMMA InterruptOK ==
  ASSUME IInv, NEW w \in Workers, Interrupt(w)
  PROVE  Good
<1> DEFINE k == [worker[w] EXCEPT !.pc = "releasing"]
<1>1. /\ worker[w] \in WorkRec /\ worker[w].pc = "looping" /\ worker[w].exec \in Execs
      /\ row[worker[w].exec].owner = w => worker[w].base = row[worker[w].exec].checkpoint
  BY DEF Interrupt, IInv, Typed, BaseRead, Looping
<1>2. UNCHANGED <<row, log, signals, effect, command>> /\ worker' = [worker EXCEPT ![w] = k]
  BY DEF Interrupt, IInv, Typed
<1>3. faults' \in 0..MaxFaults
  BY StoreAssumption DEF Interrupt, Fault, IInv, Typed
<1>4. k \in WorkRec /\ k.exec = worker[w].exec /\ k.base = worker[w].base
  BY <1>1 DEF WorkRec, Looping
<1> HIDE DEF k
<1> QED BY <1>1, <1>2, <1>3, <1>4, DriverOnly

LEMMA RetryOK ==
  ASSUME IInv, NEW w \in Workers, worker[w].pc \in Looping, ScheduleRetry(w)
  PROVE  Good
<1> DEFINE e == worker[w].exec
<1>1. /\ e \in Execs /\ row[e] \in RowRec /\ row[e].status = "running" /\ row[e].lease = "live"
      /\ Rest(w) /\ UNCHANGED <<signals, effect, command, faults>>
  BY DEF ScheduleRetry, Fenced, IInv, Typed, Looping
<1>2. PICK x, ts : /\ x \in RowRec /\ row' = [row EXCEPT ![e] = x] /\ Emit(e, ts)
                   /\ Ends(row[e], x, ts) /\ x.owner = Nobody /\ x.checkpoint = row[e].checkpoint
                   /\ x.status \in {"queued", "awaiting_signal", "failed"}
  <2> DEFINE y == Released(row[e], "awaiting_signal")
             z == Released(row[e], "failed")
             q == [Released(row[e], "queued") EXCEPT !.delayed = TRUE]
  <2>1. \/ row' = [row EXCEPT ![e] = y] /\ Emit(e, <<"recovery_blocked">>)
        \/ row' = [row EXCEPT ![e] = z] /\ Emit(e, <<"dead_lettered">>)
        \/ row' = [row EXCEPT ![e] = q] /\ Emit(e, <<"retry_scheduled">>)
    BY DEF ScheduleRetry, IInv, Typed
  <2>2. /\ y \in RowRec /\ y.owner = Nobody /\ y.checkpoint = row[e].checkpoint /\ y.status = "awaiting_signal"
        /\ z \in RowRec /\ z.owner = Nobody /\ z.checkpoint = row[e].checkpoint /\ z.status = "failed"
    BY <1>1, ReleasedOK DEF Terminal
  <2>3. q \in RowRec /\ q.owner = Nobody /\ q.checkpoint = row[e].checkpoint /\ q.status = "queued"
    BY <1>1 DEF Released, RowRec, RowType, Consistent, Active
  <2> HIDE DEF y, z, q
  <2>4. /\ Ends(row[e], y, <<"recovery_blocked">>) /\ Ends(row[e], z, <<"dead_lettered">>)
        /\ Ends(row[e], q, <<"retry_scheduled">>)
    BY <1>1, <2>2, <2>3, OneEvent DEF EventTypes, TerminalTypes, Terminal
  <2> HIDE DEF e
  <2> QED BY <2>1, <2>2, <2>3, <2>4, Zenon
<1> HIDE DEF e
<1> QED BY <1>1, <1>2, GivesBack

LEMMA RequeueOK ==
  ASSUME IInv, NEW w \in Workers, RequeueClaimed(w)
  PROVE  Good
<1> DEFINE e == worker[w].exec
           x == Released(row[e], "queued")
<1>1. /\ e \in Execs /\ row[e] \in RowRec /\ row[e].status = "running" /\ row[e].lease = "live"
      /\ Rest(w) /\ UNCHANGED <<signals, effect, command, faults>>
      /\ row' = [row EXCEPT ![e] = x] /\ Emit(e, <<"requeued">>)
  BY DEF RequeueClaimed, Fenced, IInv, Typed
<1>2. x \in RowRec /\ x.owner = Nobody /\ x.checkpoint = row[e].checkpoint /\ x.status = "queued"
  BY <1>1, ReleasedOK
<1> HIDE DEF x
<1>3. Ends(row[e], x, <<"requeued">>)
  BY <1>1, <1>2, OneEvent DEF EventTypes, TerminalTypes, Terminal
<1> HIDE DEF e
<1> QED BY <1>1, <1>2, <1>3, GivesBack

(* A commit replaces the checkpoint its driver read, and a success leaves   *)
(* no signal unheard.                                                       *)
LEMMA CommittedOK ==
  ASSUME NEW x \in RowRec, x.status = "running",
         NEW status \in {"queued", "running", "awaiting_signal", "succeeded", "failed"}
  PROVE  /\ Committed(x, status) \in RowRec /\ Committed(x, status).status = status
         /\ Committed(x, status).owner \in {Nobody, x.owner}
<1>1. x.checkpoint + 1 \in Nat
  BY DEF RowRec, RowType
<1>2. CASE status = "running"
  <2>1. Committed(x, status) = [x EXCEPT !.checkpoint = x.checkpoint + 1, !.delayed = FALSE]
    BY <1>2 DEF Committed, RowRec, RowType
  <2> QED BY <1>1, <1>2, <2>1 DEF RowRec, RowType, Consistent
<1>3. CASE status # "running"
  <2> DEFINE y == Released(x, status)
  <2>1. y \in RowRec /\ y.status = status /\ y.owner = Nobody /\ y.checkpoint = x.checkpoint
    BY <1>3, ReleasedOK DEF Terminal
  <2>2. Committed(x, status) = [y EXCEPT !.checkpoint = y.checkpoint + 1, !.delayed = FALSE]
    BY <1>3 DEF Committed, Released, RowRec, RowType
  <2> HIDE DEF y
  <2> DEFINE c == [y EXCEPT !.checkpoint = y.checkpoint + 1, !.delayed = FALSE]
  <2>3. y \in RowType /\ Consistent(y) /\ y.checkpoint + 1 \in Nat
    BY <1>1, <2>1 DEF RowRec
  <2>4. c \in RowType
    BY <2>3 DEF RowType
  <2>5. /\ c.status = status /\ c.owner = Nobody /\ c.lease = y.lease /\ c.delayed = FALSE
        /\ c.checkpoint = y.checkpoint + 1
    BY <2>1, <2>3 DEF RowType
  <2> HIDE DEF c
  <2>6. Consistent(c)
    BY <1>3, <2>1, <2>3, <2>5 DEF Consistent
  <2>7. Committed(x, status) = c
    BY <2>2 DEF c
  <2> QED BY <2>4, <2>5, <2>6, <2>7 DEF RowRec
<1> QED BY <1>2, <1>3

LEMMA CommitOK ==
  ASSUME IInv, NEW w \in Workers, worker[w].pc \in Looping,
         NEW status \in {"queued", "running", "awaiting_signal", "succeeded", "failed"},
         NEW used \in SUBSET worker[w].seen, Commit(w, status, used, <<"frame">>)
  PROVE  Good
<1> DEFINE e == worker[w].exec
<1>1. /\ e \in Execs /\ row \in [Execs -> RowRec] /\ signals \in [Execs -> SUBSET Requests]
      /\ row[e].status = "running" /\ row[e].lease = "live" /\ row[e].owner = w
      /\ worker \in [Workers -> WorkRec] /\ worker[w].base = row[e].checkpoint
  BY DEF Commit, Fenced, IInv, Typed, BaseRead, Looping
<1>2. /\ signals' = [signals EXCEPT ![e] = @ \ used] /\ worker' = [worker EXCEPT ![w] = Idle]
      /\ UNCHANGED <<effect, command, faults>>
  BY DEF Commit, Rest
<1>3. PICK x, ts : /\ x \in RowRec /\ row' = [row EXCEPT ![e] = x] /\ Emit(e, ts)
                   /\ Ends(row[e], x, ts) /\ x.owner \in {Nobody, w} /\ x.status # "unused"
                   /\ x.status = "succeeded" => signals[e] \ used = {}
  <2>1. CASE status \in Terminal /\ Late(e, used) # {}
    <3> DEFINE x == Released(row[e], "queued")
    <3>1. row' = [row EXCEPT ![e] = x] /\ Emit(e, <<"result_deferred">>)
      BY <2>1 DEF Commit
    <3>2. x \in RowRec /\ x.owner = Nobody /\ x.status = "queued"
      BY <1>1, ReleasedOK
    <3> HIDE DEF x
    <3>3. Ends(row[e], x, <<"result_deferred">>)
      BY <1>1, <3>2, OneEvent DEF EventTypes, TerminalTypes, Terminal
    <3> QED BY <3>1, <3>2, <3>3
  <2>2. CASE ~(status \in Terminal /\ Late(e, used) # {})
    <3> DEFINE x == Committed(row[e], status)
               ts == <<"frame">> \o (IF status \in Terminal THEN <<status>> ELSE << >>)
    <3>1. row' = [row EXCEPT ![e] = x] /\ Emit(e, ts)
      BY <2>2 DEF Commit
    <3>2. x \in RowRec /\ x.owner \in {Nobody, w} /\ x.status = status
      BY <1>1, CommittedOK
    <3> HIDE DEF x
    <3>3. Ends(row[e], x, ts)
      <4>1. CASE status \in Terminal
        <5>1. ts = <<"frame", status>>
          <6>1. ts = <<"frame">> \o <<status>> /\ "frame" \in EventTypes /\ status \in EventTypes
            BY <4>1 DEF EventTypes, TerminalTypes, LoopTypes
          <6> HIDE DEF ts
          <6> QED BY <6>1, TwoInARow, Zenon
        <5>2. Ends(row[e], x, <<"frame", status>>)
          BY <1>1, <3>2, <4>1, TwoEvents DEF EventTypes, TerminalTypes, Terminal, LoopTypes
        <5> QED BY <5>1, <5>2
      <4>2. CASE status \notin Terminal
        <5>1. ts = <<"frame">>
          BY <4>2
        <5>2. Ends(row[e], x, <<"frame">>)
          BY <1>1, <3>2, <4>2, OneEvent DEF EventTypes, TerminalTypes, Terminal, LoopTypes
        <5> QED BY <5>1, <5>2
      <4> QED BY <4>1, <4>2
    <3>4. status = "succeeded" => signals[e] \ used = {}
      BY <2>2 DEF Late, Terminal
    <3> HIDE DEF ts
    <3> QED BY <3>1, <3>2, <3>3, <3>4
  <2> QED BY <2>1, <2>2
<1> HIDE DEF e
<1>4. Tables(w)
  <2>1. NotResumed(e)
    BY <1>1 DEF NotResumed, Expired
  <2> QED BY <1>1, <1>3, <2>1, OneRow
<1>5. row' \in [Execs -> RowRec] /\ log' \in [Execs -> Seq(EntryRec)] /\ OneEnding'
  BY <1>4, TablesOK
<1>6. WorkersTyped' /\ BaseRead'
  BY <1>2, <1>4, IdleOK, WorkerStep DEF Looping
<1>7. Typed'
  <2>1. signals' \in [Execs -> SUBSET Requests]
    BY <1>1, <1>2
  <2> QED BY <1>2, <1>5, <1>6, <2>1 DEF IInv, Typed, WorkersTyped
<1>8. SuccessHeardAll'
  <2> SUFFICES ASSUME NEW d \in Execs, row'[d].status = "succeeded" PROVE signals'[d] = {}
    BY DEF SuccessHeardAll
  <2>1. CASE d = e
    BY <1>1, <1>2, <1>3, <2>1
  <2>2. CASE d # e
    BY <1>1, <1>2, <1>3, <2>2 DEF IInv, SuccessHeardAll
  <2> QED BY <2>1, <2>2
<1>9. OneStartPerRequest'
  <2>1. \A d \in Execs : row'[d].status # "unused" => row[d].status # "unused"
    BY <1>1, <1>3
  <2> QED BY <1>2, <2>1, StartsKept
<1>10. \A d \in Execs : ReadFirst(d) /\ NotResumed(d)
  <2> TAKE d \in Execs
  <2>1. CASE d = e
    <3>1. worker'[w] # worker[w]
      BY <1>1, <1>2, IdleOK DEF Looping, Idle
    <3>2. ReadFirst(d)
      BY <1>1, <2>1, <3>1 DEF ReadFirst, e
    <3> QED BY <1>4, <3>2 DEF Tables
  <2>2. CASE d # e
    BY <1>1, <1>3, <1>4, <2>2 DEF ReadFirst, Tables
  <2> QED BY <2>1, <2>2
<1> QED BY <1>5, <1>6, <1>7, <1>8, <1>9, <1>10 DEF IInv, Good

-----------------------------------------------------------------------------
LEMMA StepOK ==
  ASSUME IInv, [Next]_vars
  PROVE  Good
<1>1. CASE UNCHANGED vars
  <2>1. UNCHANGED <<row, log, signals, effect, command, worker, faults>>
    BY <1>1 DEF vars
  <2>2. Tables(Nobody)
    BY <2>1, NoRow
  <2>3. WorkersTyped' /\ BaseRead'
    BY <2>1, <2>2, WorkersStill
  <2>4. faults' \in 0..MaxFaults
    BY <2>1 DEF IInv, Typed
  <2> QED BY <2>1, <2>2, <2>3, <2>4, QuietStep
<1>2. ASSUME NEW r \in Requests, NEW s \in Subjects, DispatchStart(r, s)
      PROVE  Good
  BY <1>2, CreateOK DEF DispatchStart
<1>3. ASSUME NEW r \in Requests, NEW e \in Execs, DispatchRedrive(r, e)
      PROVE  Good
  <2>1. row[e].subject \in Subjects \cup {Nobody}
    BY DEF IInv, Typed, RowRec, RowType
  <2> QED BY <1>3, <2>1, CreateOK DEF DispatchRedrive
<1>4. ASSUME NEW w \in Workers, RunOnce(w) \/ CancelRaises(w)
      PROVE  Good
  <2>1. worker[w].pc \in Looping
    BY <1>4 DEF RunOnce, CancelRaises, Looping
  <2>2. CASE ScheduleRetry(w)
    BY <2>1, <2>2, RetryOK
  <2>3. ASSUME NEW status \in {"queued", "running", "awaiting_signal", "succeeded", "failed"},
               NEW used \in SUBSET worker[w].seen, Commit(w, status, used, <<"frame">>)
        PROVE  Good
    BY <2>1, <2>3, CommitOK
  <2>4. CASE Rest(w) /\ UNCHANGED <<row, log, signals, effect, command, faults>>
    BY <2>4, RestOK
  <2>5. {} \in SUBSET worker[w].seen
    OBVIOUS
  <2> QED BY <1>4, <2>2, <2>3, <2>4, <2>5 DEF RunOnce, CancelRaises
<1>5. CASE Dispatch
  BY <1>2, <1>3, <1>5, SignalOK, CancelOK DEF Dispatch
<1>6. CASE Drive
  <2>1. ASSUME NEW w \in Workers,
               \/ ClaimNext(w) \/ ClaimNothing(w) \/ Fetch(w) \/ RunOnce(w)
               \/ LoseFence(w) \/ Interrupt(w) \/ RequeueClaimed(w) \/ CancelRaises(w) \/ Crash(w)
        PROVE  Good
    BY <1>4, <2>1, ClaimNextOK, ClaimNothingOK, FetchOK, RestOK, InterruptOK, RequeueOK
  <2>2. ASSUME NEW e \in Execs, Lapse(e) \/ Due(e) \/ \E s \in Effects : RecordToolEffect(e, s)
        PROVE  Good
    BY <2>2, TimeOK, EffectOK
  <2> QED BY <1>6, <2>1, <2>2, ReconcileOK DEF Drive
<1> QED BY <1>1, <1>5, <1>6 DEF Next

LEMMA Invariant == Spec => []IInv
<1>1. IInv /\ [Next]_vars => IInv'
  BY StepOK DEF Good
<1> QED BY InitOK, <1>1, PTL DEF Spec

-----------------------------------------------------------------------------
(* Type correctness: rows, events, signals, effects and drivers stay in     *)
(* their sets, and an execution has an owner and a lease exactly while it   *)
(* is running, whatever claims, commits, cancels and recoveries meet.       *)
THEOREM StoreTypeCorrect == Spec => []TypeOK
<1>1. IInv => TypeOK
  <2> SUFFICES ASSUME IInv PROVE TypeOK
    OBVIOUS
  <2>1. ASSUME NEW e \in Execs
        PROVE  /\ row[e].status \in {"unused"} \cup Active \cup Terminal
               /\ row[e].subject \in Subjects \cup {Nobody} /\ row[e].owner \in Workers \cup {Nobody}
               /\ row[e].lease \in {"none", "live", "lapsed"}
               /\ (row[e].status = "running") <=> (row[e].lease # "none")
               /\ (row[e].status = "running") <=> (row[e].owner # Nobody)
    <3>1. row[e] \in RowRec
      BY DEF IInv, Typed
    <3> QED BY <3>1 DEF RowRec, RowType, Consistent
  <2>2. ASSUME NEW e \in Execs
        PROVE  signals[e] \subseteq Requests /\ effect[e] \in DOMAIN Transitions
    BY DEF IInv, Typed, Transitions
  <2>3. ASSUME NEW e \in Execs, NEW n \in DOMAIN log[e]
        PROVE  /\ log[e][n].type \in EventTypes
               /\ log[e][n].state \in {"new", "held", "lapsed", "done"}
    <3>1. log[e] \in Seq(EntryRec)
      BY DEF IInv, Typed
    <3>2. log[e][n] \in EntryRec
      BY <3>1
    <3> QED BY <3>2 DEF EntryRec
  <2>4. ASSUME NEW w \in Workers
        PROVE  worker[w].pc \in {"idle", "claimed", "looping", "releasing"}
    BY DEF IInv, Typed, WorkRec, Looping
  <2>5. faults \in 0..MaxFaults
    BY DEF IInv, Typed
  <2> QED BY <2>1, <2>2, <2>3, <2>4, <2>5 DEF TypeOK
<1> QED BY Invariant, <1>1, PTL

(* However commits, cancels, retries, requeues and recoveries race for an   *)
(* execution, it is over exactly when its last event says so and no event   *)
(* follows that one.                                                        *)
THEOREM EndsOnce == Spec => []OneEnding
<1>1. IInv => OneEnding
  BY DEF IInv
<1> QED BY Invariant, <1>1, PTL

(* commit_loop_result never concludes with success over a signal it has not *)
(* applied, and none is accepted afterwards.                                *)
THEOREM SuccessHearsAll == Spec => []SuccessHeardAll
<1>1. IInv => SuccessHeardAll
  BY DEF IInv
<1> QED BY Invariant, <1>1, PTL

(* Every execution in the table is the recorded answer of a start or a      *)
(* redrive request: a repeated dispatch() creates none.                     *)
THEOREM RequestsStartOnce == Spec => []OneStartPerRequest
<1>1. IInv => OneStartPerRequest
  BY DEF IInv
<1> QED BY Invariant, <1>1, PTL

(* The fence of _assert_fence is enough: whoever replaces a checkpoint had  *)
(* read that very checkpoint after its claim, so no commit is lost to a     *)
(* driver that was stalled, requeued, cancelled or taken over.              *)
THEOREM CommitsAreFenced == Spec => NoLostUpdate
<1> DEFINE Read == \A e \in Execs : row'[e].checkpoint # row[e].checkpoint
                     => \E w \in Workers : /\ worker[w].exec = e /\ worker'[w] # worker[w]
                                           /\ worker[w].base = row[e].checkpoint
<1>1. IInv /\ [Next]_vars => [Read]_vars
  BY StepOK DEF Good, ReadFirst
<1> QED BY Invariant, <1>1, PTL DEF Spec, NoLostUpdate

(* claim_next and reconcile_startup leave an execution whose drive died     *)
(* with an unsettled effect to a signal: no step makes it run again.        *)
THEOREM UncertainStaysBlocked == Spec => BlockedWhileUncertain
<1> DEFINE Blocked == \A e \in Execs : Expired(e) /\ Uncertain(e) /\ signals[e] = {}
                        => row'[e].status # "running" \/ row'[e] = row[e]
<1>1. IInv /\ [Next]_vars => [Blocked]_vars
  BY StepOK DEF Good, NotResumed
<1> QED BY Invariant, <1>1, PTL DEF Spec, BlockedWhileUncertain
=============================================================================
