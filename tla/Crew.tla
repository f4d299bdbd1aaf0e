-------------------------------- MODULE Crew --------------------------------
(***************************************************************************)
(* A Crew project on the execution kernel: the CrewService operations of    *)
(* members, the dispatch of agents, QueryEngineLoopAdapter as the loop of   *)
(* the drivers, and the projection of execution events on the board.        *)
(*                                                                          *)
(* A service operation loads the project, changes its copy and saves it     *)
(* under its version; whatever another writer commits in between makes the  *)
(* save fail.  A projection is one transaction.                             *)
(***************************************************************************)
EXTENDS ExecutionOutbox, CrewBoard

CONSTANTS
  Humans,      \* members whose service operations may overlap
  Messages,    \* channel messages that mention an agent
  MaxVersion   \* bound: project_version

CrewRequests ==
  ({"run"} \X Tasks \X (1..MaxVersion)) \cup ({"say", "steer", "answer"} \X Tasks \X Messages)

(* With one Worker Profile the profile an execution was started for is the  *)
(* assignee exactly when the assignee is an agent.                          *)
ASSUME CrewAssumption ==
  /\ Requests = CrewRequests /\ Subjects = Tasks
  /\ Cardinality(Agents) = 1 /\ MaxVersion \in Nat \ {0}

VARIABLES
  board,    \* the stored project
  version,  \* its project_version
  op,       \* the service operation of each human, and what it dispatches after it
  letters,  \* channel messages that met an active execution, with the signal for it
  mode,     \* what the adapter of each worker found when it began
  asked,    \* checkpoint of each execution: it waits for the answer to a question
  basis     \* the signals its stored checkpoint, or else its artifact, was made from

crewVars == <<board, version, op, letters, mode, asked, basis>>
allVars  == <<vars, outVars, crewVars>>

NoOp == [pc |-> "idle", copy |-> NewBoard, version |-> 0, tasks |-> {}]

CrewInit ==
  /\ Init /\ OutboxInit
  /\ board = NewBoard /\ version = 1
  /\ op    = [h \in Humans |-> NoOp]
  /\ letters = {}
  /\ mode  = [w \in Workers |-> "none"]
  /\ asked = [e \in Execs |-> FALSE]
  /\ basis = [e \in Execs |-> {}]

-----------------------------------------------------------------------------
(* CrewService: load, change the copy, save.                                *)

Change(h, copy, tasks) ==
  /\ op[h].pc = "idle" /\ version < MaxVersion
  /\ op' = [op EXCEPT ![h] = [pc |-> "save", copy |-> copy, version |-> version, tasks |-> tasks]]
  /\ UNCHANGED <<vars, outVars, board, version, letters, mode, asked, basis>>

Assign(h, t, m) ==
  CanAssign(board, t) /\ board[t].assignee # m /\ Change(h, Assigned(board, t, m), {t})
Start(h, t)  == CanStart(board, t) /\ Change(h, Started(board, t), {})
Submit(h, t) ==
  /\ CanSubmit(board, t)
  /\ LET copy == Submitted(board, t, 0) IN Change(h, copy, NewlyActive(board, copy))
(* An approval also hands tasks that became ready to members of their role. *)
Review(h, g, approved) ==
  /\ CanReview(board, g)
  /\ LET copy == Reviewed(board, g, approved)
         open == {t \in NewlyActive(board, copy) \ Gates : copy[t].status = "todo"}
     IN  \E m \in Members \cup {NoMember} :
           Change(h, [t \in Tasks |-> IF t \in open /\ m # NoMember
                                      THEN Assigned(copy, t, m)[t] ELSE copy[t]],
                  NewlyActive(board, copy))

(* save_project: compare and swap on project_version.                       *)
SavesAnyway(h) == version < MaxVersion         \* a fault: the last write wins
Saves(h) == op[h].version = version
Save(h) ==
  /\ op[h].pc = "save"
  /\ IF Saves(h)
     THEN /\ board' = op[h].copy /\ version' = version + 1
          /\ op' = [op EXCEPT ![h].pc = "autorun",
                      ![h].tasks = {t \in @ : Runnable(op[h].copy, t)}]
     ELSE op' = [op EXCEPT ![h] = NoOp] /\ UNCHANGED <<board, version>>
  /\ UNCHANGED <<vars, outVars, letters, mode, asked, basis>>

-----------------------------------------------------------------------------
(* _dispatch_start_execution_sync.  Where the start meets an active         *)
(* execution a message becomes a signal for it, of the kind its snapshot    *)
(* calls for; without a message nothing happens.                            *)

IsAgentTask(t) == board[t].assignee \in Agents
Kind(e) == IF row[e].status = "awaiting_signal" /\ asked[e] THEN "answer" ELSE "steer"

Autorun(h) ==
  /\ op[h].pc = "autorun"
  /\ \/ op[h].tasks = {} /\ op' = [op EXCEPT ![h] = NoOp] /\ UNCHANGED vars
     \/ \E t \in op[h].tasks :
          LET r == <<"run", t, version>> IN
            /\ op' = [op EXCEPT ![h].tasks = @ \ {t}]
            /\ \/ IsAgentTask(t) /\ DispatchStart(r, t)
               \/ (~IsAgentTask(t) \/ ActiveOf(t) # {} \/ ~Fresh(r)) /\ UNCHANGED vars
  /\ UNCHANGED <<outVars, board, version, letters, mode, asked, basis>>

RunAgent(t) ==
  /\ ActiveOf(t) = {} /\ Runnable(board, t)
  /\ DispatchStart(<<"run", t, version>>, t)
  /\ UNCHANGED <<outVars, crewVars>>

Unsaid(m) ==
  /\ \A r \in Requests : r[3] = m /\ r[1] # "run" => Fresh(r)
  /\ \A l \in letters : l[1][3] # m
Say(t, m) ==
  /\ Unsaid(m) /\ IsAgentTask(t) /\ board[t].status \in {"assigned", "rework", "running"}
  /\ \/ DispatchStart(<<"say", t, m>>, t) /\ UNCHANGED letters
     \/ /\ \E e \in ActiveOf(t) : letters' = letters \cup {<<<<Kind(e), t, m>>, e>>}
        /\ UNCHANGED vars
  /\ UNCHANGED <<outVars, board, version, op, mode, asked, basis>>

(* The signal is a transaction of its own.  One whose execution is over by  *)
(* then is never stored: TerminalStateError is logged, the message is gone. *)
Signal(r, e) ==
  /\ <<r, e>> \in letters
  /\ DispatchSignal(r, e)
  /\ UNCHANGED <<outVars, crewVars>>

-----------------------------------------------------------------------------
(* QueryEngineLoopAdapter.run.  It raises nothing but its cancellation, so  *)
(* CancelRaises of the driver does not occur.                               *)

Answers(seen) == {r \in seen : r[1] = "answer"}
Steers(seen)  == {r \in seen : r[1] = "steer"}

Mode(e, seen) ==
  LET status == board[row[e].subject].status IN
    IF asked[e] /\ Answers(seen) = {} THEN "ask again"
    ELSE IF ~asked[e] /\ Answers(seen) # {} THEN "park"
    ELSE IF ~IsAgentTask(row[e].subject) THEN "refuse"
    ELSE IF status \in Past THEN (IF seen = {} THEN "skip" ELSE "park")
    ELSE IF status \notin {"assigned", "running", "rework"} THEN "refuse"
    ELSE "run"

AdapterBegin(w) ==
  /\ Fetch(w)
  /\ mode' = [mode EXCEPT ![w] = Mode(worker[w].exec, signals[worker[w].exec])]
  /\ UNCHANGED <<outVars, board, version, op, letters, asked, basis>>

(* A resumed loop applies one answer and every steer, another one all it    *)
(* was given.                                                               *)
Applied(w) ==
  LET seen == worker[w].seen IN
    IF asked[worker[w].exec]
    THEN Steers(seen) \cup {CHOOSE r \in Answers(seen) : TRUE}
    ELSE seen

Conclude(w, status, used, events) ==
  LET e == worker[w].exec
      kept == ~(status \in Terminal /\ Late(e, used) # {})
  IN  /\ Commit(w, status, used, events)
      /\ asked' = [asked EXCEPT ![e] = IF ~kept THEN @ ELSE IF events = <<"question">> THEN TRUE
                                       ELSE @ /\ status # "succeeded"]
      /\ basis' = [basis EXCEPT ![e] = IF kept THEN (IF asked[e] THEN @ ELSE {}) \cup used ELSE @]
      /\ mode' = [mode EXCEPT ![w] = "none"]
      /\ UNCHANGED <<outVars, board, version, op, letters>>

AdapterReturn(w) ==
  /\ worker[w].pc = "looping"
  /\ \/ mode[w] = "ask again" /\ Conclude(w, "awaiting_signal", {}, <<"question">>)
     \/ mode[w] = "park"      /\ Conclude(w, "awaiting_signal", {}, <<"frame">>)
     \/ mode[w] = "skip"      /\ Conclude(w, "succeeded", {}, <<"frame">>)
     \/ mode[w] = "refuse"    /\ Conclude(w, "failed", {}, <<"agent_blocked">>)
     \/ mode[w] = "run"       /\ \/ Conclude(w, "succeeded", Applied(w), <<"artifact">>)
                                 \/ Conclude(w, "awaiting_signal", Applied(w), <<"question">>)
                                 \/ Conclude(w, "failed", Applied(w), <<"agent_blocked">>)
                                 \/ Conclude(w, "failed", {}, <<"agent_blocked">>)

-----------------------------------------------------------------------------
(* CrewExecutionProjector.project_event.                                    *)

(* Besides the board _task_state compares run_started_at and blocker: a     *)
(* claim or a block may set nothing else.  Questions and retries count as   *)
(* a change in any case.                                                    *)
Changes(t, type) == board[t].status \notin Past /\ type \in {"question", "retry_scheduled"}
MayChange(t, type) ==
  board[t].status \notin Past /\ type \in {"claimed", "agent_blocked", "recovery_blocked"}

ProjectEvent(p) ==
  /\ Project(p)
  /\ \E x \in proj'[p].acking :
       LET e == x[1]  t == row[e].subject  type == log[e][x[2]].type IN
         IF IsNew(x)
         THEN /\ ~Refuses(board, t, type) /\ version < MaxVersion
              /\ board' = Projected(board, t, e, type)
              /\ version' \in {version, version + 1}
              /\ board' # board \/ Changes(t, type) => version' # version
              /\ version' # version => board' # board \/ Changes(t, type) \/ MayChange(t, type)
         ELSE UNCHANGED <<board, version>>
  /\ UNCHANGED <<op, letters, mode, asked, basis>>

(* The lifecycle refuses the event: it stays at the head of its execution's *)
(* outbox.                                                                  *)
ProjectRefused(p) ==
  /\ proj[p].acking = {}
  /\ \E x \in proj[p].todo :
       /\ IsNew(x) /\ Refuses(board, row[x[1]].subject, log[x[1]][x[2]].type)
       /\ proj' = [proj EXCEPT ![p].todo = @ \ {x}]
  /\ UNCHANGED <<row, log, signals, effect, command, worker, applied, faults, crewVars>>

-----------------------------------------------------------------------------
ServiceStep ==
  \E h \in Humans :
    \/ \E t \in Tasks : \/ Start(h, t) \/ Submit(h, t) \/ \E m \in Members : Assign(h, t, m)
    \/ \E g \in Gates, approved \in BOOLEAN : Review(h, g, approved)
    \/ Save(h) \/ Autorun(h)
DispatchStep ==
  \/ \E t \in Tasks : RunAgent(t) \/ \E m \in Messages : Say(t, m)
  \/ \E r \in Requests, e \in Execs : Signal(r, e)
Claim(w) == ClaimNext(w) /\ \A e \in Execs : row'[e].token <= MaxClaims
DriveStep ==
  \/ \E w \in Workers : AdapterBegin(w) \/ AdapterReturn(w)
  \/ /\ \/ \E w \in Workers : Claim(w) \/ LoseFence(w) \/ Interrupt(w) \/ RequeueClaimed(w) \/ Crash(w)
        \/ \E e \in Execs : Lapse(e)
     /\ UNCHANGED <<outVars, crewVars>>
DeliverStep ==
  \/ \E p \in Projectors : ProjectEvent(p) \/ ProjectRefused(p)
  \/ Deliver /\ UNCHANGED crewVars

CrewNext == ServiceStep \/ DispatchStep \/ DriveStep \/ DeliverStep
CrewSpec == CrewInit /\ [][CrewNext]_allVars

-----------------------------------------------------------------------------
(* The board and the copies of it stay boards.                              *)
BoardOK ==
  /\ version \in 1..MaxVersion
  /\ \A t \in Tasks : /\ board[t].status \in Statuses /\ board[t].assignee \in Members \cup {NoMember}
                      /\ board[t].run \in 0..MaxExecs
                      /\ \A i \in DOMAIN board[t].artifacts : board[t].artifacts[i] \in 0..MaxExecs
                      /\ t \in Gates => board[t].assignee = NoMember /\ board[t].artifacts = << >>

(* Work never gets past its gate: a task is under way, handed in or done    *)
(* only when all it depends on is done, and reviewed work is done exactly   *)
(* when a gate of it is; whoever moved it, a member or an execution.        *)
GatesHold ==
  /\ \A t \in Tasks \ Gates : board[t].status \in {"running", "rework"} \cup Past
                              => \A d \in Deps[t] : board[d].status = "done"
  /\ \A g \in Gates :
       LET t == Reviews[g] IN
         (board[t].status = "done") <=> \E h \in Gates : Reviews[h] = t /\ board[h].status = "done"

(* The artifacts of a task are those its executions produced, each once: an *)
(* artifact is on the board exactly when its event has been projected, on   *)
(* the task of its execution, whatever is repeated, crashes or saves a      *)
(* stale copy.                                                              *)
ArtifactEvents(e) == {n \in DOMAIN log[e] : log[e][n].type = "artifact"}
ArtifactOnce ==
  \A e \in Execs, t \in Tasks :
    Cardinality({i \in DOMAIN board[t].artifacts : board[t].artifacts[i] = e})
      = IF row[e].subject = t THEN Cardinality(ArtifactEvents(e) \cap Range(applied[e])) ELSE 0

(* No step of anybody takes an artifact version away, adds two, or reopens  *)
(* a finished task.                                                         *)
HistoryKept ==
  [][\A t \in Tasks :
       LET old == board[t].artifacts  new == board'[t].artifacts IN
         /\ Len(new) \in {Len(old), Len(old) + 1} /\ IsPrefix(old, new)
         /\ board[t].status = "done" => board'[t].status = "done"]_allVars

(* What the Crew plan accepts P3 by: no instruction given to a running      *)
(* worker is lost, so an artifact was made from all signals its execution   *)
(* had been sent.                                                           *)
SignalsTo(e) == {r \in Requests : command[r].kind = "signal" /\ command[r].exec = e}
SteersKept ==
  \A e \in Execs : row[e].status = "succeeded" /\ ArtifactEvents(e) # {}
                     => basis[e] = SignalsTo(e)
=============================================================================
