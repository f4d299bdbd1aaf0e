----------------------------- MODULE CrewProofs -----------------------------
(***************************************************************************)
(* Theorems about Crew, for any tasks, gates, members, messages, workers    *)
(* and projectors and any number of crashes, lapses and failed projections. *)
(***************************************************************************)
EXTENDS Crew, NatMin, SequenceTheorems, FiniteSetTheorems, TLAPS

-----------------------------------------------------------------------------
(* Boards.                                                                  *)

TaskRec == [status : Statuses, assignee : Members \cup {NoMember}, run : 0..MaxExecs,
            artifacts : Seq(0..MaxExecs)]
Boards  == {b \in [Tasks -> TaskRec] :
              \A g \in Gates : b[g].assignee = NoMember /\ b[g].artifacts = << >>}

InWork  == {"running", "rework"} \cup Past
DepsDone(b, t) == \A d \in Deps[t] : b[d].status = "done"
IsReviewed(t)  == \E g \in Gates : Reviews[g] = t
Gated(b) ==
  /\ \A t \in Tasks \ Gates : b[t].status \in InWork => DepsDone(b, t)
  /\ \A g \in Gates : (b[Reviews[g]].status = "done")
                        <=> \E h \in Gates : Reviews[h] = Reviews[g] /\ b[h].status = "done"

(* How the status of a task may change: not at all, back to waiting, ahead  *)
(* into work or to its end once all it depends on is done, and to its end   *)
(* together with its gate.                                                  *)
Approves(b, c, g) ==
  /\ b[g].status # "done" /\ b[Reviews[g]].status = "submitted"
  /\ c[g].status = "done" /\ c[Reviews[g]].status = "done"
Advances(b, c, t) ==
  \/ c[t].status = b[t].status
  \/ b[t].status # "done" /\ c[t].status \in {"todo", "blocked", "assigned"}
  \/ /\ t \notin Gates /\ b[t].status # "done" /\ DepsDone(b, t)
     /\ c[t].status \in InWork /\ (c[t].status = "done" => ~IsReviewed(t))
  \/ \E g \in Gates : t \in {g, Reviews[g]} /\ Approves(b, c, g)
Moves(b, c) == \A t \in Tasks : Advances(b, c, t)

LEMMA GatedKept ==
  ASSUME NEW b, NEW c, Gated(b), Moves(b, c)
  PROVE  Gated(c) /\ \A t \in Tasks : b[t].status = "done" => c[t].status = "done"
<1>0. /\ Gates \subseteq Tasks /\ Deps \in [Tasks -> SUBSET Tasks]
      /\ Reviews \in [Gates -> Tasks \ Gates]
  BY BoardAssumption
<1>1. ASSUME NEW t \in Tasks, b[t].status = "done" PROVE c[t].status = "done"
  BY <1>1 DEF Moves, Advances, Approves
<1>2. ASSUME NEW t \in Tasks \ Gates, c[t].status \in InWork PROVE DepsDone(c, t)
  <2>1. DepsDone(b, t)
    <3>1. Advances(b, c, t)
      BY DEF Moves
    <3>2. CASE c[t].status = b[t].status
      BY <1>2, <3>2 DEF Gated
    <3>3. CASE \E g \in Gates : t \in {g, Reviews[g]} /\ Approves(b, c, g)
      BY <3>3 DEF Approves, Gated, InWork, Past
    <3> QED BY <1>2, <3>1, <3>2, <3>3 DEF Advances, InWork, Past
  <2> QED BY <1>0, <1>1, <2>1 DEF DepsDone
<1>3. ASSUME NEW g \in Gates
      PROVE  (c[Reviews[g]].status = "done")
               <=> \E h \in Gates : Reviews[h] = Reviews[g] /\ c[h].status = "done"
  <2> DEFINE t == Reviews[g]
  <2>0. t \in Tasks \ Gates /\ IsReviewed(t)
    BY <1>0 DEF IsReviewed
  <2>1. ASSUME c[t].status = "done"
        PROVE  \E h \in Gates : Reviews[h] = t /\ c[h].status = "done"
    <3>1. CASE b[t].status = "done"
      <4>1. PICK h \in Gates : Reviews[h] = t /\ b[h].status = "done"
        BY <3>1 DEF Gated
      <4> QED BY <1>0, <1>1, <4>1
    <3>2. CASE b[t].status # "done"
      <4>1. PICK h \in Gates : t \in {h, Reviews[h]} /\ Approves(b, c, h)
        BY <2>0, <2>1, <3>2 DEF Moves, Advances
      <4> QED BY <2>0, <4>1 DEF Approves
    <3> QED BY <3>1, <3>2
  <2>2. ASSUME NEW h \in Gates, Reviews[h] = t, c[h].status = "done"
        PROVE  c[t].status = "done"
    <3>1. CASE b[h].status = "done"
      <4>1. b[t].status = "done"
        BY <2>2, <3>1 DEF Gated
      <4> QED BY <1>1, <2>0, <4>1
    <3>2. CASE b[h].status # "done"
      <4>1. PICK k \in Gates : h \in {k, Reviews[k]} /\ Approves(b, c, k)
        BY <1>0, <2>2, <3>2 DEF Moves, Advances
      <4>2. k = h
        BY <1>0, <4>1
      <4> QED BY <2>2, <4>1, <4>2 DEF Approves
    <3> QED BY <3>1, <3>2
  <2> QED BY <2>1, <2>2
<1> QED BY <1>1, <1>2, <1>3 DEF Gated

LEMMA BoardFacts ==
  /\ Gates \subseteq Tasks /\ Agents \subseteq Members /\ NoMember \notin Members
  /\ Deps \in [Tasks -> SUBSET Tasks] /\ Reviews \in [Gates -> Tasks \ Gates]
  /\ MaxExecs \in Nat /\ MaxVersion \in Nat \ {0} /\ Subjects = Tasks
BY BoardAssumption, StoreAssumption, CrewAssumption

(* What a service operation makes of the board it loaded.                   *)
SameOrMore(s, u, e) == u = s \/ u = Append(s, e)
Served(b, c) ==
  /\ c \in Boards /\ Moves(b, c)
  /\ \A t \in Tasks : SameOrMore(b[t].artifacts, c[t].artifacts, 0)


(* One task is changed.                                                     *)
Goes(b, t, s) ==
  \/ s = b[t].status
  \/ b[t].status # "done" /\ s \in {"todo", "blocked", "assigned"}
  \/ /\ t \notin Gates /\ b[t].status # "done" /\ DepsDone(b, t)
     /\ s \in InWork /\ (s = "done" => ~IsReviewed(t))

Puts(b, t, r, c) ==
  c \in Boards /\ Moves(b, c) /\ \A u \in Tasks : c[u] = IF u = t THEN r ELSE b[u]

LEMMA OneTask ==
  ASSUME NEW b \in Boards, NEW t \in Tasks, NEW r \in TaskRec, Goes(b, t, r.status),
         t \in Gates => r.assignee = NoMember /\ r.artifacts = << >>
  PROVE  Puts(b, t, r, [b EXCEPT ![t] = r])
<1> DEFINE c == [b EXCEPT ![t] = r]
<1>1. b \in [Tasks -> TaskRec] /\ \A g \in Gates : b[g].assignee = NoMember /\ b[g].artifacts = << >>
  BY DEF Boards
<1>2. c \in [Tasks -> TaskRec] /\ \A u \in Tasks : c[u] = IF u = t THEN r ELSE b[u]
  BY <1>1
<1>3. \A g \in Gates : c[g].assignee = NoMember /\ c[g].artifacts = << >>
  BY <1>1, <1>2, BoardFacts
<1>4. Moves(b, c)
  BY <1>2 DEF Moves, Advances, Goes
<1> QED BY <1>2, <1>3, <1>4 DEF Boards, Puts

LEMMA TaskFields ==
  ASSUME NEW b \in Boards, NEW t \in Tasks
  PROVE  /\ b[t] \in TaskRec /\ b[t].status \in Statuses /\ b[t].run \in 0..MaxExecs
         /\ b[t].assignee \in Members \cup {NoMember} /\ b[t].artifacts \in Seq(0..MaxExecs)
         /\ b[t] = [status |-> b[t].status, assignee |-> b[t].assignee, run |-> b[t].run,
                    artifacts |-> b[t].artifacts]
         /\ t \in Gates => b[t].assignee = NoMember /\ b[t].artifacts = << >>
BY DEF Boards, TaskRec

(* Making waiting tasks ready, or noting an execution, moves no work.       *)
Readies(c, d) ==
  /\ d \in [Tasks -> TaskRec]
  /\ \A t \in Tasks :
       /\ d[t].artifacts = c[t].artifacts /\ (t \in Gates => d[t].assignee = c[t].assignee)
       /\ \/ d[t].status = c[t].status
          \/ c[t].status \in {"todo", "blocked"} /\ d[t].status \in {"todo", "assigned"}

LEMMA ReadiedMoves ==
  ASSUME NEW b \in Boards, NEW c \in Boards, Moves(b, c), NEW d, Readies(c, d)
  PROVE  d \in Boards /\ Moves(b, d)
<1>4. \A g \in Gates : d[g].assignee = NoMember /\ d[g].artifacts = << >>
  BY BoardFacts, TaskFields DEF Readies
<1>5. ASSUME NEW t \in Tasks PROVE Advances(b, d, t)
  <2>1. Advances(b, c, t)
    BY DEF Moves
  <2>2. CASE c[t].status \in {"todo", "blocked"} /\ d[t].status \in {"todo", "assigned"}
    BY <2>1, <2>2 DEF Advances, Approves, InWork, Past
  <2>3. CASE d[t].status = c[t].status
    <3>2. ASSUME NEW g \in Gates, t \in {g, Reviews[g]}, Approves(b, c, g) PROVE Approves(b, d, g)
      <4>1. g \in Tasks /\ Reviews[g] \in Tasks
        BY BoardFacts
      <4> QED BY <3>2, <4>1 DEF Approves, Readies
    <3> QED BY <2>1, <2>3, <3>2 DEF Advances
  <2> QED BY <2>2, <2>3 DEF Readies
<1> QED BY <1>4, <1>5 DEF Boards, Moves, Readies

LEMMA RecomputedReadies ==
  ASSUME NEW c \in Boards
  PROVE  Readies(c, Recomputed(c))
<1> DEFINE d == Recomputed(c)
<1>1. ASSUME NEW t \in Tasks
      PROVE  /\ d[t] \in TaskRec /\ d[t].artifacts = c[t].artifacts
             /\ d[t].assignee = c[t].assignee
             /\ d[t].status = c[t].status
                \/ (c[t].status = "blocked" /\ d[t].status \in {"todo", "assigned"})
  BY TaskFields DEF Recomputed, TaskRec, Statuses
<1>2. d = [t \in Tasks |-> d[t]]
  BY DEF Recomputed
<1>3. d \in [Tasks -> TaskRec]
  <2> HIDE DEF d
  <2> QED BY <1>1, <1>2
<1> QED BY <1>1, <1>3 DEF Readies

-----------------------------------------------------------------------------
(* The service operations.                                                  *)

LEMMA AssignedServed ==
  ASSUME NEW b \in Boards, NEW t \in Tasks, NEW m \in Members, CanAssign(b, t)
  PROVE  Served(b, Assigned(b, t, m))
<1> DEFINE r == [b[t] EXCEPT !.assignee = m, !.status = IF @ = "todo" THEN "assigned" ELSE @]
           c == Assigned(b, t, m)
<1>1. r \in TaskRec /\ r.artifacts = b[t].artifacts
  BY TaskFields DEF TaskRec, Statuses
<1>2. Goes(b, t, r.status) /\ t \notin Gates
  BY TaskFields DEF Goes, CanAssign
<1>3. c = [b EXCEPT ![t] = r]
  BY DEF Assigned, Boards
<1>4. Puts(b, t, r, c)
  <2> HIDE DEF c, r
  <2> QED BY <1>1, <1>2, <1>3, OneTask
<1> QED BY <1>1, <1>4 DEF Puts, Served, SameOrMore

LEMMA StartedServed ==
  ASSUME NEW b \in Boards, Gated(b), NEW t \in Tasks, CanStart(b, t)
  PROVE  Served(b, Started(b, t)) /\ DepsDone(b, t)
<1> DEFINE r == [b[t] EXCEPT !.status = "running"]
           c == Started(b, t)
<1>1. r \in TaskRec /\ r.artifacts = b[t].artifacts /\ r.status = "running"
  BY TaskFields DEF TaskRec, Statuses
<1>0. t \notin Gates /\ b[t].status # "done" /\ DepsDone(b, t)
  BY DEF CanStart, DepsSatisfied, DepsDone, Gated, InWork
<1>2. Goes(b, t, r.status)
  BY <1>0, <1>1 DEF Goes, InWork
<1>3. c = [b EXCEPT ![t] = r]
  BY DEF Started, SetStatus, Boards
<1>4. Puts(b, t, r, c)
  <2> HIDE DEF c, r
  <2> QED BY <1>0, <1>1, <1>2, <1>3, OneTask
<1> QED BY <1>0, <1>1, <1>4 DEF Puts, Served, SameOrMore

(* An artifact is handed in: by a member, or by an execution which starts   *)
(* the task on the way.                                                     *)
HandedIn(b, t, p) ==
  [b[t] EXCEPT !.artifacts = Append(@, p), !.status = IF IsReviewed(t) THEN "submitted" ELSE "done"]

LEMMA HandedInMoves ==
  ASSUME NEW b \in Boards, NEW t \in Tasks \ Gates, NEW p \in 0..MaxExecs,
         b[t].status # "done", DepsDone(b, t)
  PROVE  LET c == Recomputed([b EXCEPT ![t] = HandedIn(b, t, p)]) IN
           /\ c \in Boards /\ Moves(b, c)
           /\ \A u \in Tasks : c[u].artifacts = IF u = t THEN Append(b[u].artifacts, p)
                                               ELSE b[u].artifacts
<1> DEFINE r == HandedIn(b, t, p)
           d == [b EXCEPT ![t] = r]
<1>1. r \in TaskRec /\ r.artifacts = Append(b[t].artifacts, p)
  <2>0. t \in Tasks /\ b[t].artifacts \in Seq(0..MaxExecs)
    BY TaskFields
  <2>1. Append(b[t].artifacts, p) \in Seq(0..MaxExecs)
    BY <2>0, AppendProperties
  <2> QED BY <2>1, TaskFields DEF HandedIn, TaskRec, Statuses, Past
<1>2. Goes(b, t, r.status)
  BY TaskFields DEF HandedIn, Goes, InWork, Past
<1>3. Puts(b, t, r, d)
  <2> HIDE DEF r
  <2> QED BY <1>1, <1>2, OneTask
<1>4. d \in Boards /\ Moves(b, d) /\ \A u \in Tasks : d[u] = IF u = t THEN r ELSE b[u]
  BY <1>3 DEF Puts
<1> HIDE DEF d, r
<1>5. Readies(d, Recomputed(d))
  BY <1>4, RecomputedReadies
<1>6. Recomputed(d) \in Boards /\ Moves(b, Recomputed(d))
  BY <1>4, <1>5, ReadiedMoves
<1>7. \A u \in Tasks : Recomputed(d)[u].artifacts = IF u = t THEN Append(b[u].artifacts, p)
                                                   ELSE b[u].artifacts
  BY <1>1, <1>4, <1>5 DEF Readies
<1> QED BY <1>6, <1>7 DEF d, r

LEMMA SubmittedIs ==
  ASSUME NEW b \in Boards, NEW t \in Tasks, NEW p
  PROVE  Submitted(b, t, p) = Recomputed([b EXCEPT ![t] = HandedIn(b, t, p)])
<1>1. [b EXCEPT ![t].artifacts = Append(@, p),
                ![t].status = IF \E g \in Gates : Reviews[g] = t THEN "submitted" ELSE "done"]
        = [b EXCEPT ![t] = HandedIn(b, t, p)]
  BY TaskFields DEF HandedIn, IsReviewed, Boards, TaskRec
<1> QED BY <1>1 DEF Submitted

LEMMA SubmittedServed ==
  ASSUME NEW b \in Boards, Gated(b), NEW t \in Tasks, CanSubmit(b, t)
  PROVE  Served(b, Submitted(b, t, 0))
<1>1. t \in Tasks \ Gates /\ b[t].status # "done" /\ DepsDone(b, t)
  BY DEF CanSubmit, Gated, InWork
<1>2. 0 \in 0..MaxExecs
  BY BoardFacts
<1> DEFINE c == Recomputed([b EXCEPT ![t] = HandedIn(b, t, 0)])
<1>3. /\ c \in Boards /\ Moves(b, c)
      /\ \A u \in Tasks : c[u].artifacts = IF u = t THEN Append(b[u].artifacts, 0)
                                          ELSE b[u].artifacts
  BY <1>1, <1>2, HandedInMoves
<1>4. Submitted(b, t, 0) = c
  BY SubmittedIs
<1> HIDE DEF c
<1> QED BY <1>3, <1>4 DEF Served, SameOrMore

LEMMA ReviewedMoves ==
  ASSUME NEW b \in Boards, Gated(b), NEW g \in Gates, CanReview(b, g), NEW approved \in BOOLEAN
  PROVE  LET c == Reviewed(b, g, approved) IN
           c \in Boards /\ Moves(b, c) /\ \A t \in Tasks : c[t].artifacts = b[t].artifacts
<1> DEFINE t == Reviews[g]
           d == [b EXCEPT ![g].status = IF approved THEN "done" ELSE "blocked",
                          ![t].status = IF approved THEN "done" ELSE "rework"]
<1>0. g \in Tasks /\ t \in Tasks \ Gates /\ g # t
  BY BoardFacts
<1>1. b[g].status # "done" /\ b[t].status = "submitted" /\ DepsDone(b, t)
  <2>1. b[g].status # "done" /\ b[t].status = "submitted"
    BY DEF CanReview
  <2> QED BY <1>0, <2>1 DEF Gated, InWork, Past
<1>2. d \in [Tasks -> TaskRec]
  <2>1. \A u \in Tasks, s \in Statuses : [b[u] EXCEPT !.status = s] \in TaskRec
    BY TaskFields DEF TaskRec
  <2>2. {"done", "blocked", "rework"} \subseteq Statuses
    BY DEF Statuses, Past
  <2>3. d = [u \in Tasks |->
               IF u = g THEN [b[u] EXCEPT !.status = IF approved THEN "done" ELSE "blocked"]
               ELSE IF u = t THEN [b[u] EXCEPT !.status = IF approved THEN "done" ELSE "rework"]
               ELSE b[u]]
    BY <1>0 DEF Boards
  <2> HIDE DEF d
  <2> QED BY <2>1, <2>2, <2>3, TaskFields
<1>3. \A u \in Tasks : /\ d[u].artifacts = b[u].artifacts /\ d[u].assignee = b[u].assignee
                       /\ d[u].status = IF u = g THEN (IF approved THEN "done" ELSE "blocked")
                                        ELSE IF u = t THEN (IF approved THEN "done" ELSE "rework")
                                        ELSE b[u].status
  BY <1>0 DEF Boards, TaskRec
<1>4. d \in Boards
  BY <1>2, <1>3, BoardFacts DEF Boards
<1>5. Moves(b, d)
  <2> SUFFICES ASSUME NEW u \in Tasks PROVE Advances(b, d, u)
    BY DEF Moves
  <2> HIDE DEF d
  <2>1. CASE u \notin {g, t}
    BY <1>3, <2>1 DEF Advances
  <2>2. CASE u \in {g, t} /\ approved
    <3>1. Approves(b, d, g)
      BY <1>0, <1>1, <1>3, <2>2 DEF Approves
    <3> QED BY <2>2, <3>1 DEF Advances
  <2>3. CASE u \in {g, t} /\ ~approved
    BY <1>0, <1>1, <1>3, <2>3 DEF Advances, InWork
  <2> QED BY <2>1, <2>2, <2>3
<1>6. CASE approved
  <2>1. Reviewed(b, g, approved) = Recomputed(d)
    BY <1>6 DEF Reviewed
  <2> HIDE DEF d
  <2>2. Readies(d, Recomputed(d))
    BY <1>4, RecomputedReadies
  <2>3. Recomputed(d) \in Boards /\ Moves(b, Recomputed(d))
    BY <1>4, <1>5, <2>2, ReadiedMoves
  <2> QED BY <1>3, <2>1, <2>2, <2>3 DEF Readies
<1>7. CASE ~approved
  <2>1. Reviewed(b, g, approved) = d
    BY <1>7 DEF Reviewed
  <2> HIDE DEF d
  <2> QED BY <1>3, <1>4, <1>5, <2>1
<1> QED BY <1>6, <1>7

(* An approval hands what became ready to a member of its role.             *)
LEMMA ReviewServed ==
  ASSUME NEW b \in Boards, Gated(b), NEW g \in Gates, CanReview(b, g), NEW approved \in BOOLEAN,
         NEW m \in Members \cup {NoMember}, NEW open,
         open = {t \in NewlyActive(b, Reviewed(b, g, approved)) \ Gates :
                   Reviewed(b, g, approved)[t].status = "todo"}
  PROVE  Served(b, [t \in Tasks |-> IF t \in open /\ m # NoMember
                                    THEN Assigned(Reviewed(b, g, approved), t, m)[t]
                                    ELSE Reviewed(b, g, approved)[t]])
<1> DEFINE c == Reviewed(b, g, approved)
           d == [t \in Tasks |-> IF t \in open /\ m # NoMember THEN Assigned(c, t, m)[t] ELSE c[t]]
<1>1. c \in Boards /\ Moves(b, c) /\ \A t \in Tasks : c[t].artifacts = b[t].artifacts
  BY ReviewedMoves
<1>2. \A t \in open : t \in Tasks \ Gates /\ c[t].status = "todo"
  BY DEF NewlyActive
<1> HIDE DEF c
<1>3. Readies(c, d)
  <2>1. ASSUME NEW t \in Tasks
        PROVE  /\ d[t] \in TaskRec /\ d[t].artifacts = c[t].artifacts
               /\ t \in Gates => d[t].assignee = c[t].assignee
               /\ d[t].status = c[t].status
                  \/ (c[t].status = "todo" /\ d[t].status = "assigned")
    <3>1. CASE t \in open /\ m # NoMember
      <4>1. d[t] = [c[t] EXCEPT !.assignee = m, !.status = "assigned"]
        BY <1>1, <1>2, <3>1 DEF Assigned, Boards, TaskRec
      <4> HIDE DEF d
      <4> QED BY <1>1, <1>2, <3>1, <4>1, TaskFields DEF TaskRec, Statuses
    <3>2. CASE ~(t \in open /\ m # NoMember)
      <4>1. d[t] = c[t]
        BY <3>2
      <4> HIDE DEF d
      <4> QED BY <1>1, <4>1, TaskFields
    <3> QED BY <3>1, <3>2
  <2>2. d = [t \in Tasks |-> d[t]]
    OBVIOUS
  <2> HIDE DEF d
  <2>3. d \in [Tasks -> TaskRec]
    BY <2>1, <2>2
  <2> QED BY <2>1, <2>3 DEF Readies
<1> HIDE DEF d
<1>4. d \in Boards /\ Moves(b, d)
  BY <1>1, <1>3, ReadiedMoves
<1>5. Served(b, d)
  BY <1>1, <1>3, <1>4 DEF Readies, Served, SameOrMore
<1> QED BY <1>5 DEF c, d

-----------------------------------------------------------------------------
(* The projection of an event.                                              *)

ProjectsTo(b, t, e, type, c) ==
  /\ c \in Boards /\ Moves(b, c)
  /\ \A u \in Tasks : c[u].artifacts = IF u = t /\ type = "artifact"
                                      THEN Append(b[u].artifacts, e) ELSE b[u].artifacts

LEMMA ProjectedMoves ==
  ASSUME NEW b \in Boards, Gated(b), NEW t \in Tasks \ Gates, NEW e \in Execs,
         NEW type, ~Refuses(b, t, type)
  PROVE  ProjectsTo(b, t, e, type, Projected(b, t, e, type))
<1> DEFINE c == Projected(b, t, e, type)
<1> SUFFICES ProjectsTo(b, t, e, type, c)
  OBVIOUS
<1>0. e \in 0..MaxExecs /\ t \in Tasks /\ t \notin Gates
  BY BoardFacts DEF Execs
<1>1. ASSUME NEW s \in Statuses, Goes(b, t, s)
      PROVE  LET d == [b EXCEPT ![t] = [b[t] EXCEPT !.status = s, !.run = e]] IN
               d \in Boards /\ Moves(b, d) /\ \A u \in Tasks : d[u].artifacts = b[u].artifacts
  <2> DEFINE r == [b[t] EXCEPT !.status = s, !.run = e]
             d == [b EXCEPT ![t] = r]
  <2>1. r \in TaskRec /\ r.status = s /\ r.artifacts = b[t].artifacts
    BY <1>0, TaskFields DEF TaskRec
  <2>2. Puts(b, t, r, d)
    <3> HIDE DEF r
    <3> QED BY <1>0, <1>1, <2>1, OneTask
  <2> HIDE DEF d, r
  <2>3. d \in Boards /\ Moves(b, d) /\ \A u \in Tasks : d[u].artifacts = b[u].artifacts
    BY <2>1, <2>2 DEF Puts
  <2> QED BY <2>3 DEF d, r
<1>2. Moves(b, b)
  BY DEF Moves, Advances
<1>3. ASSUME Working(b, t) PROVE b[t].status # "done" /\ DepsDone(b, t)
  <2>1. CASE b[t].status = "running"
    BY <1>0, <2>1 DEF Gated, InWork
  <2>2. CASE CanStart(b, t)
    BY <2>2, StartedServed DEF CanStart
  <2> QED BY <1>3, <2>1, <2>2 DEF Working
<1>4. ASSUME c = b, type # "artifact"
      PROVE  ProjectsTo(b, t, e, type, c)
  BY <1>2, <1>4 DEF ProjectsTo
<1>5. ASSUME NEW s \in Statuses, Goes(b, t, s), type # "artifact",
             c = [b EXCEPT ![t] = [b[t] EXCEPT !.status = s, !.run = e]]
      PROVE  ProjectsTo(b, t, e, type, c)
  <2> HIDE DEF c
  <2> QED BY <1>1, <1>5 DEF ProjectsTo
<1>6. b[t].status \in Statuses /\ {"running", "blocked"} \subseteq Statuses
  BY <1>0, TaskFields DEF Statuses
<1>7. CASE type = "started" \/ (type = "retry_scheduled" /\ b[t].status \notin Past)
  <2>1. c = [b EXCEPT ![t] = [b[t] EXCEPT !.status = b[t].status, !.run = e]]
    <3>1. [b[t] EXCEPT !.status = b[t].status, !.run = e] = [b[t] EXCEPT !.run = e]
      BY <1>0, TaskFields DEF TaskRec
    <3>2. c = [b EXCEPT ![t].run = e]
      BY <1>7 DEF Projected
    <3> QED BY <1>0, <3>1, <3>2
  <2>2. Goes(b, t, b[t].status)
    BY DEF Goes
  <2> HIDE DEF c
  <2>3. QED BY <1>5, <1>6, <1>7, <2>1, <2>2
<1>8. CASE type \in {"claimed", "question"} /\ b[t].status \notin Past
  <2>1. c = [b EXCEPT ![t] = [b[t] EXCEPT !.status = "running", !.run = e]]
    <3>1. c = [Started(b, t) EXCEPT ![t].run = e]
      BY <1>8 DEF Projected
    <3> QED BY <1>0, <3>1 DEF Started, SetStatus, Boards
  <2>2. Goes(b, t, "running")
    BY <1>0, <1>3, <1>8 DEF Refuses, Goes, InWork
  <2> HIDE DEF c
  <2>3. QED BY <1>5, <1>6, <1>8, <2>1, <2>2
<1>9. CASE \/ type \in {"agent_blocked", "recovery_blocked"} /\ b[t].status \notin Past
           \/ /\ type \in {"failed", "dead_lettered", "cancelled"}
              /\ b[t].status \in {"assigned", "running", "rework"}
  <2>1. c = [b EXCEPT ![t] = [b[t] EXCEPT !.status = "blocked", !.run = e]]
    <3>1. c = BlockedBy(b, t, e)
      BY <1>9 DEF Projected
    <3> QED BY <1>0, <3>1 DEF BlockedBy, Boards
  <2>2. Goes(b, t, "blocked")
    BY <1>9 DEF Goes, Past
  <2> HIDE DEF c
  <2>3. QED BY <1>5, <1>6, <1>9, <2>1, <2>2
<1>10. CASE type = "artifact"
  <2> DEFINE d == Recomputed([b EXCEPT ![t] = HandedIn(b, t, e)])
  <2>1. b[t].status # "done" /\ DepsDone(b, t)
    BY <1>3, <1>10 DEF Refuses
  <2>2. /\ d \in Boards /\ Moves(b, d)
        /\ \A u \in Tasks : d[u].artifacts = IF u = t THEN Append(b[u].artifacts, e)
                                            ELSE b[u].artifacts
    BY <1>0, <2>1, HandedInMoves
  <2>3. Submitted(Started(b, t), t, e) = d
    <3>1. [Started(b, t) EXCEPT
             ![t].artifacts = Append(@, e),
             ![t].status = IF \E g \in Gates : Reviews[g] = t THEN "submitted" ELSE "done"]
            = [b EXCEPT ![t] = HandedIn(b, t, e)]
      BY <1>0, TaskFields DEF Started, SetStatus, HandedIn, IsReviewed, Boards, TaskRec
    <3> QED BY <3>1 DEF Submitted
  <2>4. c = [d EXCEPT ![t].run = e]
    BY <1>10, <2>3 DEF Projected
  <2> HIDE DEF c, d
  <2>5. Readies(d, c)
    <3>1. \A u \in Tasks : /\ c[u] \in TaskRec /\ c[u].artifacts = d[u].artifacts
                           /\ c[u].assignee = d[u].assignee /\ c[u].status = d[u].status
      BY <1>0, <2>2, <2>4 DEF Boards, TaskRec
    <3>2. c \in [Tasks -> TaskRec]
      BY <1>0, <2>2, <2>4 DEF Boards, TaskRec
    <3> QED BY <3>1, <3>2 DEF Readies
  <2>6. c \in Boards /\ Moves(b, c)
    BY <2>2, <2>5, ReadiedMoves
  <2> QED BY <1>10, <2>2, <2>5, <2>6 DEF Readies, ProjectsTo
<1>11. CASE ~ \/ type \in {"started", "artifact"}
              \/ /\ b[t].status \notin Past
                 /\ type \in {"retry_scheduled", "claimed", "question", "agent_blocked", "recovery_blocked"}
              \/ /\ type \in {"failed", "dead_lettered", "cancelled"}
                 /\ b[t].status \in {"assigned", "running", "rework"}
  <2>1. c = b /\ type # "artifact"
    BY <1>11 DEF Projected
  <2> HIDE DEF c
  <2>2. QED BY <1>4, <2>1
<1> QED BY <1>7, <1>8, <1>9, <1>10, <1>11

-----------------------------------------------------------------------------
(* The inductive invariant.                                                 *)

RowRec == [status : {"unused"} \cup Active \cup Terminal, subject : Tasks \cup {Nobody},
           attempt : Nat, token : Nat, owner : Workers \cup {Nobody},
           lease : {"none", "live", "lapsed"}, delayed : BOOLEAN, checkpoint : Nat]
Entry  == [type : EventTypes, state : {"new", "held", "lapsed", "done"},
           by : Projectors \cup {Nobody}]

(* Agents work on tasks, never on gates.                                    *)
StoreOK ==
  /\ row \in [Execs -> RowRec] /\ log \in [Execs -> Seq(Entry)]
  /\ \A e \in Execs : IF row[e].status = "unused" THEN row[e] = Unused /\ log[e] = << >>
                      ELSE row[e].subject \in Tasks \ Gates

(* What was applied of an execution is a prefix of its events, a projector  *)
(* holds the next one at most, and acknowledges what was applied.           *)
Known(e) == 1..Len(log[e])
ProjOK(batches) ==
  /\ batches \in [Projectors -> [todo : SUBSET (Execs \X Nat), acking : SUBSET (Execs \X Nat)]]
  /\ \A p \in Projectors :
       /\ \A x \in batches[p].todo   : x[2] \in Known(x[1]) /\ x[2] <= Len(applied[x[1]]) + 1
       /\ \A x \in batches[p].acking : x[2] \in Known(x[1]) /\ x[2] <= Len(applied[x[1]])
OutboxOK ==
  /\ applied \in [Execs -> Seq(Nat)]
  /\ \A e \in Execs : /\ Len(applied[e]) <= Len(log[e])
                      /\ \A i \in 1..Len(applied[e]) : applied[e][i] = i
                      /\ \A n \in Known(e) : log[e][n].state = "done" => n <= Len(applied[e])
  /\ ProjOK(proj)

BoardInv == board \in Boards /\ version \in 1..MaxVersion /\ Gated(board)

(* A copy whose version is current was made from the board.                 *)
OpRec == [pc : {"idle", "save", "autorun"}, copy : Boards, version : 0..MaxVersion,
          tasks : SUBSET Tasks]
CopiesOK ==
  /\ op \in [Humans -> OpRec]
  /\ \A h \in Humans : op[h].pc = "save" =>
       /\ op[h].version <= version /\ op[h].version < MaxVersion
       /\ op[h].version = version => Served(board, op[h].copy)

Made(s, e)  == {i \in 1..Len(s) : s[i] = e}
Counted(e)  == {n \in 1..Len(applied[e]) : log[e][n].type = "artifact"}
ArtifactInv ==
  \A e \in Execs, t \in Tasks :
    Cardinality(Made(board[t].artifacts, e))
      = IF row[e].subject = t THEN Cardinality(Counted(e)) ELSE 0

CrewInv == StoreOK /\ OutboxOK /\ BoardInv /\ CopiesOK /\ ArtifactInv

-----------------------------------------------------------------------------
(* Steps of the store.                                                      *)

Grows(L, M) ==
  /\ Len(L) <= Len(M)
  /\ \A n \in 1..Len(M) : IF n <= Len(L) THEN M[n] = L[n] ELSE M[n].state = "new"
StoreMoves ==
  /\ row' \in [Execs -> RowRec] /\ log' \in [Execs -> Seq(Entry)]
  /\ \A e \in Execs :
       \/ row'[e] = row[e] /\ log'[e] = log[e]
       \/ /\ row'[e].status # "unused" /\ row'[e].subject \in Tasks \ Gates
          /\ row[e].status # "unused" => row'[e].subject = row[e].subject
          /\ Grows(log[e], log'[e])

LEMMA EntriesGrow ==
  ASSUME NEW L \in Seq(Entry), NEW ts \in Seq(EventTypes)
  PROVE  L \o Entries(ts) \in Seq(Entry) /\ Grows(L, L \o Entries(ts))
<1> DEFINE M == Entries(ts)
<1>1. Len(ts) \in Nat /\ DOMAIN ts = 1..Len(ts) /\ \A i \in 1..Len(ts) : ts[i] \in EventTypes
  BY ElementOfSeq, LenProperties
<1>2. M \in [1..Len(ts) -> Entry] /\ \A i \in 1..Len(ts) : M[i].state = "new"
  BY <1>1 DEF Entries, Entry
<1>3. M \in Seq(Entry) /\ Len(M) = Len(ts)
  <2> HIDE DEF M
  <2>1. M \in Seq(Entry)
    BY <1>1, <1>2, SeqDef
  <2> QED BY <1>1, <1>2, <2>1
<1> HIDE DEF M
<1>4. L \o M \in Seq(Entry) /\ Len(L \o M) = Len(L) + Len(M)
  BY <1>3
<1>5. \A n \in 1..(Len(L) + Len(M)) : (L \o M)[n] = IF n <= Len(L) THEN L[n] ELSE M[n - Len(L)]
  BY <1>3
<1>6. Len(L) \in Nat /\ Len(M) \in Nat /\ Len(L) <= Len(L \o M)
  BY <1>3, <1>4
<1>7. \A n \in 1..Len(L \o M) : IF n <= Len(L) THEN (L \o M)[n] = L[n] ELSE (L \o M)[n].state = "new"
  BY <1>2, <1>3, <1>4, <1>5, <1>6
<1> QED BY <1>4, <1>6, <1>7 DEF Grows, M

LEMMA StaysGrown == ASSUME NEW L \in Seq(Entry) PROVE Grows(L, L)
BY DEF Grows

LEMMA ReleasedOK ==
  ASSUME NEW x \in RowRec, NEW s \in Active \cup Terminal
  PROVE  Released(x, s) \in RowRec /\ Released(x, s).status = s /\ Released(x, s).subject = x.subject
BY DEF RowRec, Released

LEMMA TakenOK ==
  ASSUME StoreOK, NEW e \in Execs, NEW w \in Workers
  PROVE  /\ Taken(e, w) \in RowRec /\ Taken(e, w).status = "running"
         /\ Taken(e, w).subject = row[e].subject
<1>1. row[e] \in RowRec /\ row[e].attempt + 1 \in Nat /\ row[e].token + 1 \in Nat
  BY DEF StoreOK, RowRec
<1> QED BY <1>1 DEF Taken, RowRec, Active

(* One execution changes and gets events.                                   *)
LEMMA OneRow ==
  ASSUME StoreOK, NEW e, NEW x, NEW ts \in Seq(EventTypes),
         row[e].status # "unused", row' = [row EXCEPT ![e] = x], Emit(e, ts),
         e \in Execs => x \in RowRec /\ x.status # "unused" /\ x.subject = row[e].subject
  PROVE  StoreMoves
<1>1. CASE e \notin Execs
  <2>1. row' = row /\ log' = log
    BY <1>1 DEF StoreOK, Emit
  <2> QED BY <2>1 DEF StoreMoves, StoreOK
<1>2. CASE e \in Execs
  <2>1. row' \in [Execs -> RowRec] /\ row'[e] = x /\ \A d \in Execs : d # e => row'[d] = row[d]
    BY <1>2 DEF StoreOK
  <2>2. log[e] \o Entries(ts) \in Seq(Entry) /\ Grows(log[e], log[e] \o Entries(ts))
    BY <1>2, EntriesGrow DEF StoreOK
  <2>3. /\ log' \in [Execs -> Seq(Entry)] /\ log'[e] = log[e] \o Entries(ts)
        /\ \A d \in Execs : d # e => log'[d] = log[d]
    BY <1>2, <2>2 DEF StoreOK, Emit
  <2>4. row[e].subject \in Tasks \ Gates
    BY <1>2 DEF StoreOK
  <2> QED BY <1>2, <2>1, <2>2, <2>3, <2>4 DEF StoreMoves
<1> QED BY <1>1, <1>2

LEMMA OneType ==
  ASSUME NEW t \in EventTypes
  PROVE  <<t>> \in Seq(EventTypes)
OBVIOUS

LEMMA CreateMoves ==
  ASSUME StoreOK, NEW r, NEW s \in Tasks \ Gates, DispatchStart(r, s)
  PROVE  StoreMoves
<1>1. CASE UNCHANGED <<row, log>>
  BY <1>1 DEF StoreMoves, StoreOK
<1>2. CASE /\ Unborn # {}
           /\ row' = [row EXCEPT ![Min(Unborn)] = [Unused EXCEPT !.status = "queued", !.subject = s]]
           /\ Emit(Min(Unborn), <<"started">>)
  <2> DEFINE e == Min(Unborn)
             x == [Unused EXCEPT !.status = "queued", !.subject = s]
  <2>1. e \in Execs /\ row[e].status = "unused"
    <3>1. Unborn \in SUBSET Nat
      BY BoardFacts DEF Unborn, Execs
    <3> QED BY <1>2, <3>1, MinIsMember DEF Unborn
  <2>2. x \in RowRec /\ x.status = "queued" /\ x.subject = s
    BY BoardFacts DEF Unused, RowRec, Active
  <2>3. <<"started">> \in Seq(EventTypes)
    BY OneType DEF EventTypes
  <2>4. row' = [row EXCEPT ![e] = x] /\ log' = [log EXCEPT ![e] = @ \o Entries(<<"started">>)]
    BY <1>2 DEF Emit
  <2> HIDE DEF e, x
  <2>5. row' \in [Execs -> RowRec] /\ row'[e] = x /\ \A d \in Execs : d # e => row'[d] = row[d]
    BY <2>1, <2>2, <2>4 DEF StoreOK
  <2>6. log[e] \o Entries(<<"started">>) \in Seq(Entry) /\ Grows(log[e], log[e] \o Entries(<<"started">>))
    BY <2>1, <2>3, EntriesGrow DEF StoreOK
  <2>7. /\ log' \in [Execs -> Seq(Entry)] /\ log'[e] = log[e] \o Entries(<<"started">>)
        /\ \A d \in Execs : d # e => log'[d] = log[d]
    BY <2>1, <2>4, <2>6 DEF StoreOK
  <2> QED BY <2>1, <2>2, <2>5, <2>6, <2>7 DEF StoreMoves
<1> QED BY <1>1, <1>2 DEF DispatchStart, Create

LEMMA SignalMoves ==
  ASSUME StoreOK, NEW r, NEW e \in Execs, DispatchSignal(r, e)
  PROVE  StoreMoves
<1>1. row[e].status # "unused" /\ row' = row /\ Emit(e, <<"signaled">>)
  BY DEF DispatchSignal, Active
<1>2. row' = [row EXCEPT ![e] = row[e]] /\ row[e] \in RowRec
  BY <1>1 DEF StoreOK
<1>3. <<"signaled">> \in Seq(EventTypes)
  BY OneType DEF EventTypes
<1> QED BY <1>1, <1>2, <1>3, OneRow

LEMMA QuietMoves ==
  ASSUME StoreOK, UNCHANGED <<row, log>>
  PROVE  StoreMoves
BY DEF StoreMoves, StoreOK

LEMMA CommittedOK ==
  ASSUME NEW x \in RowRec, x.status = "running", NEW s \in Active \cup Terminal
  PROVE  /\ Committed(x, s) \in RowRec /\ Committed(x, s).status # "unused"
         /\ Committed(x, s).subject = x.subject
<1> DEFINE y == IF s = "running" THEN x ELSE Released(x, s)
<1>1. y \in RowRec /\ y.status # "unused" /\ y.subject = x.subject
  BY ReleasedOK DEF Active, Terminal
<1>2. Committed(x, s) = [y EXCEPT !.checkpoint = @ + 1, !.delayed = FALSE]
  BY DEF Committed
<1> HIDE DEF y
<1>3. y.checkpoint + 1 \in Nat
  BY <1>1 DEF RowRec
<1> QED BY <1>1, <1>2, <1>3 DEF RowRec

LEMMA CommitMoves ==
  ASSUME StoreOK, NEW w \in Workers, NEW s \in Active \cup Terminal, NEW used,
         NEW events \in Seq(EventTypes), Commit(w, s, used, events)
  PROVE  StoreMoves
<1> DEFINE e == worker[w].exec
           ts == events \o (IF s \in Terminal THEN <<s>> ELSE << >>)
<1>1. row[e].status = "running"
  BY DEF Commit, Fenced
<1>2. CASE /\ row' = [row EXCEPT ![e] = Released(@, "queued")] /\ Emit(e, <<"result_deferred">>)
  <2>1. row' = [row EXCEPT ![e] = Released(row[e], "queued")]
    BY <1>2 DEF StoreOK
  <2>2. <<"result_deferred">> \in Seq(EventTypes)
    BY OneType DEF EventTypes
  <2>3. e \in Execs => row[e] \in RowRec
    BY DEF StoreOK
  <2> HIDE DEF e
  <2>4. e \in Execs => /\ Released(row[e], "queued") \in RowRec
                       /\ Released(row[e], "queued").status # "unused"
                       /\ Released(row[e], "queued").subject = row[e].subject
    BY <2>3, ReleasedOK DEF Active
  <2> QED BY <1>1, <1>2, <2>1, <2>2, <2>4, OneRow
<1>3. CASE row' = [row EXCEPT ![e] = Committed(@, s)] /\ Emit(e, ts)
  <2>1. row' = [row EXCEPT ![e] = Committed(row[e], s)]
    BY <1>3 DEF StoreOK
  <2>2. ts \in Seq(EventTypes)
    <3>1. CASE s \in Terminal
      <4>1. <<s>> \in Seq(EventTypes)
        BY <3>1, OneType DEF EventTypes, TerminalTypes
      <4> QED BY <3>1, <4>1
    <3>2. CASE s \notin Terminal
      BY <3>2
    <3> QED BY <3>1, <3>2
  <2>3. e \in Execs => row[e] \in RowRec
    BY DEF StoreOK
  <2> HIDE DEF e, ts
  <2>4. e \in Execs => /\ Committed(row[e], s) \in RowRec
                       /\ Committed(row[e], s).status # "unused"
                       /\ Committed(row[e], s).subject = row[e].subject
    BY <1>1, <2>3, CommittedOK
  <2> QED BY <1>1, <1>3, <2>1, <2>2, <2>4, OneRow
<1> QED BY <1>2, <1>3 DEF Commit

LEMMA RequeueMoves ==
  ASSUME StoreOK, NEW w \in Workers, RequeueClaimed(w)
  PROVE  StoreMoves
<1> DEFINE e == worker[w].exec
<1>1. row[e].status = "running" /\ Emit(e, <<"requeued">>)
  BY DEF RequeueClaimed, Fenced
<1>2. row' = [row EXCEPT ![e] = Released(row[e], "queued")]
  BY DEF RequeueClaimed, StoreOK
<1>3. <<"requeued">> \in Seq(EventTypes)
  BY OneType DEF EventTypes
<1>4. e \in Execs => row[e] \in RowRec
  BY DEF StoreOK
<1> HIDE DEF e
<1>5. e \in Execs => /\ Released(row[e], "queued") \in RowRec
                     /\ Released(row[e], "queued").status # "unused"
                     /\ Released(row[e], "queued").subject = row[e].subject
  BY <1>4, ReleasedOK DEF Active
<1> QED BY <1>1, <1>2, <1>3, <1>5, OneRow

LEMMA LapseMoves ==
  ASSUME StoreOK, NEW e \in Execs, Lapse(e)
  PROVE  StoreMoves
<1> DEFINE x == [row[e] EXCEPT !.lease = "lapsed"]
<1>1. row[e] \in RowRec /\ row[e].status # "unused"
  BY DEF Lapse, StoreOK, Unused
<1>2. x \in RowRec /\ x.status # "unused" /\ x.subject = row[e].subject
  BY <1>1 DEF RowRec
<1>3. row' = [row EXCEPT ![e] = x] /\ log' = log
  BY DEF Lapse, StoreOK
<1> HIDE DEF x
<1> QED BY <1>1, <1>2, <1>3, StaysGrown DEF StoreMoves, StoreOK

LEMMA ClaimMoves ==
  ASSUME StoreOK, NEW w \in Workers, ClaimNext(w)
  PROVE  StoreMoves
<1>1. PICK e \in Execs :
        /\ Takeable(e)
        /\ row' = [d \in Execs |->
             IF d = e THEN Taken(e, w)
             ELSE IF d < e /\ Expired(d) THEN Released(row[d], "awaiting_signal") ELSE row[d]]
        /\ log' = [d \in Execs |-> log[d] \o Entries(ClaimEvents(d, e))]
  BY DEF ClaimNext
<1>2. ASSUME NEW d \in Execs PROVE ClaimEvents(d, e) \in Seq(EventTypes)
  <2>1. \A t \in {"recovery_blocked", "lease_expired", "claimed"} : <<t>> \in Seq(EventTypes)
    BY OneType DEF EventTypes
  <2>2. << >> \in Seq(EventTypes)
    BY EmptySeq
  <2> QED BY <2>1, <2>2 DEF ClaimEvents
<1>3. ASSUME NEW d \in Execs
      PROVE  log'[d] \in Seq(Entry) /\ Grows(log[d], log'[d])
  BY <1>1, <1>2, EntriesGrow DEF StoreOK
<1>4. ASSUME NEW d \in Execs
      PROVE  /\ row'[d] \in RowRec
             /\ IF row[d].status = "unused" THEN row'[d] = row[d]
                ELSE row'[d].status # "unused" /\ row'[d].subject = row[d].subject
  <2>0. row[d] \in RowRec
    BY DEF StoreOK
  <2>1. CASE d = e
    BY <1>1, <2>1, TakenOK DEF Takeable, Expired
  <2>2. CASE d # e /\ d < e /\ Expired(d)
    <3>1. row'[d] = Released(row[d], "awaiting_signal")
      BY <1>1, <2>2
    <3> QED BY <2>0, <2>2, <3>1, ReleasedOK DEF Active, Expired
  <2>3. CASE d # e /\ ~(d < e /\ Expired(d))
    BY <1>1, <2>0, <2>3
  <2> QED BY <2>1, <2>2, <2>3
<1>5. ASSUME NEW d \in Execs, row[d].status = "unused" PROVE log'[d] = log[d]
  <2>1. d # e /\ ~Expired(d) /\ log[d] = << >>
    BY <1>1, <1>5 DEF Takeable, Expired, StoreOK
  <2>2. ClaimEvents(d, e) = << >>
    BY <2>1 DEF ClaimEvents
  <2>3. Entries(<< >>) = << >>
    BY DEF Entries
  <2> QED BY <1>1, <2>1, <2>2, <2>3
<1>6. row' \in [Execs -> RowRec] /\ log' \in [Execs -> Seq(Entry)]
  BY <1>1, <1>3, <1>4
<1>7. \A d \in Execs : row[d].status # "unused" => row[d].subject \in Tasks \ Gates
  BY DEF StoreOK
<1> QED BY <1>3, <1>4, <1>5, <1>6, <1>7 DEF StoreMoves

-----------------------------------------------------------------------------
(* What a store step leaves true.                                           *)

(* Every step takes the board from a board to one that follows it.          *)
BoardStep ==
  /\ board' \in Boards /\ Moves(board, board')
  /\ \A t \in Tasks : \E e \in 0..MaxExecs : SameOrMore(board[t].artifacts, board'[t].artifacts, e)

LEMMA BoardStays ==
  ASSUME BoardInv, UNCHANGED <<board, version>>
  PROVE  BoardInv' /\ BoardStep
<1>1. 0 \in 0..MaxExecs
  BY BoardFacts
<1> QED BY <1>1 DEF BoardInv, Boards, Gated, DepsDone, BoardStep, Moves, Advances, SameOrMore

LEMMA CopiesStay ==
  ASSUME CopiesOK, UNCHANGED <<board, version>>, op' \in [Humans -> OpRec],
         \A h \in Humans : op'[h] = op[h] \/ op'[h].pc # "save"
  PROVE  CopiesOK'
BY DEF CopiesOK

LEMMA OutboxFacts ==
  ASSUME StoreOK, OutboxOK, NEW e \in Execs
  PROVE  /\ applied[e] \in Seq(Nat) /\ log[e] \in Seq(Entry)
         /\ Len(applied[e]) \in Nat /\ Len(log[e]) \in Nat /\ Len(applied[e]) <= Len(log[e])
         /\ DOMAIN applied[e] = 1..Len(applied[e]) /\ DOMAIN log[e] = 1..Len(log[e])
         /\ Range(applied[e]) = 1..Len(applied[e])
<1>1. /\ applied[e] \in Seq(Nat) /\ log[e] \in Seq(Entry)
      /\ Len(applied[e]) <= Len(log[e]) /\ \A i \in 1..Len(applied[e]) : applied[e][i] = i
  BY DEF StoreOK, OutboxOK
<1>2. /\ DOMAIN applied[e] = 1..Len(applied[e]) /\ Len(applied[e]) \in Nat
      /\ DOMAIN log[e] = 1..Len(log[e]) /\ Len(log[e]) \in Nat
  BY <1>1
<1>3. Range(applied[e]) = 1..Len(applied[e])
  BY <1>1, <1>2 DEF Range
<1> QED BY <1>1, <1>2, <1>3

LEMMA StoreStep ==
  ASSUME CrewInv, StoreMoves, UNCHANGED <<outVars, board, version>>, op' \in [Humans -> OpRec],
         \A h \in Humans : op'[h] = op[h] \/ op'[h].pc # "save"
  PROVE  CrewInv' /\ BoardStep
<1>0. StoreOK /\ OutboxOK /\ BoardInv /\ CopiesOK /\ ArtifactInv
  BY DEF CrewInv
<1>1. StoreOK'
  BY <1>0 DEF StoreOK, StoreMoves
<1>2. ASSUME NEW e \in Execs
      PROVE  /\ Len(log[e]) \in Nat /\ Len(log'[e]) \in Nat /\ Len(log[e]) <= Len(log'[e])
             /\ \A n \in 1..Len(log'[e]) : IF n <= Len(log[e]) THEN log'[e][n] = log[e][n]
                                            ELSE log'[e][n].state = "new"
  <2>1. log'[e] \in Seq(Entry) /\ log[e] \in Seq(Entry) /\ Grows(log[e], log'[e])
    BY <1>0, StaysGrown DEF StoreOK, StoreMoves
  <2>2. Len(log[e]) \in Nat /\ Len(log'[e]) \in Nat
    BY <2>1
  <2> QED BY <2>1, <2>2 DEF Grows
<1>3. OutboxOK'
  <2>1. applied' = applied /\ proj' = proj
    BY DEF outVars
  <2>2. ASSUME NEW e \in Execs
        PROVE  /\ Len(applied'[e]) <= Len(log'[e])
               /\ \A i \in 1..Len(applied'[e]) : applied'[e][i] = i
               /\ \A n \in Known(e)' : log'[e][n].state = "done" => n <= Len(applied'[e])
               /\ \A n \in Known(e) : n \in Known(e)'
    <3>1. Len(applied[e]) \in Nat /\ Len(applied[e]) <= Len(log[e])
      BY <1>0, OutboxFacts
    <3>2. \A n \in 1..Len(log'[e]) : log'[e][n].state = "done" => n <= Len(applied[e])
      <4> SUFFICES ASSUME NEW n \in 1..Len(log'[e]), log'[e][n].state = "done"
                   PROVE  n <= Len(applied[e])
        OBVIOUS
      <4>1. n \in 1..Len(log[e]) /\ log[e][n].state = "done"
        BY <1>2
      <4> QED BY <1>0, <4>1 DEF OutboxOK, Known
    <3> QED BY <1>0, <1>2, <2>1, <3>1, <3>2 DEF OutboxOK, Known
  <2>3. \A p \in Projectors : \A x \in proj[p].todo \cup proj[p].acking : x[1] \in Execs
    BY <1>0 DEF OutboxOK, ProjOK
  <2> QED BY <1>0, <2>1, <2>2, <2>3 DEF OutboxOK, ProjOK
<1>4. ArtifactInv'
  <2> SUFFICES ASSUME NEW e \in Execs, NEW t \in Tasks
               PROVE  Cardinality(Made(board[t].artifacts, e))
                        = IF row'[e].subject = t THEN Cardinality(Counted(e)') ELSE 0
    BY DEF ArtifactInv, Made
  <2>1. Len(applied[e]) \in Nat /\ Len(applied[e]) <= Len(log[e]) /\ applied' = applied
    BY <1>0, OutboxFacts DEF outVars
  <2>2. Counted(e)' = Counted(e)
    BY <1>2, <2>1 DEF Counted
  <2>3. Cardinality(Made(board[t].artifacts, e))
          = IF row[e].subject = t THEN Cardinality(Counted(e)) ELSE 0
    BY <1>0 DEF ArtifactInv
  <2>4. CASE row'[e].subject = row[e].subject
    BY <2>2, <2>3, <2>4
  <2>5. CASE row[e].status = "unused"
    <3>1. Len(log[e]) = 0
      BY <1>0, <2>5, EmptySeq DEF StoreOK
    <3>2. Counted(e) = {}
      BY <2>1, <3>1 DEF Counted
    <3>3. Cardinality(Counted(e)) = 0
      BY <3>2, FS_EmptySet
    <3> QED BY <2>2, <2>3, <3>3
  <2> QED BY <2>4, <2>5 DEF StoreMoves
<1>5. CopiesOK'
  BY <1>0, CopiesStay
<1> QED BY <1>0, <1>1, <1>3, <1>4, <1>5, BoardStays DEF CrewInv

-----------------------------------------------------------------------------
(* The service: load, change, save.                                         *)

LEMMA NewBoardOK == NewBoard \in Boards /\ Gated(NewBoard)
<1>1. 0 \in 0..MaxExecs /\ << >> \in Seq(0..MaxExecs)
  BY BoardFacts
<1>2. \A t \in Tasks : /\ NewBoard[t] \in TaskRec /\ NewBoard[t].status \in {"todo", "blocked"}
                       /\ NewBoard[t].assignee = NoMember /\ NewBoard[t].artifacts = << >>
  BY <1>1 DEF NewBoard, TaskRec, Statuses
<1>3. NewBoard \in [Tasks -> TaskRec]
  <2>1. NewBoard = [t \in Tasks |-> NewBoard[t]]
    BY DEF NewBoard
  <2> QED BY <1>2, <2>1
<1> QED BY <1>2, <1>3, BoardFacts DEF Boards, Gated, InWork, Past

LEMMA NoOpOK == NoOp \in OpRec /\ NoOp.pc = "idle"
BY NewBoardOK, BoardFacts DEF NoOp, OpRec

LEMMA ChangeOK ==
  ASSUME CrewInv, NEW h \in Humans, NEW copy, NEW tasks \in SUBSET Tasks, Served(board, copy),
         Change(h, copy, tasks)
  PROVE  CrewInv' /\ BoardStep
<1> DEFINE o == [pc |-> "save", copy |-> copy, version |-> version, tasks |-> tasks]
<1>0. StoreOK /\ OutboxOK /\ BoardInv /\ CopiesOK /\ ArtifactInv
  BY DEF CrewInv
<1>1. /\ o \in OpRec /\ o.pc = "save" /\ o.copy = copy /\ o.version = version
      /\ version < MaxVersion /\ version \in Nat
  BY <1>0, BoardFacts DEF Change, Served, OpRec, BoardInv
<1>2. op' = [op EXCEPT ![h] = o] /\ UNCHANGED <<vars, outVars, board, version>>
  BY DEF Change
<1> HIDE DEF o
<1>3. op' \in [Humans -> OpRec] /\ \A k \in Humans : op'[k] = IF k = h THEN o ELSE op[k]
  BY <1>0, <1>1, <1>2 DEF CopiesOK
<1>4. CopiesOK'
  BY <1>0, <1>1, <1>2, <1>3 DEF CopiesOK
<1>5. StoreOK' /\ OutboxOK'
  BY <1>0, <1>2 DEF vars, outVars, StoreOK, OutboxOK, ProjOK, Known
<1>6. ArtifactInv'
  BY <1>0, <1>2 DEF vars, outVars, ArtifactInv, Made, Counted
<1> QED BY <1>0, <1>2, <1>4, <1>5, <1>6, BoardStays DEF CrewInv

LEMMA MadeAppend ==
  ASSUME NEW s \in Seq(0..MaxExecs), NEW e \in 0..MaxExecs, NEW f
  PROVE  /\ Made(Append(s, e), f) = IF e = f THEN Made(s, f) \cup {Len(s) + 1} ELSE Made(s, f)
         /\ IsFiniteSet(Made(s, f)) /\ Len(s) + 1 \notin Made(s, f)
<1> DEFINE u == Append(s, e)
<1>1. Len(s) \in Nat /\ Len(u) = Len(s) + 1
  BY AppendProperties
<1>2. \A i \in 1..(Len(s) + 1) : u[i] = IF i = Len(s) + 1 THEN e ELSE s[i]
  BY <1>1, AppendProperties
<1> HIDE DEF u
<1>3. Made(u, f) = IF e = f THEN Made(s, f) \cup {Len(s) + 1} ELSE Made(s, f)
  BY <1>1, <1>2 DEF Made
<1>4. IsFiniteSet(1..Len(s)) /\ Made(s, f) \in SUBSET (1..Len(s))
  BY <1>1, FS_Interval DEF Made
<1>5. IsFiniteSet(Made(s, f)) /\ Len(s) + 1 \notin Made(s, f)
  BY <1>1, <1>4, FS_Subset
<1> QED BY <1>3, <1>5 DEF u

LEMMA SaveOK ==
  ASSUME CrewInv, NEW h \in Humans, Save(h)
  PROVE  CrewInv' /\ BoardStep
<1>0. /\ StoreOK /\ OutboxOK /\ BoardInv /\ CopiesOK /\ ArtifactInv
      /\ op \in [Humans -> OpRec] /\ op[h] \in OpRec
  BY DEF CrewInv, CopiesOK
<1>1. UNCHANGED <<vars, outVars>>
  BY DEF Save
<1>2. StoreOK' /\ OutboxOK'
  BY <1>0, <1>1 DEF vars, outVars, StoreOK, OutboxOK, ProjOK, Known
<1>3. CASE op' = [op EXCEPT ![h] = NoOp] /\ UNCHANGED <<board, version>>
  <2>1. op' \in [Humans -> OpRec] /\ \A k \in Humans : op'[k] = op[k] \/ op'[k].pc # "save"
    BY <1>0, <1>3, NoOpOK
  <2>2. CopiesOK'
    BY <1>0, <1>3, <2>1, CopiesStay
  <2>3. ArtifactInv'
    BY <1>0, <1>1, <1>3 DEF vars, outVars, ArtifactInv, Made, Counted
  <2> QED BY <1>0, <1>2, <1>3, <2>2, <2>3, BoardStays DEF CrewInv
<1>4. CASE /\ Saves(h) /\ board' = op[h].copy /\ version' = version + 1
           /\ op' = [op EXCEPT ![h].pc = "autorun",
                       ![h].tasks = {t \in @ : Runnable(op[h].copy, t)}]
  <2> DEFINE c == op[h].copy
             o == [op[h] EXCEPT !.pc = "autorun", !.tasks = {t \in @ : Runnable(c, t)}]
  <2>1. Served(board, c) /\ op[h].version = version /\ version < MaxVersion /\ version \in 1..MaxVersion
    BY <1>0, <1>4 DEF Save, Saves, CopiesOK, BoardInv
  <2>2. op' = [op EXCEPT ![h] = o] /\ o \in OpRec /\ o.pc = "autorun"
    <3>1. o \in OpRec /\ o.pc = "autorun"
      BY <1>0 DEF OpRec
    <3> QED BY <1>0, <1>4, <3>1
  <2> HIDE DEF o
  <2>3. op' \in [Humans -> OpRec] /\ \A k \in Humans : k # h => op'[k] = op[k]
    BY <1>0, <2>2
  <2>4. CopiesOK'
    <3>1. ASSUME NEW k \in Humans, op'[k].pc = "save"
          PROVE  op'[k].version < version' /\ op'[k].version < MaxVersion
      <4>1. k # h /\ op'[k] = op[k]
        BY <1>0, <2>2, <2>3, <3>1
      <4>2. op[k].version <= version /\ op[k].version < MaxVersion /\ op[k].version \in Nat
        BY <1>0, <3>1, <4>1, BoardFacts DEF CopiesOK, OpRec
      <4> QED BY <1>4, <2>1, <4>1, <4>2
    <3>2. \A k \in Humans : op'[k].version \in Nat
      BY <2>3, BoardFacts DEF OpRec
    <3>3. version' \in Nat
      BY <1>4, <2>1
    <3> QED BY <2>3, <3>1, <3>2, <3>3 DEF CopiesOK
  <2>5. BoardInv'
    <3>1. c \in Boards /\ Gated(c)
      BY <1>0, <2>1, GatedKept DEF Served, BoardInv
    <3>2. version + 1 \in 1..MaxVersion
      BY <2>1, BoardFacts
    <3> QED BY <1>4, <3>1, <3>2 DEF BoardInv, Gated, DepsDone
  <2>6. 0 \in 0..MaxExecs
    BY BoardFacts
  <2>7. BoardStep
    BY <1>4, <2>1, <2>6 DEF BoardStep, Served
  <2>8. ArtifactInv'
    <3> SUFFICES ASSUME NEW e \in Execs, NEW t \in Tasks
                 PROVE  Cardinality(Made(c[t].artifacts, e))
                          = IF row[e].subject = t THEN Cardinality(Counted(e)) ELSE 0
      BY <1>1, <1>4 DEF vars, outVars, ArtifactInv, Made, Counted
    <3>1. board[t].artifacts \in Seq(0..MaxExecs)
      BY <1>0, TaskFields DEF BoardInv
    <3>2. 0 # e
      BY BoardFacts DEF Execs
    <3>3. Made(Append(board[t].artifacts, 0), e) = Made(board[t].artifacts, e)
      BY <2>6, <3>1, <3>2, MadeAppend
    <3>4. Made(c[t].artifacts, e) = Made(board[t].artifacts, e)
      BY <2>1, <3>3 DEF Served, SameOrMore
    <3> QED BY <1>0, <3>4 DEF ArtifactInv
  <2> QED BY <1>2, <2>4, <2>5, <2>7, <2>8 DEF CrewInv
<1> QED BY <1>3, <1>4 DEF Save

-----------------------------------------------------------------------------
(* The outbox.                                                              *)

(* The events of an execution are the same, and no event is newly marked    *)
(* delivered that was not applied.                                          *)
SameEvents(e) ==
  /\ Len(log'[e]) = Len(log[e])
  /\ \A n \in 1..Len(log[e]) :
       /\ log'[e][n].type = log[e][n].type
       /\ log'[e][n].state = "done" => log[e][n].state = "done" \/ n <= Len(applied[e])

LEMMA OutboxStep ==
  ASSUME CrewInv, UNCHANGED <<row, applied, board, version, op>>, ProjOK(proj'),
         log' \in [Execs -> Seq(Entry)], \A e \in Execs : SameEvents(e)
  PROVE  CrewInv' /\ BoardStep
<1>0. StoreOK /\ OutboxOK /\ BoardInv /\ CopiesOK /\ ArtifactInv
  BY DEF CrewInv
<1>1. StoreOK'
  <2>1. ASSUME NEW e \in Execs, log[e] = << >> PROVE log'[e] = << >>
    <3>1. log'[e] \in Seq(Entry) /\ Len(log'[e]) = 0
      BY <2>1 DEF SameEvents
    <3> QED BY <3>1, EmptySeq
  <2> QED BY <1>0, <2>1 DEF StoreOK
<1>2. OutboxOK'
  <2>1. \A e \in Execs : Known(e)' = Known(e)
    BY DEF Known, SameEvents
  <2>2. \A p \in Projectors : \A x \in proj'[p].todo \cup proj'[p].acking : x[1] \in Execs
    BY DEF ProjOK
  <2>3. ProjOK(proj)'
    BY <2>1, <2>2 DEF ProjOK
  <2>4. \A e \in Execs : \A n \in Known(e)' : log'[e][n].state = "done" => n <= Len(applied'[e])
    BY <1>0, <2>1 DEF OutboxOK, SameEvents, Known
  <2>5. \A e \in Execs : Len(applied'[e]) <= Len(log'[e])
    BY <1>0 DEF OutboxOK, SameEvents
  <2> QED BY <1>0, <2>3, <2>4, <2>5 DEF OutboxOK
<1>3. ArtifactInv'
  <2>1. ASSUME NEW e \in Execs PROVE Counted(e)' = Counted(e)
    <3>1. \A n \in 1..Len(applied[e]) : n \in 1..Len(log[e])
      BY <1>0, OutboxFacts
    <3> QED BY <3>1 DEF Counted, SameEvents
  <2> QED BY <1>0, <2>1 DEF ArtifactInv, Made
<1>4. CopiesOK'
  BY <1>0 DEF CopiesOK
<1> QED BY <1>0, <1>1, <1>2, <1>3, <1>4, BoardStays DEF CrewInv

LEMMA Unlogged ==
  ASSUME StoreOK, UNCHANGED log
  PROVE  log' \in [Execs -> Seq(Entry)] /\ \A e \in Execs : SameEvents(e)
BY DEF StoreOK, SameEvents

(* The entries of one log are rewritten in place.                           *)
LEMMA Rewritten ==
  ASSUME NEW L \in Seq(Entry), NEW M \in [DOMAIN L -> Entry]
  PROVE  M \in Seq(Entry) /\ Len(M) = Len(L) /\ DOMAIN L = 1..Len(L)
<1>1. DOMAIN L = 1..Len(L) /\ Len(L) \in Nat
  OBVIOUS
<1>2. M \in [1..Len(L) -> Entry]
  BY <1>1
<1>3. M \in Seq(Entry)
  BY <1>1, <1>2, SeqDef
<1> QED BY <1>1, <1>2, <1>3

LEMMA EntryOf ==
  ASSUME StoreOK, NEW e \in Execs, NEW n \in DOMAIN log[e]
  PROVE  log[e][n] \in Entry
<1>1. log[e] \in Seq(Entry)
  BY DEF StoreOK
<1> QED BY <1>1

LEMMA ClaimOutboxOK ==
  ASSUME CrewInv, NEW p \in Projectors, ClaimOutbox(p), UNCHANGED crewVars
  PROVE  CrewInv' /\ BoardStep
<1>0. StoreOK /\ OutboxOK /\ ProjOK(proj)
  BY DEF CrewInv, OutboxOK
<1>1. UNCHANGED <<row, applied, board, version, op>>
  BY DEF ClaimOutbox, crewVars
<1>2. ASSUME NEW e \in Execs
      PROVE  log'[e] \in Seq(Entry) /\ SameEvents(e)
  <2>1. log'[e] = [n \in DOMAIN log[e] |->
                     IF <<e, n>> \in Batch THEN [log[e][n] EXCEPT !.state = "held", !.by = p] ELSE log[e][n]]
    BY DEF ClaimOutbox
  <2>2. ASSUME NEW n \in DOMAIN log[e]
        PROVE  /\ log'[e][n] \in Entry /\ log'[e][n].type = log[e][n].type
               /\ log'[e][n].state = "done" => log[e][n].state = "done"
    <3> DEFINE m == [log[e][n] EXCEPT !.state = "held", !.by = p]
    <3>0. log[e][n] \in Entry
      BY <1>0, EntryOf
    <3>1. m \in Entry /\ m.type = log[e][n].type /\ m.state = "held"
      BY <3>0 DEF Entry
    <3>2. log'[e][n] = IF <<e, n>> \in Batch THEN m ELSE log[e][n]
      BY <2>1
    <3> HIDE DEF m
    <3> QED BY <3>0, <3>1, <3>2
  <2>3. log'[e] \in [DOMAIN log[e] -> Entry]
    BY <2>1, <2>2
  <2>4. log[e] \in Seq(Entry)
    BY <1>0 DEF StoreOK
  <2> QED BY <2>2, <2>3, <2>4, Rewritten DEF SameEvents
<1>3. log' \in [Execs -> Seq(Entry)]
  <2>1. log' = [e \in Execs |-> log'[e]]
    BY DEF ClaimOutbox
  <2> QED BY <1>2, <2>1
<1>4. ASSUME NEW x \in Batch
      PROVE  x \in Execs \X Nat /\ x[2] \in Known(x[1]) /\ x[2] <= Len(applied[x[1]]) + 1
  <2> DEFINE e == x[1]
             n == x[2]
  <2>1. x = <<e, n>> /\ e \in Execs /\ n \in HeadOpen(e)
    BY <1>4 DEF Batch
  <2>2. n \in DOMAIN log[e] /\ \A m \in 1..(n - 1) : log[e][m].state = "done"
    BY <2>1 DEF HeadOpen, AnyOpen
  <2> HIDE DEF e, n
  <2>3. n \in 1..Len(log[e]) /\ Len(log[e]) \in Nat /\ Len(applied[e]) \in Nat
    BY <1>0, <2>1, <2>2, OutboxFacts
  <2>4. n <= Len(applied[e]) + 1
    <3>1. CASE n = 1
      BY <2>3, <3>1
    <3>2. CASE n # 1
      <4>1. n - 1 \in 1..(n - 1) /\ n - 1 \in 1..Len(log[e])
        BY <2>3, <3>2
      <4>2. n - 1 <= Len(applied[e])
        BY <1>0, <2>1, <2>2, <4>1 DEF OutboxOK, Known
      <4> QED BY <2>3, <4>2
    <3> QED BY <3>1, <3>2
  <2> QED BY <2>1, <2>3, <2>4 DEF Known
<1>5. ProjOK(proj')
  <2>1. Batch \in SUBSET (Execs \X Nat)
    BY <1>4
  <2>2. proj' = [proj EXCEPT ![p].todo = Batch]
    BY DEF ClaimOutbox
  <2> QED BY <1>0, <1>4, <2>1, <2>2 DEF ProjOK
<1> QED BY <1>1, <1>2, <1>3, <1>5, OutboxStep

LEMMA AckOK ==
  ASSUME CrewInv, NEW p \in Projectors, Ack(p), UNCHANGED crewVars
  PROVE  CrewInv' /\ BoardStep
<1>0. StoreOK /\ OutboxOK /\ ProjOK(proj)
  BY DEF CrewInv, OutboxOK
<1>1. UNCHANGED <<row, applied, board, version, op>>
  BY DEF Ack, crewVars
<1>2. PICK x \in proj[p].acking :
        log' = [log EXCEPT ![x[1]][x[2]] =
                  IF @.state = "held" /\ @.by = p THEN [@ EXCEPT !.state = "done", !.by = Nobody] ELSE @]
  BY DEF Ack
<1>3. /\ x[1] \in Execs /\ x[2] \in 1..Len(log[x[1]]) /\ x[2] <= Len(applied[x[1]])
      /\ DOMAIN log[x[1]] = 1..Len(log[x[1]])
  BY <1>0, OutboxFacts DEF ProjOK, Known
<1> DEFINE d == x[1]
           k == x[2]
           m == [log[d][k] EXCEPT !.state = "done", !.by = Nobody]
           y == IF log[d][k].state = "held" /\ log[d][k].by = p THEN m ELSE log[d][k]
<1>4. y \in Entry /\ y.type = log[d][k].type
  <2>0. log[d][k] \in Entry
    BY <1>0, <1>3, EntryOf
  <2>1. m \in Entry /\ m.type = log[d][k].type
    BY <2>0 DEF Entry
  <2> HIDE DEF m
  <2> QED BY <2>0, <2>1
<1>5. log' = [log EXCEPT ![d] = [log[d] EXCEPT ![k] = y]]
  BY <1>0, <1>2, <1>3 DEF StoreOK
<1> HIDE DEF d, k, y
<1>6. d \in Execs /\ k \in 1..Len(log[d]) /\ k <= Len(applied[d]) /\ DOMAIN log[d] = 1..Len(log[d])
  BY <1>3 DEF d, k
<1>7. log \in [Execs -> Seq(Entry)] /\ log[d] \in Seq(Entry)
  BY <1>0, <1>6 DEF StoreOK
<1>8. /\ [log[d] EXCEPT ![k] = y] \in Seq(Entry)
      /\ Len([log[d] EXCEPT ![k] = y]) = Len(log[d])
      /\ \A n \in 1..Len(log[d]) : [log[d] EXCEPT ![k] = y][n] = IF n = k THEN y ELSE log[d][n]
  BY <1>4, <1>6, <1>7
<1>9. log' \in [Execs -> Seq(Entry)] /\ \A e \in Execs : SameEvents(e)
  <2>1. log' \in [Execs -> Seq(Entry)] /\ \A e \in Execs : e # d => log'[e] = log[e]
    BY <1>5, <1>7, <1>8
  <2>2. log'[d] = [log[d] EXCEPT ![k] = y]
    BY <1>5, <1>6, <1>7
  <2>3. SameEvents(d)
    BY <1>4, <1>6, <1>8, <2>2 DEF SameEvents, d, k
  <2> QED BY <2>1, <2>3 DEF SameEvents
<1>10. ProjOK(proj')
  <2>1. proj' = [proj EXCEPT ![p].acking = {}]
    BY DEF Ack
  <2> QED BY <1>0, <2>1 DEF ProjOK
<1> QED BY <1>1, <1>9, <1>10, OutboxStep

LEMMA LapseClaimOK ==
  ASSUME CrewInv, NEW e \in Execs, LapseClaim(e), UNCHANGED crewVars
  PROVE  CrewInv' /\ BoardStep
<1>0. StoreOK /\ OutboxOK /\ ProjOK(proj)
  BY DEF CrewInv, OutboxOK
<1>1. UNCHANGED <<row, applied, board, version, op, proj>>
  BY DEF LapseClaim, crewVars
<1>2. PICK k \in DOMAIN log[e] : log' = [log EXCEPT ![e][k].state = "lapsed"]
  BY DEF LapseClaim
<1> DEFINE y == [log[e][k] EXCEPT !.state = "lapsed"]
<1>3. y \in Entry /\ y.type = log[e][k].type /\ y.state = "lapsed"
  <2>1. log[e][k] \in Entry
    BY <1>0, EntryOf
  <2> QED BY <2>1 DEF Entry
<1>4. log \in [Execs -> Seq(Entry)] /\ log[e] \in Seq(Entry)
  BY <1>0 DEF StoreOK
<1>5. log' = [log EXCEPT ![e] = [log[e] EXCEPT ![k] = y]]
  BY <1>2, <1>4
<1> HIDE DEF y
<1>6. k \in 1..Len(log[e]) /\ DOMAIN log[e] = 1..Len(log[e])
  BY <1>0, OutboxFacts
<1>7. /\ [log[e] EXCEPT ![k] = y] \in Seq(Entry)
      /\ Len([log[e] EXCEPT ![k] = y]) = Len(log[e])
      /\ \A n \in 1..Len(log[e]) : [log[e] EXCEPT ![k] = y][n] = IF n = k THEN y ELSE log[e][n]
  BY <1>3, <1>4, <1>6
<1>8. log' \in [Execs -> Seq(Entry)] /\ \A d \in Execs : SameEvents(d)
  <2>1. log' \in [Execs -> Seq(Entry)] /\ \A d \in Execs : d # e => log'[d] = log[d]
    BY <1>4, <1>5, <1>7
  <2>2. log'[e] = [log[e] EXCEPT ![k] = y]
    BY <1>4, <1>5
  <2>3. SameEvents(e)
    BY <1>3, <1>6, <1>7, <2>2 DEF SameEvents
  <2> QED BY <2>1, <2>3 DEF SameEvents
<1>9. ProjOK(proj')
  BY <1>0, <1>1 DEF ProjOK
<1> QED BY <1>1, <1>8, <1>9, OutboxStep

(* A projector that crashes or gives an event up has less to do.            *)
LEMMA LetGoOK ==
  ASSUME CrewInv, NEW p \in Projectors, UNCHANGED <<row, log, applied>>, UNCHANGED crewVars,
         \/ proj' = [proj EXCEPT ![p] = NoBatch]
         \/ \E x : proj' = [proj EXCEPT ![p].todo = @ \ {x}]
  PROVE  CrewInv' /\ BoardStep
<1>0. StoreOK /\ OutboxOK /\ ProjOK(proj)
  BY DEF CrewInv, OutboxOK
<1>1. ProjOK(proj')
  BY <1>0 DEF ProjOK, NoBatch
<1>2. UNCHANGED <<board, version, op>>
  BY DEF crewVars
<1> QED BY <1>0, <1>1, <1>2, Unlogged, OutboxStep

LEMMA DeliverOK ==
  ASSUME CrewInv, Deliver, UNCHANGED crewVars
  PROVE  CrewInv' /\ BoardStep
<1>1. ASSUME NEW p \in Projectors, ProjectFails(p) \/ CrashProjector(p)
      PROVE  CrewInv' /\ BoardStep
  BY <1>1, LetGoOK DEF ProjectFails, CrashProjector
<1> QED BY <1>1, ClaimOutboxOK, AckOK, LapseClaimOK DEF Deliver

LEMMA RefusedOK ==
  ASSUME CrewInv, NEW p \in Projectors, ProjectRefused(p)
  PROVE  CrewInv' /\ BoardStep
BY LetGoOK DEF ProjectRefused

-----------------------------------------------------------------------------
(* The projection: the receipt and the board change, or an event that has   *)
(* its receipt already.                                                     *)

LEMMA CopiesAgeOK ==
  ASSUME CopiesOK, BoardInv, UNCHANGED op, version' \in {version, version + 1},
         board' # board => version' = version + 1
  PROVE  CopiesOK'
<1>1. version \in Nat
  BY BoardFacts DEF BoardInv
<1>2. ASSUME NEW h \in Humans, op[h].pc = "save"
      PROVE  /\ op[h].version <= version' /\ op[h].version < MaxVersion
             /\ op[h].version = version' => Served(board', op[h].copy)
  <2>1. op[h].version \in Nat
    BY BoardFacts DEF CopiesOK, OpRec
  <2>2. /\ op[h].version <= version /\ op[h].version < MaxVersion
        /\ op[h].version = version => Served(board, op[h].copy)
    BY <1>2 DEF CopiesOK
  <2>3. CASE version' = version
    BY <1>1, <2>2, <2>3
  <2>4. CASE version' = version + 1
    BY <1>1, <2>1, <2>2, <2>4
  <2> QED BY <2>3, <2>4
<1>3. op' \in [Humans -> OpRec]
  BY DEF CopiesOK
<1>4. \A h \in Humans : op'[h].pc = "save" =>
        /\ op'[h].version <= version' /\ op'[h].version < MaxVersion
        /\ op'[h].version = version' => Served(board', op'[h].copy)
  BY <1>2
<1> QED BY <1>3, <1>4 DEF CopiesOK

LEMMA AppliedAgain ==
  ASSUME CrewInv, NEW p \in Projectors, NEW x \in proj[p].todo, ~IsNew(x),
         proj' = [proj EXCEPT ![p].todo = @ \ {x}, ![p].acking = {x}],
         UNCHANGED <<row, log, applied, board, version, op>>
  PROVE  CrewInv' /\ BoardStep
<1>0. StoreOK /\ OutboxOK /\ ProjOK(proj)
  BY DEF CrewInv, OutboxOK
<1>1. x \in Execs \X Nat /\ x[1] \in Execs /\ x[2] \in Known(x[1])
  BY <1>0 DEF ProjOK
<1>2. x[2] <= Len(applied[x[1]])
  <2>1. Range(applied[x[1]]) = 1..Len(applied[x[1]])
    BY <1>0, <1>1, OutboxFacts
  <2> QED BY <2>1 DEF IsNew
<1>3. ProjOK(proj')
  BY <1>0, <1>1, <1>2 DEF ProjOK
<1> QED BY <1>0, <1>3, Unlogged, OutboxStep

LEMMA AppliedFirst ==
  ASSUME CrewInv, NEW p \in Projectors, NEW x \in proj[p].todo, IsNew(x),
         applied' = [applied EXCEPT ![x[1]] = Append(@, x[2])],
         proj' = [proj EXCEPT ![p].todo = @ \ {x}, ![p].acking = {x}],
         UNCHANGED <<row, log, op>>,
         ~Refuses(board, row[x[1]].subject, log[x[1]][x[2]].type), version < MaxVersion,
         board' = Projected(board, row[x[1]].subject, x[1], log[x[1]][x[2]].type),
         version' \in {version, version + 1}, board' # board => version' = version + 1
  PROVE  CrewInv' /\ BoardStep
<1> DEFINE e == x[1]
           n == x[2]
           t == row[e].subject
           type == log[e][n].type
<1>0. StoreOK /\ OutboxOK /\ ProjOK(proj) /\ BoardInv /\ CopiesOK /\ ArtifactInv
  BY DEF CrewInv, OutboxOK
<1>1. x = <<e, n>> /\ e \in Execs /\ n \in 1..Len(log[e]) /\ n <= Len(applied[e]) + 1
  BY <1>0 DEF ProjOK, Known
<1>2. /\ applied[e] \in Seq(Nat) /\ Len(applied[e]) \in Nat /\ Len(log[e]) \in Nat
      /\ Range(applied[e]) = 1..Len(applied[e])
  BY <1>0, <1>1, OutboxFacts
<1>3. n = Len(applied[e]) + 1
  BY <1>1, <1>2 DEF IsNew
<1>4. t \in Tasks \ Gates
  BY <1>0, <1>1, EmptySeq DEF StoreOK
<1>5. ProjectsTo(board, t, e, type, board')
  BY <1>0, <1>1, <1>4, ProjectedMoves DEF BoardInv
<1> HIDE DEF e, n, t, type
<1>6. /\ applied' \in [Execs -> Seq(Nat)] /\ applied'[e] = Append(applied[e], n)
      /\ \A d \in Execs : d # e => applied'[d] = applied[d]
  <2>1. applied' = [applied EXCEPT ![e] = Append(applied[e], n)]
    BY <1>0, <1>1 DEF e, n, OutboxOK
  <2>2. Append(applied[e], n) \in Seq(Nat)
    BY <1>1, <1>2, AppendProperties
  <2> QED BY <1>0, <1>1, <2>1, <2>2 DEF OutboxOK
<1>7. Len(applied'[e]) = n /\ \A i \in 1..n : applied'[e][i] = i
  <2>1. \A i \in 1..Len(applied[e]) : applied[e][i] = i
    BY <1>0, <1>1 DEF OutboxOK
  <2>2. /\ Len(Append(applied[e], n)) = Len(applied[e]) + 1
        /\ \A i \in 1..Len(applied[e]) : Append(applied[e], n)[i] = applied[e][i]
        /\ Append(applied[e], n)[Len(applied[e]) + 1] = n
    BY <1>1, <1>2, AppendProperties
  <2> QED BY <1>2, <1>3, <1>6, <2>1, <2>2
<1>8. StoreOK'
  BY <1>0 DEF StoreOK
<1>9. \A d \in Execs : Len(applied[d]) \in Nat /\ Len(applied[d]) <= Len(applied'[d])
  BY <1>0, <1>3, <1>6, <1>7, OutboxFacts
<1>10. OutboxOK'
  <2>1. \A d \in Execs : /\ Len(applied'[d]) <= Len(log[d])
                         /\ \A i \in 1..Len(applied'[d]) : applied'[d][i] = i
    BY <1>0, <1>1, <1>6, <1>7 DEF OutboxOK
  <2>2. \A d \in Execs : \A k \in Known(d) : log[d][k].state = "done" => k <= Len(applied'[d])
    <3> SUFFICES ASSUME NEW d \in Execs, NEW k \in Known(d), log[d][k].state = "done"
                 PROVE  k <= Len(applied'[d])
      OBVIOUS
    <3>1. k <= Len(applied[d]) /\ k \in Nat
      BY <1>0 DEF OutboxOK, Known
    <3>2. Len(applied'[d]) \in Nat
      BY <1>6
    <3> QED BY <1>9, <3>1, <3>2
  <2>3. ProjOK(proj)'
    <3>1. /\ proj' \in [Projectors -> [todo : SUBSET (Execs \X Nat), acking : SUBSET (Execs \X Nat)]]
          /\ \A q \in Projectors : /\ proj'[q].todo \subseteq proj[q].todo
                                  /\ proj'[q].acking \subseteq proj[q].acking \cup {x}
      BY <1>0 DEF ProjOK
    <3>2. ASSUME NEW q \in Projectors, NEW y \in proj'[q].todo
          PROVE  y[2] \in Known(y[1]) /\ y[2] <= Len(applied'[y[1]]) + 1
      <4>1. y \in Execs \X Nat /\ y \in proj[q].todo
        BY <3>1
      <4>2. y[1] \in Execs /\ y[2] \in Nat /\ y[2] \in Known(y[1]) /\ y[2] <= Len(applied[y[1]]) + 1
        BY <1>0, <4>1 DEF ProjOK
      <4>3. Len(applied'[y[1]]) \in Nat
        BY <1>6, <4>2
      <4> QED BY <1>9, <4>2, <4>3
    <3>3. ASSUME NEW q \in Projectors, NEW y \in proj'[q].acking
          PROVE  y[2] \in Known(y[1]) /\ y[2] <= Len(applied'[y[1]])
      <4>1. CASE y = x
        BY <1>1, <1>7, <4>1 DEF Known, e, n
      <4>2. CASE y \in proj[q].acking
        <5>1. y[1] \in Execs /\ y[2] \in Nat /\ y[2] \in Known(y[1]) /\ y[2] <= Len(applied[y[1]])
          BY <1>0, <4>2 DEF ProjOK
        <5>2. Len(applied'[y[1]]) \in Nat
          BY <1>6, <5>1
        <5> QED BY <1>9, <5>1, <5>2
      <4> QED BY <3>1, <4>1, <4>2
    <3> QED BY <3>1, <3>2, <3>3 DEF ProjOK, Known
  <2> QED BY <1>6, <2>1, <2>2, <2>3 DEF OutboxOK, Known
<1>11. board' \in Boards /\ Moves(board, board')
  BY <1>5 DEF ProjectsTo
<1>12. BoardInv'
  <2>1. version' \in 1..MaxVersion
    BY <1>0, BoardFacts DEF BoardInv
  <2>2. Gated(board')
    BY <1>0, <1>11, GatedKept DEF BoardInv
  <2> QED BY <1>11, <2>1, <2>2 DEF BoardInv, Gated, DepsDone
<1>13. CopiesOK'
  BY <1>0, CopiesAgeOK
<1>14. BoardStep
  <2>1. 0 \in 0..MaxExecs /\ e \in 0..MaxExecs
    BY <1>1, BoardFacts DEF Execs
  <2> QED BY <1>5, <2>1 DEF BoardStep, ProjectsTo, SameOrMore
<1>15. ArtifactInv'
  <2> SUFFICES ASSUME NEW d \in Execs, NEW u \in Tasks
               PROVE  Cardinality(Made(board'[u].artifacts, d))
                        = IF row[d].subject = u THEN Cardinality(Counted(d)') ELSE 0
    BY DEF ArtifactInv, Made
  <2>1. board[u].artifacts \in Seq(0..MaxExecs) /\ e \in 0..MaxExecs
    <3>1. e \in 0..MaxExecs
      BY <1>1, BoardFacts DEF Execs
    <3> QED BY <1>0, <3>1, TaskFields DEF BoardInv
  <2>2. Cardinality(Made(board[u].artifacts, d)) = IF row[d].subject = u THEN Cardinality(Counted(d)) ELSE 0
    BY <1>0 DEF ArtifactInv
  <2>3. /\ Counted(d)' = IF d = e /\ type = "artifact" THEN Counted(d) \cup {n} ELSE Counted(d)
        /\ IsFiniteSet(Counted(d)) /\ (d = e => n \notin Counted(d))
    <3>1. IsFiniteSet(Counted(d))
      <4>1. Len(applied[d]) \in Nat
        BY <1>9
      <4>2. 1 \in Int /\ Len(applied[d]) \in Int
        BY <4>1
      <4>3. IsFiniteSet(1..Len(applied[d]))
        BY <4>2, FS_Interval
      <4>4. Counted(d) \in SUBSET (1..Len(applied[d]))
        BY DEF Counted
      <4> QED BY <4>3, <4>4, FS_Subset
    <3>2. CASE d # e
      BY <1>6, <3>1, <3>2 DEF Counted
    <3>3. CASE d = e
      <4>1. 1..n = 1..Len(applied[e]) \cup {n} /\ n \notin 1..Len(applied[e])
        BY <1>2, <1>3
      <4>2. Counted(e)' = {k \in 1..n : log[e][k].type = "artifact"}
        BY <1>7 DEF Counted
      <4> QED BY <3>1, <3>3, <4>1, <4>2 DEF Counted, type
    <3> QED BY <3>2, <3>3
  <2>4. CASE type = "artifact" /\ u = t
    <3>1. board'[u].artifacts = Append(board[u].artifacts, e)
      BY <1>5, <2>4 DEF ProjectsTo
    <3>2. CASE d = e
      <4>0. /\ Made(Append(board[u].artifacts, e), d)
                 = IF e = d THEN Made(board[u].artifacts, d) \cup {Len(board[u].artifacts) + 1}
                   ELSE Made(board[u].artifacts, d)
            /\ IsFiniteSet(Made(board[u].artifacts, d))
            /\ Len(board[u].artifacts) + 1 \notin Made(board[u].artifacts, d)
        BY <2>1, MadeAppend
      <4>1. Made(board'[u].artifacts, d) = Made(board[u].artifacts, d) \cup {Len(board[u].artifacts) + 1}
        BY <3>1, <3>2, <4>0
      <4>2. Cardinality(Made(board'[u].artifacts, d)) = Cardinality(Made(board[u].artifacts, d)) + 1
        <5>1. Cardinality(Made(board[u].artifacts, d) \cup {Len(board[u].artifacts) + 1})
                = Cardinality(Made(board[u].artifacts, d)) + 1
          BY <4>0, FS_AddElement
        <5> QED BY <4>1, <5>1
      <4>3. Cardinality(Counted(d)') = Cardinality(Counted(d)) + 1
        BY <2>3, <2>4, <3>2, FS_AddElement
      <4> QED BY <2>2, <2>4, <3>2, <4>2, <4>3 DEF t
    <3>3. CASE d # e
      <4>0. Made(Append(board[u].artifacts, e), d)
              = IF e = d THEN Made(board[u].artifacts, d) \cup {Len(board[u].artifacts) + 1}
                ELSE Made(board[u].artifacts, d)
        BY <2>1, MadeAppend
      <4>1. Made(board'[u].artifacts, d) = Made(board[u].artifacts, d)
        BY <3>1, <3>3, <4>0
      <4> QED BY <2>2, <2>3, <3>3, <4>1
    <3> QED BY <3>2, <3>3
  <2>5. CASE type = "artifact" /\ u # t
    <3>1. board'[u].artifacts = board[u].artifacts
      BY <1>5, <2>5 DEF ProjectsTo
    <3>2. CASE d = e
      BY <2>2, <2>5, <3>1, <3>2 DEF t
    <3>3. CASE d # e
      BY <2>2, <2>3, <3>1, <3>3
    <3> QED BY <3>2, <3>3
  <2>6. CASE type # "artifact"
    <3>1. board'[u].artifacts = board[u].artifacts
      BY <1>5, <2>6 DEF ProjectsTo
    <3> QED BY <2>2, <2>3, <2>6, <3>1
  <2> QED BY <2>4, <2>5, <2>6
<1> QED BY <1>8, <1>10, <1>12, <1>13, <1>14, <1>15 DEF CrewInv

LEMMA ProjectEventOK ==
  ASSUME CrewInv, NEW p \in Projectors, ProjectEvent(p)
  PROVE  CrewInv' /\ BoardStep
<1>0. ProjOK(proj) /\ applied \in [Execs -> Seq(Nat)]
  BY DEF CrewInv, OutboxOK
<1>1. PICK x \in proj[p].todo :
        /\ applied' = [applied EXCEPT ![x[1]] = IF IsNew(x) THEN Append(@, x[2]) ELSE @]
        /\ proj' = [proj EXCEPT ![p].todo = @ \ {x}, ![p].acking = {x}]
  BY DEF ProjectEvent, Project
<1>2. UNCHANGED <<row, log, op>>
  BY DEF ProjectEvent, Project
<1>3. proj'[p].acking = {x}
  BY <1>0, <1>1 DEF ProjOK
<1>4. IF IsNew(x)
      THEN /\ ~Refuses(board, row[x[1]].subject, log[x[1]][x[2]].type) /\ version < MaxVersion
           /\ board' = Projected(board, row[x[1]].subject, x[1], log[x[1]][x[2]].type)
           /\ version' \in {version, version + 1} /\ (board' # board => version' = version + 1)
      ELSE UNCHANGED <<board, version>>
  BY <1>3 DEF ProjectEvent
<1>5. CASE IsNew(x)
  <2>1. applied' = [applied EXCEPT ![x[1]] = Append(@, x[2])]
    BY <1>1, <1>5
  <2> QED BY <1>1, <1>2, <1>4, <1>5, <2>1, AppliedFirst
<1>6. CASE ~IsNew(x)
  <2>1. applied' = applied
    BY <1>0, <1>1, <1>6
  <2> QED BY <1>1, <1>2, <1>4, <1>6, <2>1, AppliedAgain
<1> QED BY <1>5, <1>6

-----------------------------------------------------------------------------
(* Dispatches.                                                              *)

LEMMA AgentTask ==
  ASSUME BoardInv, NEW t \in Tasks, board[t].assignee \in Agents
  PROVE  t \in Tasks \ Gates
BY BoardFacts DEF BoardInv, Boards

LEMMA AutorunOK ==
  ASSUME CrewInv, NEW h \in Humans, Autorun(h)
  PROVE  CrewInv' /\ BoardStep
<1>0. StoreOK /\ BoardInv /\ op \in [Humans -> OpRec] /\ op[h] \in OpRec /\ op[h].pc = "autorun"
  BY DEF CrewInv, CopiesOK, Autorun
<1>1. UNCHANGED <<outVars, board, version>>
  BY DEF Autorun
<1>2. /\ op' \in [Humans -> OpRec]
      /\ \A k \in Humans : op'[k] = op[k] \/ op'[k].pc # "save"
  <2>1. CASE op' = [op EXCEPT ![h] = NoOp]
    BY <1>0, <2>1, NoOpOK
  <2>2. ASSUME NEW t \in op[h].tasks, op' = [op EXCEPT ![h].tasks = @ \ {t}]
        PROVE  /\ op' \in [Humans -> OpRec]
               /\ \A k \in Humans : op'[k] = op[k] \/ op'[k].pc # "save"
    <3> DEFINE o == [op[h] EXCEPT !.tasks = @ \ {t}]
    <3>1. o \in OpRec /\ o.pc = "autorun"
      BY <1>0 DEF OpRec
    <3>2. op' = [op EXCEPT ![h] = o]
      BY <1>0, <2>2
    <3> HIDE DEF o
    <3> QED BY <1>0, <3>1, <3>2
  <2> QED BY <2>1, <2>2 DEF Autorun
<1>3. StoreMoves
  <2>1. CASE UNCHANGED vars
    BY <1>0, <2>1, QuietMoves DEF vars
  <2>2. ASSUME NEW t \in op[h].tasks, IsAgentTask(t), DispatchStart(<<"run", t, version>>, t)
        PROVE  StoreMoves
    <3>1. t \in Tasks \ Gates
      BY <1>0, <2>2, AgentTask DEF IsAgentTask, OpRec
    <3> QED BY <1>0, <2>2, <3>1, CreateMoves
  <2> QED BY <2>1, <2>2 DEF Autorun
<1> QED BY <1>1, <1>2, <1>3, StoreStep

(* The service is not concerned.                                            *)
LEMMA KernelStep ==
  ASSUME CrewInv, StoreMoves, UNCHANGED <<outVars, board, version, op>>
  PROVE  CrewInv' /\ BoardStep
<1>1. op' \in [Humans -> OpRec] /\ \A h \in Humans : op'[h] = op[h]
  BY DEF CrewInv, CopiesOK
<1> QED BY <1>1, StoreStep

LEMMA DispatchOK ==
  ASSUME CrewInv, DispatchStep
  PROVE  CrewInv' /\ BoardStep
<1>0. StoreOK /\ BoardInv
  BY DEF CrewInv
<1>1. UNCHANGED <<outVars, board, version, op>>
  BY DEF DispatchStep, RunAgent, Say, Signal, crewVars
<1>2. ASSUME NEW t \in Tasks, RunAgent(t) PROVE StoreMoves
  <2>1. t \in Tasks \ Gates /\ DispatchStart(<<"run", t, version>>, t)
    BY <1>2 DEF RunAgent, Runnable
  <2> QED BY <1>0, <2>1, CreateMoves
<1>3. ASSUME NEW t \in Tasks, NEW m \in Messages, Say(t, m) PROVE StoreMoves
  <2>1. t \in Tasks \ Gates
    BY <1>0, <1>3, AgentTask DEF Say, IsAgentTask
  <2>2. CASE DispatchStart(<<"say", t, m>>, t)
    BY <1>0, <2>1, <2>2, CreateMoves
  <2>3. CASE UNCHANGED vars
    BY <1>0, <2>3, QuietMoves DEF vars
  <2> QED BY <1>3, <2>2, <2>3 DEF Say
<1>4. ASSUME NEW r \in Requests, NEW e \in Execs, Signal(r, e) PROVE StoreMoves
  BY <1>0, <1>4, SignalMoves DEF Signal
<1>5. StoreMoves
  BY <1>2, <1>3, <1>4 DEF DispatchStep
<1> QED BY <1>1, <1>5, KernelStep

-----------------------------------------------------------------------------
(* Members.                                                                 *)

LEMMA ServiceOK ==
  ASSUME CrewInv, ServiceStep
  PROVE  CrewInv' /\ BoardStep
<1>0. BoardInv /\ board \in Boards
  BY DEF CrewInv, BoardInv
<1> SUFFICES ASSUME NEW h \in Humans,
                    \/ \E t \in Tasks : \/ Start(h, t) \/ Submit(h, t)
                                        \/ \E m \in Members : Assign(h, t, m)
                    \/ \E g \in Gates, approved \in BOOLEAN : Review(h, g, approved)
                    \/ Save(h) \/ Autorun(h)
             PROVE  CrewInv' /\ BoardStep
  BY DEF ServiceStep
<1>1. ASSUME NEW t \in Tasks, Start(h, t) PROVE CrewInv' /\ BoardStep
  <2>1. CanStart(board, t) /\ Change(h, Started(board, t), {})
    BY <1>1 DEF Start
  <2>2. Served(board, Started(board, t))
    BY <1>0, <2>1, StartedServed DEF BoardInv
  <2> QED BY <2>1, <2>2, ChangeOK
<1>2. ASSUME NEW t \in Tasks, Submit(h, t) PROVE CrewInv' /\ BoardStep
  <2> DEFINE c == Submitted(board, t, 0)
  <2>1. CanSubmit(board, t) /\ Change(h, c, NewlyActive(board, c))
    BY <1>2 DEF Submit
  <2>2. Served(board, c)
    BY <1>0, <2>1, SubmittedServed DEF BoardInv
  <2>3. NewlyActive(board, c) \in SUBSET Tasks
    BY DEF NewlyActive
  <2> HIDE DEF c
  <2> QED BY <2>1, <2>2, <2>3, ChangeOK
<1>3. ASSUME NEW t \in Tasks, NEW m \in Members, Assign(h, t, m) PROVE CrewInv' /\ BoardStep
  <2>1. CanAssign(board, t) /\ Change(h, Assigned(board, t, m), {t})
    BY <1>3 DEF Assign
  <2>2. Served(board, Assigned(board, t, m))
    BY <1>0, <2>1, AssignedServed
  <2> QED BY <2>1, <2>2, ChangeOK
<1>4. ASSUME NEW g \in Gates, NEW approved \in BOOLEAN, Review(h, g, approved)
      PROVE  CrewInv' /\ BoardStep
  <2> DEFINE c == Reviewed(board, g, approved)
             open == {t \in NewlyActive(board, c) \ Gates : c[t].status = "todo"}
             d(m) == [t \in Tasks |-> IF t \in open /\ m # NoMember
                                      THEN Assigned(c, t, m)[t] ELSE c[t]]
  <2>1. CanReview(board, g)
    BY <1>4 DEF Review
  <2>2. PICK m \in Members \cup {NoMember} : Change(h, d(m), NewlyActive(board, c))
    BY <1>4 DEF Review
  <2>3. Served(board, d(m))
    BY <1>0, <2>1, ReviewServed DEF BoardInv
  <2>4. NewlyActive(board, c) \in SUBSET Tasks
    BY DEF NewlyActive
  <2> HIDE DEF c, d
  <2> QED BY <2>2, <2>3, <2>4, ChangeOK
<1> QED BY <1>1, <1>2, <1>3, <1>4, SaveOK, AutorunOK

-----------------------------------------------------------------------------
(* Workers, with the Crew adapter as their loop.                            *)

LEMMA ConcludeMoves ==
  ASSUME StoreOK, NEW w \in Workers, NEW s \in Active \cup Terminal, NEW used,
         NEW type \in EventTypes, Conclude(w, s, used, <<type>>)
  PROVE  StoreMoves /\ UNCHANGED <<outVars, board, version, op>>
<1>1. Commit(w, s, used, <<type>>)
  BY DEF Conclude
<1>2. <<type>> \in Seq(EventTypes)
  BY OneType
<1>3. UNCHANGED <<outVars, board, version, op>>
  BY DEF Conclude
<1> QED BY <1>1, <1>2, <1>3, CommitMoves

LEMMA AdapterReturnMoves ==
  ASSUME StoreOK, NEW w \in Workers, AdapterReturn(w)
  PROVE  StoreMoves /\ UNCHANGED <<outVars, board, version, op>>
<1>1. \E s \in {"awaiting_signal", "succeeded", "failed"}, used \in {{}, Applied(w)},
         type \in LoopTypes : Conclude(w, s, used, <<type>>)
  BY DEF AdapterReturn, LoopTypes
<1>2. PICK s \in {"awaiting_signal", "succeeded", "failed"}, used \in {{}, Applied(w)},
           type \in LoopTypes : Conclude(w, s, used, <<type>>)
  BY <1>1
<1>3. s \in Active \cup Terminal /\ type \in EventTypes
  BY DEF Active, Terminal, EventTypes
<1> QED BY <1>2, <1>3, ConcludeMoves

LEMMA DriveOK ==
  ASSUME CrewInv, DriveStep
  PROVE  CrewInv' /\ BoardStep
<1>0. StoreOK
  BY DEF CrewInv
<1>1. ASSUME NEW w \in Workers, AdapterBegin(w) PROVE CrewInv' /\ BoardStep
  <2>1. UNCHANGED <<row, log>> /\ UNCHANGED <<outVars, board, version, op>>
    BY <1>1 DEF AdapterBegin, Fetch
  <2> QED BY <1>0, <2>1, QuietMoves, KernelStep
<1>2. ASSUME NEW w \in Workers, AdapterReturn(w) PROVE CrewInv' /\ BoardStep
  BY <1>0, <1>2, AdapterReturnMoves, KernelStep
<1>3. ASSUME \/ \E w \in Workers : Claim(w) \/ LoseFence(w) \/ Interrupt(w) \/ RequeueClaimed(w) \/ Crash(w)
             \/ \E e \in Execs : Lapse(e),
             UNCHANGED <<outVars, crewVars>>
      PROVE  CrewInv' /\ BoardStep
  <2>1. UNCHANGED <<outVars, board, version, op>>
    BY <1>3 DEF crewVars
  <2>2. ASSUME NEW w \in Workers, LoseFence(w) \/ Interrupt(w) \/ Crash(w) PROVE StoreMoves
    <3>1. UNCHANGED <<row, log>>
      BY <2>2 DEF LoseFence, Interrupt, Crash
    <3> QED BY <1>0, <3>1, QuietMoves
  <2>3. ASSUME NEW w \in Workers, Claim(w) PROVE StoreMoves
    BY <1>0, <2>3, ClaimMoves DEF Claim
  <2>4. StoreMoves
    BY <1>0, <1>3, <2>2, <2>3, RequeueMoves, LapseMoves
  <2> QED BY <2>1, <2>4, KernelStep
<1> QED BY <1>1, <1>2, <1>3 DEF DriveStep

-----------------------------------------------------------------------------
(* The invariant, and what every step does to the board.                    *)

LEMMA CrewInvInit == CrewInit => CrewInv
<1> SUFFICES ASSUME CrewInit PROVE CrewInv
  OBVIOUS
<1>1. StoreOK
  <2>1. Unused \in RowRec /\ Unused.status = "unused" /\ << >> \in Seq(Entry)
    BY DEF Unused, RowRec
  <2> QED BY <2>1 DEF CrewInit, Init, StoreOK
<1>2. \A e \in Execs : Len(log[e]) = 0 /\ Len(applied[e]) = 0 /\ applied[e] = << >>
  BY DEF CrewInit, Init, OutboxInit
<1>3. OutboxOK
  <2>1. ProjOK(proj)
    BY DEF CrewInit, OutboxInit, NoBatch, ProjOK
  <2>2. applied \in [Execs -> Seq(Nat)]
    <3>1. << >> \in Seq(Nat)
      OBVIOUS
    <3> QED BY <3>1 DEF CrewInit, OutboxInit
  <2> QED BY <1>2, <2>1, <2>2 DEF OutboxOK, Known
<1>4. BoardInv
  <2>1. 1 \in 1..MaxVersion
    BY BoardFacts
  <2> QED BY <2>1, NewBoardOK DEF CrewInit, BoardInv
<1>5. CopiesOK
  BY NoOpOK DEF CrewInit, CopiesOK
<1>6. ArtifactInv
  <2>1. ASSUME NEW e \in Execs, NEW t \in Tasks
        PROVE  Cardinality(Made(board[t].artifacts, e)) = 0 /\ Cardinality(Counted(e)) = 0
    <3>1. board[t].artifacts = << >> /\ applied[e] = << >>
      BY DEF CrewInit, NewBoard, OutboxInit
    <3>2. Made(board[t].artifacts, e) = {} /\ Counted(e) = {}
      BY <3>1 DEF Made, Counted
    <3> QED BY <3>2, FS_EmptySet
  <2> QED BY <2>1 DEF ArtifactInv
<1> QED BY <1>1, <1>3, <1>4, <1>5, <1>6 DEF CrewInv

LEMMA CrewInvNext == CrewInv /\ [CrewNext]_allVars => CrewInv' /\ BoardStep
<1> SUFFICES ASSUME CrewInv, [CrewNext]_allVars PROVE CrewInv' /\ BoardStep
  OBVIOUS
<1>1. CASE DeliverStep
  BY <1>1, ProjectEventOK, RefusedOK, DeliverOK DEF DeliverStep
<1>2. CASE UNCHANGED allVars
  <2>1. UNCHANGED <<row, log>> /\ UNCHANGED <<outVars, board, version, op>>
    BY <1>2 DEF allVars, vars, crewVars
  <2>2. StoreMoves
    BY <2>1, QuietMoves DEF CrewInv
  <2> QED BY <2>1, <2>2, KernelStep
<1> QED BY <1>1, <1>2, ServiceOK, DispatchOK, DriveOK DEF CrewNext

LEMMA CrewInvariant == CrewSpec => []CrewInv
<1>1. CrewInv /\ [CrewNext]_allVars => CrewInv'
  BY CrewInvNext
<1> QED BY <1>1, CrewInvInit, PTL DEF CrewSpec

(* The board stays a board, whoever changes it: gates have no assignee and  *)
(* no artifact, artifacts name executions, versions stay in their range.    *)
THEOREM BoardStaysBoard == CrewSpec => []BoardOK
<1>1. CrewInv => BoardOK
  <2> SUFFICES ASSUME CrewInv PROVE BoardOK
    OBVIOUS
  <2>1. board \in Boards /\ version \in 1..MaxVersion
    BY DEF CrewInv, BoardInv
  <2>2. ASSUME NEW t \in Tasks
        PROVE  /\ board[t].status \in Statuses /\ board[t].assignee \in Members \cup {NoMember}
               /\ board[t].run \in 0..MaxExecs
               /\ \A i \in DOMAIN board[t].artifacts : board[t].artifacts[i] \in 0..MaxExecs
               /\ t \in Gates => board[t].assignee = NoMember /\ board[t].artifacts = << >>
    <3>1. board[t] \in TaskRec
      BY <2>1 DEF Boards
    <3>2. board[t].artifacts \in Seq(0..MaxExecs)
      BY <3>1 DEF TaskRec
    <3>3. \A i \in DOMAIN board[t].artifacts : board[t].artifacts[i] \in 0..MaxExecs
      <4>1. DOMAIN board[t].artifacts = 1..Len(board[t].artifacts)
        BY <3>2
      <4> QED BY <3>2, <4>1, ElementOfSeq
    <3> QED BY <2>1, <3>1, <3>3 DEF TaskRec, Boards
  <2> QED BY <2>1, <2>2 DEF BoardOK
<1> QED BY <1>1, CrewInvariant, PTL

(* Work never gets past its gate: whoever moved a task, what it depends on  *)
(* is done, and reviewed work is done exactly when a gate of it is.         *)
THEOREM WorkPassesItsGate == CrewSpec => []GatesHold
<1>1. CrewInv => GatesHold
  BY DEF CrewInv, BoardInv, Gated, DepsDone, InWork, GatesHold
<1> QED BY <1>1, CrewInvariant, PTL

(* An artifact is on the board once for each projected event that brought   *)
(* it, on the task of its execution, and nowhere else.                      *)
THEOREM ArtifactsOnce == CrewSpec => []ArtifactOnce
<1>1. CrewInv => ArtifactOnce
  <2> SUFFICES ASSUME CrewInv, NEW e \in Execs, NEW t \in Tasks
               PROVE  Cardinality({i \in DOMAIN board[t].artifacts : board[t].artifacts[i] = e})
                        = IF row[e].subject = t
                          THEN Cardinality(ArtifactEvents(e) \cap Range(applied[e])) ELSE 0
    BY DEF ArtifactOnce
  <2>1. board[t].artifacts \in Seq(0..MaxExecs)
    BY TaskFields DEF CrewInv, BoardInv
  <2>2. {i \in DOMAIN board[t].artifacts : board[t].artifacts[i] = e} = Made(board[t].artifacts, e)
    BY <2>1 DEF Made
  <2>3. ArtifactEvents(e) \cap Range(applied[e]) = Counted(e)
    <3>1. /\ Len(applied[e]) \in Nat /\ Len(log[e]) \in Nat /\ Len(applied[e]) <= Len(log[e])
          /\ DOMAIN log[e] = 1..Len(log[e]) /\ Range(applied[e]) = 1..Len(applied[e])
      BY OutboxFacts DEF CrewInv
    <3> QED BY <3>1 DEF ArtifactEvents, Counted
  <2>4. ArtifactInv
    BY DEF CrewInv
  <2> QED BY <2>2, <2>3, <2>4 DEF ArtifactInv
<1> QED BY <1>1, CrewInvariant, PTL

(* The projection applies the events of an execution in their order, each   *)
(* once, and nothing is marked delivered that it did not apply.             *)
THEOREM AppliedInOrder == CrewSpec => []ProjectedInOrder
<1>1. CrewInv => ProjectedInOrder
  <2> SUFFICES ASSUME CrewInv, NEW e \in Execs
               PROVE  /\ \A i \in DOMAIN applied[e] : applied[e][i] = i
                      /\ \A n \in DOMAIN log[e] : log[e][n].state = "done" => n <= Len(applied[e])
    BY DEF ProjectedInOrder
  <2>1. StoreOK /\ OutboxOK
    BY DEF CrewInv
  <2>2. DOMAIN applied[e] = 1..Len(applied[e]) /\ DOMAIN log[e] = 1..Len(log[e])
    BY <2>1, OutboxFacts
  <2> QED BY <2>1, <2>2 DEF OutboxOK, Known
<1> QED BY <1>1, CrewInvariant, PTL

(* No step of a member, a worker or a projector takes an artifact version   *)
(* away, adds two or reopens a finished task.                               *)
THEOREM HistoryIsKept == CrewSpec => HistoryKept
<1> DEFINE Kept(t) ==
      LET old == board[t].artifacts  new == board'[t].artifacts IN
        /\ Len(new) \in {Len(old), Len(old) + 1} /\ IsPrefix(old, new)
        /\ board[t].status = "done" => board'[t].status = "done"
<1>1. CrewInv /\ [CrewNext]_allVars => \A t \in Tasks : Kept(t)
  <2> SUFFICES ASSUME CrewInv, [CrewNext]_allVars, NEW t \in Tasks PROVE Kept(t)
    OBVIOUS
  <2>1. BoardStep /\ Gated(board) /\ board \in Boards
    BY CrewInvNext DEF CrewInv, BoardInv
  <2>2. board[t].status = "done" => board'[t].status = "done"
    BY <2>1, GatedKept DEF BoardStep
  <2>3. board[t].artifacts \in Seq(0..MaxExecs)
    BY <2>1, TaskFields
  <2>4. PICK e \in 0..MaxExecs : SameOrMore(board[t].artifacts, board'[t].artifacts, e)
    BY <2>1 DEF BoardStep
  <2>5. ASSUME NEW s \in Seq(0..MaxExecs), NEW u, SameOrMore(s, u, e)
        PROVE  Len(u) \in {Len(s), Len(s) + 1} /\ IsPrefix(s, u)
    <3>1. CASE u = s
      BY <3>1 DEF IsPrefix
    <3>2. CASE u = Append(s, e)
      <4>1. /\ Len(s) \in Nat /\ Len(u) = Len(s) + 1
            /\ \A i \in 1..Len(s) : u[i] = s[i]
        BY <3>2, AppendProperties
      <4>2. SubSeq(s, 1, Len(s)) = SubSeq(u, 1, Len(s))
        BY <4>1
      <4> QED BY <4>1, <4>2 DEF IsPrefix
    <3> QED BY <2>5, <3>1, <3>2 DEF SameOrMore
  <2>6. /\ Len(board'[t].artifacts) \in {Len(board[t].artifacts), Len(board[t].artifacts) + 1}
        /\ IsPrefix(board[t].artifacts, board'[t].artifacts)
    BY <2>3, <2>4, <2>5
  <2> QED BY <2>2, <2>6
<1>2. CrewInv /\ [CrewNext]_allVars => [\A t \in Tasks : Kept(t)]_allVars
  BY <1>1
<1> QED BY <1>2, CrewInvariant, PTL DEF CrewSpec, HistoryKept
=============================================================================
