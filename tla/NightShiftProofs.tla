-------------------------- MODULE NightShiftProofs --------------------------
(***************************************************************************)
(* What is proved about NightShift for every set of jobs, workers and      *)
(* approvals and any number of processes: a job that is over stays over,   *)
(* no two workers are at work on one job while no lease runs out, attempts *)
(* are never counted beyond a bound, and drafts are earned; and of a       *)
(* single process, that no agent runs for a job that is over or succeeded. *)
(***************************************************************************)
EXTENDS NightShift, TLAPS, FiniteSetTheorems

-----------------------------------------------------------------------------
(* The rows and locals up to the bound on the attempt count, which neither *)
(* result depends on.                                                      *)
Link_ == (Job \X Nat) \cup {NoKey}

JobRow_ == [status : JobStatus, lease : Lease, holder : Worker \cup {NoWorker}, link : Link_,
            attempt : Nat, eligible : BOOLEAN, asked : BOOLEAN]

Item_ == [job : Job, link : Link_, stale : BOOLEAN]

Locals_ == [at : Place, phase : {"none", "claims", "recovery", "owner"}, todo : SUBSET Item_,
            job : Job \cup {NoKey}, key : Link_, path : Path,
            goal : JobStatus, seen : JobStatus, tries : Nat]

Between == {"unborn", "dead", "idle", "sweep"}
Working == Place \ Between

(* A worker has a job exactly while it is at work on it, and what it is    *)
(* about to write is an edge of JOB_TRANSITIONS from what it has read.     *)
LocalsOK(l) ==
    /\ l \in Locals_
    /\ l.at \in Working => l.job \in Job
    /\ l.at \in Between => l.job = NoKey
    /\ l.at = "swapping" => l.goal \in JobTransitions[l.seen]

WorkersOK == loc \in [Worker -> Locals_] /\ \A w \in Worker : LocalsOK(loc[w])
JobsOK    == job \in [Job -> JobRow_] /\ kind \in [Job -> Kind]

TypeInv == WorkersOK /\ JobsOK

LEMMA Sorts ==
    /\ Place = Working \cup Between
    /\ Between \cap Working = {}
    /\ Working = {"begin", "creating", "inserting", "linking", "starting", "dispatching", "judging",
                  "asking", "noting", "reaching", "reading", "swapping", "retrying", "scheduling",
                  "failing", "recording", "releasing", "inspecting", "stopping"}
BY DEF Place, Working, Between

LEMMA Goes ==
    ASSUME WorkersOK, NEW w \in Worker, NEW l, LocalsOK(l), Goto(w, l)
    PROVE  WorkersOK'
BY DEF WorkersOK, LocalsOK, Goto

(* Locals with one of them changed.                                        *)
Same(l, m) == /\ m \in Locals_ /\ m.at = l.at /\ m.job = l.job

LEMMA Edit ==
    ASSUME NEW l \in Locals_
    PROVE  /\ \A x \in Link_ : Same(l, [l EXCEPT !.key = x])
           /\ \A x \in Path : Same(l, [l EXCEPT !.path = x])
           /\ \A x \in JobStatus : Same(l, [l EXCEPT !.goal = x])
           /\ \A x \in Nat : Same(l, [l EXCEPT !.tries = x])
           /\ \A x \in Job : LET m == [l EXCEPT !.job = x]
                             IN  m \in Locals_ /\ m.at = l.at /\ m.job = x
<1>1. ASSUME NEW x \in Link_ PROVE Same(l, [l EXCEPT !.key = x])
  BY DEF Same, Locals_
<1>2. ASSUME NEW x \in Path PROVE Same(l, [l EXCEPT !.path = x])
  BY DEF Same, Locals_
<1>3. ASSUME NEW x \in JobStatus PROVE Same(l, [l EXCEPT !.goal = x])
  BY DEF Same, Locals_
<1>4. ASSUME NEW x \in Nat PROVE Same(l, [l EXCEPT !.tries = x])
  BY DEF Same, Locals_
<1>5. ASSUME NEW x \in Job
      PROVE  LET m == [l EXCEPT !.job = x] IN m \in Locals_ /\ m.at = l.at /\ m.job = x
  BY DEF Locals_
<1> QED
  BY <1>1, <1>2, <1>3, <1>4, <1>5

WithKeyPath(l, k, p) == [l EXCEPT !.key = k, !.path = p]
WithPathTries(l, p, n) == [l EXCEPT !.path = p, !.tries = n]
WithPathTriesGoal(l, p, n, g) == [l EXCEPT !.path = p, !.tries = n, !.goal = g]
WithJobPathGoal(l, j, p, g) == [l EXCEPT !.job = j, !.path = p, !.goal = g]
WithJobKeyPath(l, j, k, p) == [l EXCEPT !.job = j, !.key = k, !.path = p]

LEMMA EditKeyPath ==
    ASSUME NEW l \in Locals_, NEW k \in Link_, NEW p \in Path
    PROVE  LET m == WithKeyPath(l, k, p)
           IN  m \in Locals_ /\ m.at = l.at /\ m.job = l.job
<1> DEFINE a == [l EXCEPT !.key = k]
           b == [a EXCEPT !.path = p]
<1>1. a \in Locals_ /\ a.at = l.at /\ a.job = l.job
  BY Edit DEF Same
<1>2. b \in Locals_ /\ b.at = l.at /\ b.job = l.job
  <2> HIDE DEF a
  <2> QED
    BY <1>1, Edit DEF Same
<1> QED
  BY <1>2 DEF WithKeyPath

LEMMA EditPathTries ==
    ASSUME NEW l \in Locals_, NEW p \in Path, NEW n \in Nat
    PROVE  LET m == WithPathTries(l, p, n)
           IN  m \in Locals_ /\ m.at = l.at /\ m.job = l.job
<1> DEFINE a == [l EXCEPT !.path = p]
           b == [a EXCEPT !.tries = n]
<1>1. a \in Locals_ /\ a.at = l.at /\ a.job = l.job
  BY Edit DEF Same
<1>2. b \in Locals_ /\ b.at = l.at /\ b.job = l.job
  <2> HIDE DEF a
  <2> QED
    BY <1>1, Edit DEF Same
<1> QED
  BY <1>2 DEF WithPathTries

LEMMA EditPathTriesGoal ==
    ASSUME NEW l \in Locals_, NEW p \in Path, NEW n \in Nat, NEW g \in JobStatus
    PROVE  LET m == WithPathTriesGoal(l, p, n, g)
           IN  m \in Locals_ /\ m.at = l.at /\ m.job = l.job
<1> DEFINE a == [l EXCEPT !.path = p]
           b == [a EXCEPT !.tries = n]
           c == [b EXCEPT !.goal = g]
<1>1. a \in Locals_ /\ a.at = l.at /\ a.job = l.job
  BY Edit DEF Same
<1>2. b \in Locals_ /\ b.at = l.at /\ b.job = l.job
  <2> HIDE DEF a
  <2> QED
    BY <1>1, Edit DEF Same
<1>3. c \in Locals_ /\ c.at = l.at /\ c.job = l.job
  <2> HIDE DEF b
  <2> QED
    BY <1>2, Edit DEF Same
<1> QED
  BY <1>3 DEF WithPathTriesGoal

LEMMA EditJobPathGoal ==
    ASSUME NEW l \in Locals_, NEW j \in Job, NEW p \in Path, NEW g \in JobStatus
    PROVE  LET m == WithJobPathGoal(l, j, p, g)
           IN  m \in Locals_ /\ m.at = l.at /\ m.job = j
<1> DEFINE a == [l EXCEPT !.job = j]
           b == [a EXCEPT !.path = p]
           c == [b EXCEPT !.goal = g]
<1>1. a \in Locals_ /\ a.at = l.at /\ a.job = j
  BY Edit DEF Same
<1>2. b \in Locals_ /\ b.at = l.at /\ b.job = j
  <2> HIDE DEF a
  <2> QED
    BY <1>1, Edit DEF Same
<1>3. c \in Locals_ /\ c.at = l.at /\ c.job = j
  <2> HIDE DEF b
  <2> QED
    BY <1>2, Edit DEF Same
<1> QED
  BY <1>3 DEF WithJobPathGoal

LEMMA EditJobKeyPath ==
    ASSUME NEW l \in Locals_, NEW j \in Job, NEW k \in Link_, NEW p \in Path
    PROVE  LET m == WithJobKeyPath(l, j, k, p)
           IN  m \in Locals_ /\ m.at = l.at /\ m.job = j
<1> DEFINE a == [l EXCEPT !.job = j]
           b == [a EXCEPT !.key = k]
           c == [b EXCEPT !.path = p]
<1>1. a \in Locals_ /\ a.at = l.at /\ a.job = j
  BY Edit DEF Same
<1>2. b \in Locals_ /\ b.at = l.at /\ b.job = j
  <2> HIDE DEF a
  <2> QED
    BY <1>1, Edit DEF Same
<1>3. c \in Locals_ /\ c.at = l.at /\ c.job = j
  <2> HIDE DEF b
  <2> QED
    BY <1>2, Edit DEF Same
<1> QED
  BY <1>3 DEF WithJobKeyPath

LEMMA AtOK ==
    ASSUME WorkersOK, NEW w \in Worker, NEW place \in Place
    PROVE  /\ At(w, place) \in Locals_ /\ At(w, place).at = place
           /\ At(w, place).job = loc[w].job /\ At(w, place).goal = loc[w].goal
BY DEF WorkersOK, Locals_, At

LEMMA RestingOK ==
    ASSUME NEW place \in Between, NEW phase \in {"none", "claims", "recovery", "owner"},
           NEW todo \in SUBSET Item_
    PROVE  LocalsOK(Resting(place, phase, todo))
BY Sorts DEF LocalsOK, Resting, Locals_, Link_, Path, JobStatus, Place, Between

LEMMA Finishes ==
    ASSUME WorkersOK, NEW w \in Worker, Done(w)
    PROVE  WorkersOK'
<1> DEFINE left == {i \in loc[w].todo : i.job # loc[w].job}
<1>1. left \in SUBSET Item_ /\ loc[w].phase \in {"none", "claims", "recovery", "owner"}
  BY DEF WorkersOK, Locals_
<1>2. LocalsOK(Resting("idle", "none", {})) /\ LocalsOK(Resting("sweep", loc[w].phase, left))
  BY <1>1, RestingOK DEF Between
<1> QED
  BY <1>2, Goes DEF Done

(* A worker at work goes on with the same job.                             *)
LEMMA GoesOn ==
    ASSUME WorkersOK, NEW w \in Worker, loc[w].at \in Working,
           NEW l \in Locals_, l.at \in Working \ {"swapping"}, l.job = loc[w].job, Goto(w, l)
    PROVE  WorkersOK'
<1>1. LocalsOK(l)
  BY Sorts DEF LocalsOK, WorkersOK
<1> QED
  BY <1>1, Goes

LEMMA MovesOn ==
    ASSUME WorkersOK, NEW w \in Worker, loc[w].at \in Working,
           NEW place \in Working \ {"swapping"}, Goto(w, At(w, place))
    PROVE  WorkersOK'
<1> DEFINE l == At(w, place)
<1>1. l \in Locals_ /\ l.at = place /\ l.job = loc[w].job
  BY Sorts DEF WorkersOK, Locals_, At
<1> QED
  BY <1>1, GoesOn

LEMMA Fails ==
    ASSUME WorkersOK, NEW w \in Worker, loc[w].at \in Working, Fail(w)
    PROVE  WorkersOK'
<1> DEFINE l == [At(w, "failing") EXCEPT !.path = "fail", !.tries = 0]
<1>1. At(w, "failing") \in Locals_ /\ At(w, "failing").at = "failing"
         /\ At(w, "failing").job = loc[w].job
  BY Sorts DEF WorkersOK, Locals_, At
<1>2. l \in Locals_ /\ l.at = "failing" /\ l.job = loc[w].job
  BY <1>1 DEF Locals_, Path
<1>3. Goto(w, l)
  BY DEF Fail
<1> HIDE DEF l
<1> QED
  BY <1>2, <1>3, GoesOn, Sorts

LEMMA Reads ==
    ASSUME WorkersOK, NEW w \in Worker, loc[w].at \in Working, NEW goal \in JobStatus,
           Goto(w, [At(w, "reading") EXCEPT !.goal = goal])
    PROVE  WorkersOK'
<1> DEFINE l == [At(w, "reading") EXCEPT !.goal = goal]
<1>1. l \in Locals_ /\ l.at = "reading" /\ l.job = loc[w].job
  BY Sorts DEF WorkersOK, Locals_, At
<1>2. Goto(w, l)
  OBVIOUS
<1> HIDE DEF l
<1> QED
  BY <1>1, <1>2, GoesOn, Sorts

(* The ends of a transition of the job's status.                           *)
LEMMA Transits ==
    ASSUME WorkersOK, NEW w \in Worker, loc[w].at \in {"reading", "swapping"},
           Moved(w) \/ Refused(w)
    PROVE  WorkersOK'
<1>1. {"draft_saved", "awaiting_approval"} \subseteq JobStatus
  BY DEF JobStatus
<1> QED
  BY <1>1, Finishes, MovesOn, Fails, Reads, Sorts DEF Moved, Refused

LEMMA LoopStep ==
    ASSUME TypeInv, NEW w \in Worker, Loop(w)
    PROVE  WorkersOK'
<1> USE DEF TypeInv
<1>0. loc[w] \in Locals_ /\ loc[w].todo \subseteq Item_
  BY DEF WorkersOK, Locals_
<1>1. CASE Scan(w)
  <2> DEFINE S == {[job |-> j, link |-> NoKey, stale |-> FALSE] :
                      j \in {i \in Job : night /\ (Eligible(i) \/ Prohibited(i))}}
  <2>1. S \in SUBSET Item_
    <3> SUFFICES ASSUME NEW i \in S PROVE i \in Item_
      OBVIOUS
    <3>1. PICK j \in Job : i = [job |-> j, link |-> NoKey, stale |-> FALSE]
      OBVIOUS
    <3> QED
      BY <3>1 DEF Item_, Link_
  <2> QED
    BY <1>1, <2>1, RestingOK, Goes DEF Scan, Between
<1>2. CASE ListStale(w)
  <2> DEFINE S == {[job |-> j, link |-> job[j].link, stale |-> job[j].lease = "expired"] :
                      j \in {i \in Job : job[i].status = "preparing"}}
  <2>1. S \in SUBSET Item_
    <3> SUFFICES ASSUME NEW i \in S PROVE i \in Item_
      OBVIOUS
    <3>1. PICK j \in Job : i = [job |-> j, link |-> job[j].link, stale |-> job[j].lease = "expired"]
      OBVIOUS
    <3>2. job[j].link \in Link_ /\ (job[j].lease = "expired") \in BOOLEAN
      BY DEF JobsOK, JobRow_
    <3> HIDE DEF S
    <3> QED
      BY <3>1, <3>2 DEF Item_
  <2> QED
    BY <1>2, <2>1, RestingOK, Goes DEF ListStale, Between
<1>3. CASE EndTick(w)
  BY <1>3, RestingOK, Goes DEF EndTick, Between
<1>4. ASSUME NEW t \in SUBSET Item_, loc[w].at = "sweep", Goto(w, [loc[w] EXCEPT !.todo = t])
      PROVE  WorkersOK'
  <2>1. LocalsOK([loc[w] EXCEPT !.todo = t])
    BY <1>0, <1>4, Sorts DEF WorkersOK, LocalsOK, Locals_, Between
  <2> QED
    BY <1>4, <2>1, Goes
<1>5. ASSUME NEW place \in Working \ {"swapping"}, NEW j \in Job, NEW l, l \in Locals_,
             l.at = place, l.job = j, Goto(w, l)
      PROVE  WorkersOK'
  <2>1. LocalsOK(l)
    BY <1>5, Sorts DEF LocalsOK
  <2> QED
    BY <1>5, <2>1, Goes
<1>6. \A place \in Working : /\ At(w, place) \in Locals_ /\ At(w, place).at = place
  BY AtOK, Sorts
<1>7. ASSUME NEW j \in Job, RejectProhibited(w, j)
      PROVE  WorkersOK'
  <2> DEFINE l == WithJobPathGoal(At(w, "reading"), j, "prohibit", "rejected")
  <2>0. "prohibit" \in Path /\ "rejected" \in JobStatus
    BY DEF Path, JobStatus
  <2>1. l \in Locals_ /\ l.at = "reading" /\ l.job = j
    BY <1>6, <2>0, EditJobPathGoal, Sorts
  <2>2. Goto(w, l)
    BY <1>7 DEF RejectProhibited, WithJobPathGoal
  <2> HIDE DEF l
  <2> QED
    BY <1>5, <2>1, <2>2, Sorts
<1>8. ASSUME NEW j \in Job, ClaimJob(w, j)
      PROVE  WorkersOK'
  <2> DEFINE l == WithJobPathGoal(At(w, "reading"), j, "claim", "preparing")
             m == [At(w, "begin") EXCEPT !.job = j]
             t == {i \in loc[w].todo : i.job # j}
  <2>0. "claim" \in Path /\ "preparing" \in JobStatus
    BY DEF Path, JobStatus
  <2>1. l \in Locals_ /\ l.at = "reading" /\ l.job = j
    BY <1>6, <2>0, EditJobPathGoal, Sorts
  <2>2. m \in Locals_ /\ m.at = "begin" /\ m.job = j
    BY <1>6, Sorts DEF Locals_
  <2>3. t \in SUBSET Item_ /\ loc[w].at = "sweep"
    BY <1>0, <1>8 DEF ClaimJob
  <2>4. Goto(w, l) \/ Goto(w, m) \/ Goto(w, [loc[w] EXCEPT !.todo = t])
    BY <1>8 DEF ClaimJob, WithJobPathGoal
  <2> HIDE DEF l, m, t
  <2> QED
    BY <1>4, <1>5, <2>1, <2>2, <2>3, <2>4, Sorts
<1>9. ASSUME NEW i \in loc[w].todo, Recover(w, i)
      PROVE  WorkersOK'
  <2> DEFINE l == [At(w, "retrying") EXCEPT !.job = i.job]
             m == WithJobKeyPath(At(w, "inspecting"), i.job, i.link, "finish")
             t == loc[w].todo \ {i}
  <2>0. i.job \in Job /\ i.link \in Link_
    BY <1>0 DEF Item_
  <2>1. l \in Locals_ /\ l.at = "retrying" /\ l.job = i.job
    BY <1>6, <2>0, Sorts DEF Locals_
  <2>2. m \in Locals_ /\ m.at = "inspecting" /\ m.job = i.job
    <3>1. "finish" \in Path
      BY DEF Path
    <3> QED
      BY <1>6, <2>0, <3>1, EditJobKeyPath, Sorts
  <2>3. t \in SUBSET Item_ /\ loc[w].at = "sweep"
    BY <1>0, <1>9 DEF Recover
  <2>4. Goto(w, l) \/ Goto(w, m) \/ Goto(w, [loc[w] EXCEPT !.todo = t])
    BY <1>9 DEF Recover, WithJobKeyPath
  <2> HIDE DEF l, m, t
  <2> QED
    BY <1>4, <1>5, <2>0, <2>1, <2>2, <2>3, <2>4, Sorts
<1> QED
  BY <1>1, <1>2, <1>3, <1>7, <1>8, <1>9 DEF Loop

LEMMA BodyStep ==
    ASSUME TypeInv, NEW w \in Worker, Body(w)
    PROVE  WorkersOK'
<1> USE DEF TypeInv
<1>0. /\ loc[w] \in Locals_
      /\ loc[w].at \in Working => loc[w].job \in Job
      /\ loc[w].at \in Working => Row(w) \in JobRow_
  BY DEF WorkersOK, LocalsOK, JobsOK, Row
<1>1. ASSUME NEW l, l \in Locals_, l.at \in Working \ {"swapping"}, l.job = loc[w].job, Goto(w, l),
             loc[w].at \in Working
      PROVE  WorkersOK'
  BY <1>1, GoesOn
<1>2. \A place \in Working : /\ At(w, place) \in Locals_ /\ At(w, place).at = place
                             /\ At(w, place).job = loc[w].job
  BY AtOK, Sorts
<1>3. CASE Begin(w)
  <2> DEFINE key == <<loc[w].job, Row(w).attempt>>
             a == WithKeyPath(At(w, "creating"), key, "finish")
             b == WithKeyPath(At(w, "creating"), key, "defer")
             c == WithKeyPath(At(w, "asking"), Row(w).link, "defer")
  <2>1. loc[w].at = "begin"
    BY <1>3 DEF Begin
  <2>2. key \in Link_ /\ Row(w).link \in Link_ /\ {"finish", "defer"} \subseteq Path
    <3>1. Row(w) \in JobRow_ /\ loc[w].job \in Job
      BY <1>0, <2>1, Sorts
    <3>2. Row(w).attempt \in Nat /\ Row(w).link \in Link_
      BY <3>1 DEF JobRow_
    <3> QED
      BY <3>1, <3>2 DEF Link_, Path
  <2>3. a \in Locals_ /\ a.at = "creating" /\ a.job = loc[w].job
    <3> DEFINE u == At(w, "creating")
    <3>1. u \in Locals_ /\ u.at = "creating" /\ u.job = loc[w].job
      BY <1>2, Sorts
    <3>2. key \in Link_ /\ "finish" \in Path
      BY <2>2
    <3> HIDE DEF key, u
    <3>3. /\ WithKeyPath(u, key, "finish") \in Locals_ /\ WithKeyPath(u, key, "finish").at = "creating"
          /\ WithKeyPath(u, key, "finish").job = loc[w].job
      BY <3>1, <3>2, EditKeyPath
    <3> QED
      BY <3>3 DEF u
  <2>4. b \in Locals_ /\ b.at = "creating" /\ b.job = loc[w].job
    <3> DEFINE u == At(w, "creating")
    <3>1. u \in Locals_ /\ u.at = "creating" /\ u.job = loc[w].job
      BY <1>2, Sorts
    <3>2. key \in Link_ /\ "defer" \in Path
      BY <2>2
    <3> HIDE DEF key, u
    <3>3. /\ WithKeyPath(u, key, "defer") \in Locals_ /\ WithKeyPath(u, key, "defer").at = "creating"
          /\ WithKeyPath(u, key, "defer").job = loc[w].job
      BY <3>1, <3>2, EditKeyPath
    <3> QED
      BY <3>3 DEF u
  <2>5. c \in Locals_ /\ c.at = "asking" /\ c.job = loc[w].job
    BY <1>2, <2>2, EditKeyPath, Sorts
  <2>6. Goto(w, a) \/ Goto(w, b) \/ Goto(w, c) \/ Fail(w)
    BY <1>3 DEF Begin, WithKeyPath
  <2> HIDE DEF a, b, c
  <2> QED
    BY <1>1, <2>1, <2>3, <2>4, <2>5, <2>6, Fails, Sorts
<1>4. CASE Create(w) \/ InsertDispatch(w) \/ Link(w) \/ StartDispatch(w)
  BY <1>4, MovesOn, Fails, Sorts DEF Create, InsertDispatch, Link, StartDispatch
<1>5. CASE RunDispatch(w)
  <2>1. CASE UNCHANGED loc
    BY <2>1 DEF WorkersOK
  <2> QED
    BY <1>5, <2>1, MovesOn, Fails, Sorts DEF RunDispatch
<1>6. CASE Judge(w) \/ AskApproval(w) \/ NoteApproval(w) \/ RecordFinal(w) \/ Inspect(w)
  BY <1>6, MovesOn, Sorts DEF Judge, AfterResult, AskApproval, NoteApproval, RecordFinal,
                              Inspect, AfterInspection
<1>7. CASE ScheduleRetry(w) \/ Release(w)
  BY <1>7, Finishes DEF ScheduleRetry, Release
<1>8. CASE Reach(w)
  <2>1. {"validating", "draft_saved", "awaiting_approval"} \subseteq JobStatus
    BY DEF JobStatus
  <2> QED
    BY <1>8, <2>1, MovesOn, Reads, Sorts DEF Reach
<1>9. CASE ReadJob(w)
  <2> DEFINE l == [At(w, "swapping") EXCEPT !.seen = Row(w).status]
  <2>1. loc[w].at = "reading" /\ Row(w).status \in JobStatus
    BY <1>0, <1>9, Sorts DEF ReadJob, JobRow_
  <2>2. CASE loc[w].goal \in JobTransitions[Row(w).status] /\ Goto(w, l)
    <3>1. /\ At(w, "swapping") \in Locals_ /\ At(w, "swapping").at = "swapping"
          /\ At(w, "swapping").job = loc[w].job /\ At(w, "swapping").goal = loc[w].goal
      BY AtOK, Sorts
    <3>2. /\ l \in Locals_ /\ l.at = "swapping" /\ l.job = loc[w].job /\ l.seen = Row(w).status
          /\ l.goal = loc[w].goal
      BY <2>1, <3>1 DEF Locals_
    <3>3. loc[w].job \in Job /\ "swapping" \notin Between
      BY <1>0, <2>1, Sorts
    <3> HIDE DEF l
    <3>4. LocalsOK(l)
      BY <2>2, <3>2, <3>3 DEF LocalsOK
    <3> QED
      BY <2>2, <3>4, Goes
  <2> QED
    BY <1>9, <2>1, <2>2, Transits DEF ReadJob
<1>10. CASE SwapJob(w)
  BY <1>10, Transits DEF SwapJob
<1>11. CASE Retry(w)
  <2> DEFINE n == Row(w).attempt + 1
             place == IF n < MaxAttempts THEN "scheduling" ELSE "failing"
             l == WithPathTries(At(w, place), "fail", n)
  <2>0. "fail" \in Path
    BY DEF Path
  <2>1. loc[w].at = "retrying" /\ n \in Nat /\ place \in Working \ {"swapping"}
    BY <1>0, <1>11, Sorts DEF Retry, JobRow_
  <2>2. l \in Locals_ /\ l.at = place /\ l.job = loc[w].job
    <3> HIDE DEF place, n
    <3> QED
      BY <1>2, <2>1, <2>0, EditPathTries
  <2>3. Goto(w, l)
    BY <1>11 DEF Retry, WithPathTries
  <2> HIDE DEF l, place
  <2> QED
    BY <1>1, <2>1, <2>2, <2>3, Sorts
<1>12. CASE ReadForFailure(w)
  <2> DEFINE n == IF loc[w].tries = 0 THEN Row(w).attempt ELSE loc[w].tries
             a == WithPathTries(At(w, "recording"), "fail", n)
             b == WithPathTriesGoal(At(w, "reading"), "fail", n, "failed_safely")
  <2>0. "fail" \in Path /\ "failed_safely" \in JobStatus
    BY DEF Path, JobStatus
  <2>1. loc[w].at = "failing" /\ n \in Nat
    <3>1. loc[w].at = "failing" /\ loc[w].tries \in Nat
      <4>1. loc[w].at = "failing"
        BY <1>12 DEF ReadForFailure
      <4>2. loc[w].tries \in Nat
        BY <1>0 DEF Locals_
      <4> QED
        BY <4>1, <4>2
    <3>2. Row(w).attempt \in Nat
      BY <1>0, <3>1, Sorts DEF JobRow_
    <3> QED
      BY <3>1, <3>2
  <2>2. Goto(w, a) \/ Goto(w, b)
    BY <1>12 DEF ReadForFailure, WithPathTries, WithPathTriesGoal
  <2> HIDE DEF n
  <2>3. a \in Locals_ /\ a.at = "recording" /\ a.job = loc[w].job
    BY <1>2, <2>0, <2>1, EditPathTries, Sorts
  <2>4. b \in Locals_ /\ b.at = "reading" /\ b.job = loc[w].job
    BY <1>2, <2>0, <2>1, EditPathTriesGoal, Sorts
  <2> HIDE DEF a, b
  <2> QED
    BY <1>1, <2>1, <2>2, <2>3, <2>4, Sorts
<1>13. CASE StopDispatch(w)
  <2>1. "failed_safely" \in JobStatus
    BY DEF JobStatus
  <2> QED
    BY <1>13, <2>1, MovesOn, Reads, Sorts DEF StopDispatch
<1> QED
  BY <1>3, <1>4, <1>5, <1>6, <1>7, <1>8, <1>9, <1>10, <1>11, <1>12, <1>13 DEF Body

LEMMA WorkersStep == TypeInv /\ [Next]_vars => WorkersOK'
<1> SUFFICES ASSUME TypeInv, [Next]_vars PROVE WorkersOK'
  OBVIOUS
<1> USE DEF TypeInv
<1>1. ASSUME NEW w \in Worker, DatabaseFails(w)
      PROVE  WorkersOK'
  BY <1>1, Fails, Sorts DEF DatabaseFails
<1>2. ASSUME NEW w \in Worker, Launch(w) \/ Die(w)
      PROVE  WorkersOK'
  BY <1>2, RestingOK, Goes DEF Launch, Die, Between
<1>3. ASSUME NEW w \in Worker, NEW j \in Job, CancelJob(w, j)
      PROVE  WorkersOK'
  <2> DEFINE l == [Resting("reading", "owner", {}) EXCEPT
                      !.job = j, !.path = "stop", !.goal = "failed_safely"]
             m == [l EXCEPT !.at = "stopping", !.key = job[j].link, !.goal = "absent"]
  <2>1. job[j].link \in Link_
    BY DEF JobsOK, JobRow_
  <2>2. LocalsOK(l)
    BY Sorts DEF Resting, LocalsOK, Locals_, Link_, Path, JobStatus, Between
  <2>3. LocalsOK(m)
    BY <2>1, Sorts DEF Resting, LocalsOK, Locals_, Link_, Path, JobStatus, Between
  <2>4. Goto(w, l) \/ Goto(w, m)
    BY <1>3 DEF CancelJob
  <2> HIDE DEF l, m
  <2> QED
    BY <2>2, <2>3, <2>4, Goes
<1>4. CASE UNCHANGED loc
  BY <1>4 DEF WorkersOK
<1> QED
  BY <1>1, <1>2, <1>3, <1>4, LoopStep, BodyStep
  DEF Next, CancelDispatch, Enqueue, ExpireLease, PassBackoff, Deploy, ChangeMode, vars

-----------------------------------------------------------------------------
(* What one step makes of the job rows: a new row, a row whose status was  *)
(* swapped along JOB_TRANSITIONS, or one that keeps its status.            *)
RowStep ==
    \/ UNCHANGED job
    \/ \E j \in Job, r \in JobRow_ :
          /\ job' = [job EXCEPT ![j] = r]
          /\ \/ r.status = job[j].status
             \/ job[j].status = "absent"
             \/ r.status \in JobTransitions[job[j].status]

LEMMA EditRow ==
    ASSUME NEW r \in JobRow_
    PROVE  /\ \A x \in Link_ : LET s == [r EXCEPT !.link = x] IN s \in JobRow_ /\ s.status = r.status
           /\ LET s == [r EXCEPT !.asked = TRUE] IN s \in JobRow_ /\ s.status = r.status
           /\ LET s == [r EXCEPT !.eligible = TRUE] IN s \in JobRow_ /\ s.status = r.status
           /\ LET s == [r EXCEPT !.lease = "expired"] IN s \in JobRow_ /\ s.status = r.status
           /\ \A x \in Nat : LET s == [r EXCEPT !.attempt = x] IN s \in JobRow_ /\ s.status = r.status
           /\ \A x \in JobStatus : LET s == [r EXCEPT !.status = x] IN s \in JobRow_ /\ s.status = x
BY DEF JobRow_, Lease

LEMMA JobsStep ==
    ASSUME TypeInv, [Next]_vars
    PROVE  JobsOK' /\ RowStep
<1> USE DEF TypeInv
<1>0. /\ job \in [Job -> JobRow_] /\ kind \in [Job -> Kind]
      /\ \A w \in Worker : loc[w] \in Locals_ /\ (loc[w].at \in Working => loc[w].job \in Job)
  BY DEF JobsOK, WorkersOK, LocalsOK
<1>1. ASSUME NEW j \in Job, NEW r \in JobRow_, job' = [job EXCEPT ![j] = r],
             r.status = job[j].status \/ job[j].status = "absent"
                \/ r.status \in JobTransitions[job[j].status],
             kind' \in [Job -> Kind]
      PROVE  JobsOK' /\ RowStep
  BY <1>0, <1>1 DEF JobsOK, RowStep
<1>2. ASSUME UNCHANGED job, kind' \in [Job -> Kind]
      PROVE  JobsOK' /\ RowStep
  BY <1>0, <1>2 DEF JobsOK, RowStep
<1>3. ASSUME NEW w \in Worker, ScheduleRetry(w) \/ Release(w)
      PROVE  JobsOK' /\ RowStep
  <2> DEFINE r == Row(w)
             a == [r EXCEPT !.attempt = loc[w].tries, !.eligible = FALSE,
                            !.lease = "free", !.holder = NoWorker]
             b == [r EXCEPT !.lease = "free", !.holder = NoWorker]
  <2>1. loc[w].job \in Job /\ loc[w].tries \in Nat /\ r \in JobRow_
    BY <1>0, <1>3, Sorts DEF ScheduleRetry, Release, Row, Locals_
  <2> HIDE DEF r
  <2>2. a \in JobRow_ /\ a.status = r.status
    BY <2>1 DEF JobRow_, Lease
  <2>3. b \in JobRow_ /\ b.status = r.status
    BY <2>1 DEF JobRow_, Lease
  <2>4. job' = [job EXCEPT ![loc[w].job] = a] \/ job' = [job EXCEPT ![loc[w].job] = b]
    BY <1>3 DEF ScheduleRetry, Release, SetRow, r
  <2>5. r.status = job[loc[w].job].status /\ kind' \in [Job -> Kind]
    BY <1>0, <1>3 DEF r, Row, ScheduleRetry, Release, OnlyWorker
  <2> HIDE DEF a, b
  <2> QED
    BY <1>1, <2>1, <2>2, <2>3, <2>4, <2>5
<1>4. ASSUME NEW w \in Worker, Link(w) \/ NoteApproval(w) \/ RecordFinal(w)
      PROVE  JobsOK' /\ RowStep
  <2>1. /\ loc[w].job \in Job /\ loc[w].tries \in Nat /\ loc[w].key \in Link_
        /\ Row(w) \in JobRow_ /\ Row(w) = job[loc[w].job]
    BY <1>0, <1>4, Sorts DEF Link, NoteApproval, RecordFinal, Row, Locals_
  <2>2. PICK s \in JobRow_ : s.status = Row(w).status /\ SetRow(w, s)
    BY <1>4, <2>1, EditRow DEF Link, NoteApproval, RecordFinal
  <2> QED
    BY <1>0, <1>1, <1>4, <2>1, <2>2 DEF SetRow, Link, NoteApproval, RecordFinal, OnlyWorker
<1>5. ASSUME NEW w \in Worker, SwapJob(w)
      PROVE  JobsOK' /\ RowStep
  <2>1. /\ loc[w].job \in Job /\ loc[w].goal \in JobStatus
        /\ loc[w].goal \in JobTransitions[loc[w].seen]
        /\ Row(w) \in JobRow_ /\ Row(w) = job[loc[w].job]
    BY <1>0, <1>5, Sorts DEF SwapJob, Row, Locals_, WorkersOK, LocalsOK
  <2> DEFINE s == [Row(w) EXCEPT !.status = loc[w].goal]
  <2>2. s \in JobRow_ /\ s.status = loc[w].goal
    BY <2>1, EditRow
  <2>3. kind' \in [Job -> Kind] /\ (UNCHANGED job \/ (SetRow(w, s) /\ Row(w).status = loc[w].seen))
    BY <1>0, <1>5 DEF SwapJob, OnlyWorker
  <2> HIDE DEF s
  <2> QED
    BY <1>1, <1>2, <2>1, <2>2, <2>3 DEF SetRow
<1>6. ASSUME NEW w \in Worker, NEW j \in Job, ClaimJob(w, j)
      PROVE  JobsOK' /\ RowStep
  <2> DEFINE s == [job[j] EXCEPT !.lease = "held", !.holder = w]
  <2>1. s \in JobRow_ /\ s.status = job[j].status
    BY <1>0 DEF JobRow_, Lease
  <2>2. kind' \in [Job -> Kind] /\ (UNCHANGED job \/ job' = [job EXCEPT ![j] = s])
    BY <1>0, <1>6 DEF ClaimJob, OnlyWorker
  <2> HIDE DEF s
  <2> QED
    BY <1>1, <1>2, <2>1, <2>2
<1>7. ASSUME NEW j \in Job, NEW c \in Kind, NEW e \in BOOLEAN, Enqueue(j, c, e)
      PROVE  JobsOK' /\ RowStep
  <2> DEFINE t == IF c = "deferred" THEN "awaiting_approval" ELSE "queued"
             s == [job[j] EXCEPT !.status = t, !.eligible = e]
  <2>1. s \in JobRow_ /\ job[j].status = "absent"
    <3>1. t \in JobStatus /\ job[j].status = "absent"
      BY <1>7 DEF JobStatus, Enqueue
    <3> HIDE DEF t
    <3> QED
      BY <1>0, <3>1 DEF JobRow_
  <2>2. kind' \in [Job -> Kind] /\ job' = [job EXCEPT ![j] = s]
    BY <1>0, <1>7 DEF Enqueue
  <2> HIDE DEF s
  <2> QED
    BY <1>1, <2>1, <2>2
<1>8. ASSUME NEW j \in Job, ExpireLease(j) \/ PassBackoff(j)
      PROVE  JobsOK' /\ RowStep
  <2>1. PICK s \in JobRow_ : s.status = job[j].status /\ job' = [job EXCEPT ![j] = s]
    BY <1>0, <1>8, EditRow DEF ExpireLease, PassBackoff
  <2> QED
    BY <1>0, <1>1, <1>8, <2>1 DEF ExpireLease, PassBackoff
<1>9. ASSUME NEW j \in Job, NEW c \in Kind, Deploy(j, c)
      PROVE  JobsOK' /\ RowStep
  BY <1>0, <1>2, <1>9 DEF Deploy
<1>10. CASE UNCHANGED <<job, kind>>
  BY <1>0, <1>2, <1>10
<1> QED
  BY <1>3, <1>4, <1>5, <1>6, <1>7, <1>8, <1>9, <1>10
  DEF Next, Loop, Body, Scan, ListStale, EndTick, RejectProhibited, Recover, Begin, Create,
      InsertDispatch, StartDispatch, RunDispatch, Judge, AskApproval, Reach, ReadJob, Retry,
      ReadForFailure, Inspect, StopDispatch, DatabaseFails, Launch, Die, CancelJob, CancelDispatch,
      ChangeMode, OnlyWorker, vars

LEMMA TypeInvInit == Init => TypeInv
<1> SUFFICES ASSUME Init PROVE TypeInv
  OBVIOUS
<1>1. NoRow \in JobRow_
  BY DEF NoRow, JobRow_, JobStatus, Lease, Link_
<1>2. LocalsOK(Resting("unborn", "none", {}))
  BY RestingOK DEF Between
<1> QED
  BY <1>1, <1>2 DEF Init, TypeInv, WorkersOK, JobsOK, LocalsOK, Kind

LEMMA TypeInvAlways == Spec => []TypeInv
<1>1. TypeInv /\ [Next]_vars => TypeInv'
  BY WorkersStep, JobsStep DEF TypeInv
<1> QED
  BY <1>1, TypeInvInit, PTL DEF Spec

LEMMA EndsStay ==
    ASSUME TypeInv, [Next]_vars, NEW j \in Job, job[j].status \in Terminal
    PROVE  job'[j].status = job[j].status
<1>1. JobTransitions[job[j].status] = {} /\ job[j].status # "absent"
  BY DEF Terminal, JobTransitions, JobStatus
<1>2. RowStep /\ job \in [Job -> JobRow_]
  BY JobsStep DEF TypeInv, JobsOK
<1> QED
  BY <1>1, <1>2 DEF RowStep

(* A job that is over stays over, whichever ticks and commands still hold  *)
(* an older view of its row.                                               *)
THEOREM TheEndIsFinal == Spec => TerminalStays
<1>1. TypeInv /\ [Next]_vars =>
         \A j \in Job : job[j].status \in Terminal => job'[j].status = job[j].status
  BY EndsStay
<1> QED
  BY <1>1, TypeInvAlways, PTL DEF Spec, TerminalStays

-----------------------------------------------------------------------------
(* A worker at work in the first loop holds the lease of its job, unless   *)
(* the owner has ended the job meanwhile; there is nothing to recover, and *)
(* the owner's command gives a lease back only once the job is over.       *)
Held(w, j) == \/ job[j].lease = "held" /\ job[j].holder = w
              \/ job[j].status \in Terminal

Commands(l) ==
    /\ l.path = "stop" /\ l.at \in {"stopping", "reading", "swapping", "releasing"}
    /\ l.at \in {"reading", "swapping"} => l.goal = "failed_safely"

Owns(w) ==
    /\ loc[w].phase \in {"none", "recovery"} => loc[w].at \in Between
    /\ loc[w].phase = "recovery" => \A i \in loc[w].todo : ~i.stale
    /\ loc[w].phase = "claims" /\ loc[w].at \in Working => Held(w, loc[w].job)
    /\ loc[w].phase = "owner" => Commands(loc[w])
    /\ loc[w].phase = "owner" /\ loc[w].at = "releasing" => job[loc[w].job].status \in Terminal

Calm == \A j \in Job : job[j].lease # "expired" /\ kind[j] # "prohibited"

PairInv == OneWorkerPerJob /\ Calm /\ \A w \in Worker : Owns(w)

LEMMA PairInvInit == Init => PairInv
<1> SUFFICES ASSUME Init PROVE PairInv
  OBVIOUS
<1>1. \A w \in Worker : loc[w].at = "unborn" /\ loc[w].phase = "none" /\ loc[w].job = NoKey
  BY DEF Init, Resting
<1>2. \A j \in Job : job[j].lease = "free" /\ kind[j] = "overnight"
  BY DEF Init, NoRow
<1> QED
  BY <1>1, <1>2 DEF PairInv, OneWorkerPerJob, Calm, Owns, Between

Kept(j) ==
    /\ job'[j].lease = job[j].lease /\ job'[j].holder = job[j].holder
    /\ job[j].status \in Terminal => job'[j].status \in Terminal

(* Whoever does not act still owns what it owned.                          *)
LEMMA OwnsStays ==
    ASSUME TypeInv, NEW w \in Worker, Owns(w), loc'[w] = loc[w],
           loc[w].at \in Working => Kept(loc[w].job)
    PROVE  Owns(w)'
<1>1. loc[w].at \in Working => loc[w].job \in Job
  BY DEF TypeInv, WorkersOK, LocalsOK
<1>2. "releasing" \in Working
  BY Sorts
<1> QED
  BY <1>1, <1>2 DEF Owns, Held, Kept

LEMMA PairStays ==
    ASSUME TypeInv, PairInv, Calm', UNCHANGED loc, \A j \in Job : Kept(j)
    PROVE  PairInv'
<1>1. \A w \in Worker : Owns(w)'
  BY OwnsStays DEF PairInv, TypeInv, WorkersOK, LocalsOK
<1>2. OneWorkerPerJob'
  BY DEF PairInv, OneWorkerPerJob
<1> QED
  BY <1>1, <1>2 DEF PairInv

(* One worker acts, and afterwards works on no other job than before.      *)
LEMMA PairActs ==
    ASSUME TypeInv, PairInv, Calm', NEW w \in Worker, NEW l, Goto(w, l),
           \A j \in Job : Kept(j),
           l.phase = "claims" /\ l.job # NoKey => loc[w].phase = "claims" /\ l.job = loc[w].job,
           Owns(w)'
    PROVE  PairInv'
<1>0. loc'[w] = l /\ \A v \in Worker \ {w} : loc'[v] = loc[v]
  BY DEF Goto, TypeInv, WorkersOK
<1>1. ASSUME NEW v \in Worker \ {w}
      PROVE  Owns(v)'
  BY <1>0, OwnsStays DEF PairInv, TypeInv, WorkersOK, LocalsOK
<1>2. OneWorkerPerJob'
  BY <1>0 DEF PairInv, OneWorkerPerJob
<1> QED
  BY <1>1, <1>2 DEF PairInv

LEMMA DoneWith ==
    ASSUME TypeInv, NEW w \in Worker, Done(w)
    PROVE  \E l : /\ Goto(w, l) /\ l.at \in Between /\ l.job = NoKey
                  /\ l.phase \in {"none", loc[w].phase}
                  /\ l.phase = "none" \/ l.phase # "owner"
                  /\ \A i \in l.todo : i \in loc[w].todo
<1> DEFINE left == {i \in loc[w].todo : i.job # loc[w].job}
           a == Resting("idle", "none", {})
           b == Resting("sweep", loc[w].phase, left)
<1>1. a.at = "idle" /\ a.job = NoKey /\ a.phase = "none" /\ a.todo = {}
  BY DEF Resting
<1>2. b.at = "sweep" /\ b.job = NoKey /\ b.phase = loc[w].phase /\ b.todo = left
  BY DEF Resting
<1>3. Goto(w, a) \/ (Goto(w, b) /\ loc[w].phase # "owner")
  BY DEF Done
<1> HIDE DEF a, b
<1> QED
  BY <1>1, <1>2, <1>3 DEF Between

(* What a worker in the middle of a job does to its locals.                *)
GoesOnWith(w, l) == Goto(w, l) /\ l.phase = loc[w].phase /\ l.job = loc[w].job

LEMMA AtKeeps ==
    ASSUME TypeInv, NEW w \in Worker, NEW place \in Place
    PROVE  /\ At(w, place).phase = loc[w].phase /\ At(w, place).job = loc[w].job
           /\ At(w, place).path = loc[w].path /\ At(w, place).goal = loc[w].goal
           /\ At(w, place).at = place
BY DEF TypeInv, WorkersOK, Locals_, At

LEMMA Keeping ==
    ASSUME TypeInv, NEW w \in Worker, loc[w].at \in Working, Body(w) \/ DatabaseFails(w)
    PROVE  Done(w) \/ UNCHANGED loc \/ \E l : GoesOnWith(w, l)
<1> DEFINE Goal == Done(w) \/ UNCHANGED loc \/ \E l : GoesOnWith(w, l)
<1>0. Place = Working \cup Between
  BY Sorts
<1>1. ASSUME NEW place \in Working, Goto(w, At(w, place))
      PROVE  Goal
  BY <1>0, <1>1, AtKeeps DEF GoesOnWith
<1>2. ASSUME NEW place \in Working, NEW k, NEW p, NEW n, NEW g,
             \/ Goto(w, [At(w, place) EXCEPT !.key = k, !.path = p])
             \/ Goto(w, [At(w, place) EXCEPT !.path = p, !.tries = n])
             \/ Goto(w, [At(w, place) EXCEPT !.path = p, !.tries = n, !.goal = g])
             \/ Goto(w, [At(w, place) EXCEPT !.seen = g])
             \/ Goto(w, [At(w, place) EXCEPT !.goal = g])
      PROVE  Goal
  <2> DEFINE u == At(w, place)
             a == [u EXCEPT !.key = k, !.path = p]
             b == [u EXCEPT !.path = p, !.tries = n]
             c == [u EXCEPT !.path = p, !.tries = n, !.goal = g]
             d == [u EXCEPT !.seen = g]
             e == [u EXCEPT !.goal = g]
  <2>1. u \in Locals_ /\ u.phase = loc[w].phase /\ u.job = loc[w].job
    BY <1>0, AtKeeps, AtOK DEF TypeInv
  <2>2. Goto(w, a) \/ Goto(w, b) \/ Goto(w, c) \/ Goto(w, d) \/ Goto(w, e)
    BY <1>2
  <2> HIDE DEF u
  <2>3. /\ a.phase = u.phase /\ a.job = u.job
        /\ b.phase = u.phase /\ b.job = u.job
        /\ c.phase = u.phase /\ c.job = u.job
        /\ d.phase = u.phase /\ d.job = u.job
        /\ e.phase = u.phase /\ e.job = u.job
    BY <2>1 DEF Locals_
  <2> HIDE DEF a, b, c, d, e
  <2> QED
    BY <2>1, <2>2, <2>3 DEF GoesOnWith
<1>3. Fail(w) => Goal
  BY <1>2, Sorts DEF Fail
<1>4. CASE Begin(w)
  BY <1>2, <1>3, <1>4, Sorts DEF Begin
<1>5. CASE Create(w) \/ InsertDispatch(w) \/ Link(w) \/ StartDispatch(w) \/ RunDispatch(w)
              \/ DatabaseFails(w)
  BY <1>1, <1>3, <1>5, Sorts DEF Create, InsertDispatch, Link, StartDispatch, RunDispatch, DatabaseFails
<1>6. CASE Judge(w) \/ AskApproval(w) \/ NoteApproval(w) \/ RecordFinal(w) \/ Inspect(w)
  BY <1>1, <1>6, Sorts DEF Judge, AfterResult, AskApproval, NoteApproval, RecordFinal,
                           Inspect, AfterInspection
<1>7. CASE Reach(w) \/ StopDispatch(w)
  BY <1>1, <1>2, <1>7, Sorts DEF Reach, StopDispatch
<1>8. Moved(w) \/ Refused(w) => Goal
  BY <1>1, <1>2, <1>3, Sorts DEF Moved, Refused
<1>9. CASE ReadJob(w) \/ SwapJob(w)
  BY <1>2, <1>8, <1>9, Sorts DEF ReadJob, SwapJob
<1>10. CASE Retry(w) \/ ReadForFailure(w)
  BY <1>2, <1>10, Sorts DEF Retry, ReadForFailure
<1>11. CASE ScheduleRetry(w) \/ Release(w)
  BY <1>11 DEF ScheduleRetry, Release
<1> QED
  BY <1>4, <1>5, <1>6, <1>7, <1>9, <1>10, <1>11 DEF Body

LEMMA SetKeeps ==
    ASSUME TypeInv, [Next]_vars, NEW k \in Job, NEW r, job' = [job EXCEPT ![k] = r],
           r.lease = job[k].lease, r.holder = job[k].holder
    PROVE  \A j \in Job : Kept(j)
<1>1. job \in [Job -> JobRow_]
  BY DEF TypeInv, JobsOK
<1>2. \A j \in Job : job'[j].lease = job[j].lease /\ job'[j].holder = job[j].holder
  BY <1>1
<1> QED
  BY <1>2, EndsStay DEF Kept

LEMMA BodyKeeps ==
    ASSUME TypeInv, [Next]_vars, NEW w \in Worker,
           (Body(w) /\ ~ScheduleRetry(w) /\ ~Release(w)) \/ DatabaseFails(w)
    PROVE  /\ \A j \in Job : Kept(j)
           /\ UNCHANGED kind
<1>0. loc[w].at \in Working => loc[w].job \in Job /\ Row(w) \in JobRow_ /\ Row(w) = job[loc[w].job]
  BY DEF TypeInv, WorkersOK, LocalsOK, JobsOK, Row
<1>1. UNCHANGED job => \A j \in Job : Kept(j)
  BY DEF Kept
<1>2. ASSUME Link(w) \/ NoteApproval(w) \/ RecordFinal(w) \/ SwapJob(w)
      PROVE  \A j \in Job : Kept(j)
  <2>1. loc[w].at \in Working
    BY <1>2, Sorts DEF Link, NoteApproval, RecordFinal, SwapJob
  <2>2. CASE UNCHANGED job
    BY <1>1, <2>2
  <2>3. ASSUME NEW x, \/ SetRow(w, [Row(w) EXCEPT !.link = x])
                      \/ SetRow(w, [Row(w) EXCEPT !.asked = TRUE])
                      \/ SetRow(w, [Row(w) EXCEPT !.attempt = x])
                      \/ SetRow(w, [Row(w) EXCEPT !.status = x])
        PROVE  \A j \in Job : Kept(j)
    <3> DEFINE r == Row(w)
               a == [r EXCEPT !.link = x]
               b == [r EXCEPT !.asked = TRUE]
               c == [r EXCEPT !.attempt = x]
               d == [r EXCEPT !.status = x]
    <3>1. r \in JobRow_ /\ r = job[loc[w].job]
      BY <1>0, <2>1
    <3>2. SetRow(w, a) \/ SetRow(w, b) \/ SetRow(w, c) \/ SetRow(w, d)
      BY <2>3
    <3> HIDE DEF r
    <3>3. /\ a.lease = r.lease /\ a.holder = r.holder
          /\ b.lease = r.lease /\ b.holder = r.holder
          /\ c.lease = r.lease /\ c.holder = r.holder
          /\ d.lease = r.lease /\ d.holder = r.holder
      BY <3>1 DEF JobRow_
    <3> HIDE DEF a, b, c, d
    <3> QED
      BY <1>0, <2>1, <3>1, <3>2, <3>3, SetKeeps DEF SetRow
  <2> QED
    BY <1>2, <2>2, <2>3 DEF Link, NoteApproval, RecordFinal, SwapJob
<1>3. UNCHANGED job \/ Link(w) \/ NoteApproval(w) \/ RecordFinal(w) \/ SwapJob(w)
  BY DEF Body, Begin, Create, InsertDispatch, StartDispatch, RunDispatch, Judge, AskApproval, Reach,
         ReadJob, Retry, ReadForFailure, Inspect, StopDispatch, DatabaseFails
<1>4. UNCHANGED kind
  BY DEF Body, Begin, Create, InsertDispatch, StartDispatch, RunDispatch, Judge, AskApproval, Reach,
         ReadJob, Retry, ReadForFailure, Inspect, StopDispatch, DatabaseFails, Link, NoteApproval,
         RecordFinal, SwapJob, OnlyWorker
<1> QED
  BY <1>1, <1>2, <1>3, <1>4

(* A job in the first loop, and what the owner's command does.             *)
LEMMA BodyPair ==
    ASSUME TypeInv, PairInv, [Next]_vars, NEW w \in Worker,
           (Body(w) /\ ~ScheduleRetry(w) /\ ~Release(w)) \/ DatabaseFails(w)
    PROVE  PairInv'
<1>0. /\ Owns(w) /\ loc \in [Worker -> Locals_] /\ loc[w] \in Locals_
      /\ loc[w].phase \in {"none", "claims", "recovery", "owner"}
  BY DEF PairInv, TypeInv, WorkersOK, Locals_
<1>1. loc[w].at \in Working
  BY Sorts DEF Body, Begin, Create, InsertDispatch, Link, StartDispatch, RunDispatch, Judge,
     AskApproval, NoteApproval, Reach, ReadJob, SwapJob, Retry, ScheduleRetry, ReadForFailure,
     RecordFinal, Release, Inspect, StopDispatch, DatabaseFails
<1>2. (\A j \in Job : Kept(j)) /\ Calm'
  BY BodyKeeps DEF PairInv, Calm, Kept
<1>3. loc[w].phase \in {"claims", "owner"} /\ loc[w].job \in Job
  BY <1>0, <1>1, Sorts DEF Owns, TypeInv, WorkersOK, LocalsOK
<1>4. CASE Done(w)
  <2>1. PICK l : /\ Goto(w, l) /\ l.at \in Between /\ l.job = NoKey
                 /\ l.phase \in {"none", loc[w].phase}
                 /\ l.phase = "none" \/ l.phase # "owner"
    BY <1>4, DoneWith
  <2>2. loc'[w] = l
    BY <1>0, <2>1 DEF Goto
  <2>3. Owns(w)'
    BY <1>3, <2>1, <2>2, Sorts DEF Owns
  <2> QED
    BY <1>2, <2>1, <2>3, PairActs
<1>5. CASE UNCHANGED loc
  BY <1>2, <1>5, PairStays
<1>6. CASE loc[w].phase = "claims"
  <2>1. ASSUME NEW l, GoesOnWith(w, l)
        PROVE  PairInv'
    <3>1. loc'[w] = l /\ Goto(w, l) /\ l.phase = "claims" /\ l.job = loc[w].job
      BY <1>0, <1>6, <2>1 DEF GoesOnWith, Goto
    <3>2. PICK j \in Job : j = loc[w].job /\ Held(w, j)
      BY <1>0, <1>1, <1>3, <1>6 DEF Owns
    <3>3. Held(w, j)'
      BY <1>2, <3>2 DEF Held, Kept
    <3>4. Owns(w)'
      BY <3>1, <3>2, <3>3 DEF Owns
    <3> QED
      BY <1>2, <1>6, <3>1, <3>4, PairActs
  <2> QED
    BY <1>1, <1>4, <1>5, <2>1, Keeping
<1>7. CASE loc[w].phase = "owner"
  <2>0. Commands(loc[w])
    BY <1>0, <1>7 DEF Owns
  <2>1. ASSUME NEW l, Goto(w, l), l.phase = "owner", l.path = "stop",
               \/ l.at \in {"reading", "swapping"} /\ l.goal = "failed_safely"
               \/ l.at = "releasing" /\ l.job = loc[w].job /\ job'[loc[w].job].status \in Terminal
        PROVE  PairInv'
    <3>1. loc'[w] = l
      BY <1>0, <2>1 DEF Goto
    <3>2. Owns(w)'
      BY <2>1, <3>1 DEF Owns, Commands
    <3> QED
      BY <1>2, <2>1, <3>2, PairActs
  <2>2. CASE StopDispatch(w)
    <3> DEFINE u == At(w, "reading")
               l == [u EXCEPT !.goal = "failed_safely"]
    <3>1. u \in Locals_ /\ u.at = "reading" /\ u.phase = "owner" /\ u.path = "stop"
      BY <1>7, <2>0, AtKeeps, AtOK DEF Place, TypeInv, Commands
    <3>2. Goto(w, l)
      BY <2>0, <2>2 DEF StopDispatch, Commands
    <3> HIDE DEF u
    <3>3. l.at = "reading" /\ l.phase = "owner" /\ l.path = "stop" /\ l.goal = "failed_safely"
      BY <3>1 DEF Locals_
    <3> HIDE DEF l
    <3> QED
      BY <2>1, <3>2, <3>3
  <2>3. CASE ReadJob(w)
    <3> DEFINE u == At(w, "swapping")
               l == [u EXCEPT !.seen = Row(w).status]
    <3>1. /\ u \in Locals_ /\ u.at = "swapping" /\ u.phase = "owner" /\ u.path = "stop"
          /\ u.goal = "failed_safely"
      BY <1>7, <2>0, <2>3, AtKeeps, AtOK DEF Place, TypeInv, Commands, ReadJob
    <3>2. Goto(w, l) \/ Done(w)
      BY <2>0, <2>3 DEF ReadJob, Refused, Commands
    <3> HIDE DEF u
    <3>3. l.at = "swapping" /\ l.phase = "owner" /\ l.path = "stop" /\ l.goal = "failed_safely"
      BY <3>1 DEF Locals_
    <3> HIDE DEF l
    <3> QED
      BY <1>4, <2>1, <3>2, <3>3
  <2>4. CASE SwapJob(w)
    <3>1. loc[w].goal = "failed_safely" /\ loc[w].path = "stop"
      BY <2>0, <2>4 DEF Commands, SwapJob
    <3>2. CASE Refused(w)
      BY <1>4, <3>1, <3>2 DEF Refused
    <3>3. CASE SetRow(w, [Row(w) EXCEPT !.status = loc[w].goal]) /\ Moved(w)
      <4> DEFINE l == At(w, "releasing")
                 r == [Row(w) EXCEPT !.status = loc[w].goal]
      <4>1. Goto(w, l)
        BY <3>1, <3>3 DEF Moved
      <4>2. l.at = "releasing" /\ l.phase = "owner" /\ l.path = "stop" /\ l.job = loc[w].job
        BY <1>7, <3>1, AtKeeps DEF Place
      <4>3. r.status = "failed_safely"
        BY <1>3, <3>1 DEF Row, TypeInv, JobsOK, JobRow_
      <4>4. job'[loc[w].job] = r
        BY <1>3, <3>3 DEF SetRow, TypeInv, JobsOK
      <4>5. job'[loc[w].job].status \in Terminal
        BY <4>3, <4>4 DEF Terminal
      <4> HIDE DEF l
      <4> QED
        BY <2>1, <4>1, <4>2, <4>5
    <3> QED
      BY <2>4, <3>2, <3>3 DEF SwapJob
  <2> QED
    BY <2>0, <2>2, <2>3, <2>4
    DEF Commands, Body, Begin, Create, InsertDispatch, Link, StartDispatch, RunDispatch, Judge,
        AskApproval, NoteApproval, Reach, Retry, ReadForFailure, RecordFinal, Inspect, DatabaseFails
<1> QED
  BY <1>3, <1>6, <1>7

(* A lease is given back by the worker that holds it, or after the end.    *)
LEMMA FreePair ==
    ASSUME TypeInv, PairInv, [Next]_vars, NEW w \in Worker, ScheduleRetry(w) \/ Release(w)
    PROVE  PairInv'
<1> DEFINE k == loc[w].job
           r == Row(w)
           a == [r EXCEPT !.attempt = loc[w].tries, !.eligible = FALSE,
                          !.lease = "free", !.holder = NoWorker]
           b == [r EXCEPT !.lease = "free", !.holder = NoWorker]
<1>0. /\ Owns(w) /\ loc \in [Worker -> Locals_] /\ job \in [Job -> JobRow_]
      /\ loc[w].at \in {"scheduling", "releasing"} /\ k \in Job /\ r \in JobRow_
      /\ loc[w].phase \in {"none", "claims", "recovery", "owner"}
  BY Sorts DEF PairInv, TypeInv, WorkersOK, LocalsOK, Locals_, JobsOK, ScheduleRetry, Release, Row
<1>1. loc[w].phase = "claims" \/ job[k].status \in Terminal
  BY <1>0, Sorts DEF Owns, Commands
<1>2. job' = [job EXCEPT ![k] = a] \/ job' = [job EXCEPT ![k] = b]
  BY DEF ScheduleRetry, Release, SetRow
<1>3. a.lease = "free" /\ b.lease = "free"
  <2> HIDE DEF r
  <2> QED
    BY <1>0 DEF JobRow_
<1>4. job'[k].lease = "free" /\ \A j \in Job \ {k} : job'[j] = job[j]
  <2> HIDE DEF a, b
  <2> QED
    BY <1>0, <1>2, <1>3
<1>5. Calm'
  BY <1>4 DEF PairInv, Calm, ScheduleRetry, Release, OnlyWorker
<1>6. PICK l : /\ Goto(w, l) /\ l.at \in Between /\ l.job = NoKey
               /\ l.phase \in {"none", loc[w].phase}
               /\ l.phase = "none" \/ l.phase # "owner"
               /\ \A i \in l.todo : i \in loc[w].todo
  BY DoneWith DEF ScheduleRetry, Release
<1>7. loc'[w] = l /\ \A v \in Worker \ {w} : loc'[v] = loc[v]
  BY <1>0, <1>6 DEF Goto
<1>8. Owns(w)'
  BY <1>0, <1>6, <1>7, Sorts DEF Owns
<1>9. ASSUME NEW v \in Worker \ {w}
      PROVE  Owns(v)'
  <2>0. Owns(v) /\ loc'[v] = loc[v] /\ (loc[v].at \in Working => loc[v].job \in Job)
    BY <1>7 DEF PairInv, TypeInv, WorkersOK, LocalsOK
  <2>1. CASE loc[v].at \in Working => loc[v].job # k
    <3>1. loc[v].at \in Working => Kept(loc[v].job)
      BY <1>4, <2>0, <2>1 DEF Kept
    <3> QED
      BY <2>0, <3>1, OwnsStays
  <2>2. CASE loc[v].job = k /\ job[k].status \in Terminal
    <3>1. job'[k].status \in Terminal
      BY <1>0, <2>2, EndsStay
    <3> QED
      BY <2>0, <2>2, <3>1 DEF Owns, Held
  <2>3. CASE loc[v].job = k /\ loc[w].phase = "claims"
    <3>1. loc[v].phase # "claims"
      BY <1>0, <2>3, NightShiftAssumption DEF PairInv, OneWorkerPerJob
    <3>2. loc[v].phase = "owner" /\ loc[v].at = "releasing" => job'[k].status \in Terminal
      BY <1>0, <2>0, <2>3, EndsStay DEF Owns
    <3> QED
      BY <2>0, <2>3, <3>1, <3>2 DEF Owns
  <2> QED
    BY <1>1, <2>1, <2>2, <2>3
<1>10. OneWorkerPerJob'
  BY <1>6, <1>7 DEF PairInv, OneWorkerPerJob
<1> QED
  BY <1>5, <1>8, <1>9, <1>10 DEF PairInv

(* A worker between two jobs.                                              *)
LEMMA RestPair ==
    ASSUME TypeInv, PairInv, NEW w \in Worker, NEW l, Goto(w, l), UNCHANGED <<job, kind>>,
           l.at \in Between, l.job = NoKey, l.phase \in {"none", "claims", "recovery"},
           l.phase = "recovery" => \A i \in l.todo : ~i.stale
    PROVE  PairInv'
<1>1. loc'[w] = l
  BY DEF Goto, TypeInv, WorkersOK
<1>2. Owns(w)'
  BY <1>1, Sorts DEF Owns
<1>3. (\A j \in Job : Kept(j)) /\ Calm'
  BY DEF Kept, PairInv, Calm
<1> QED
  BY <1>2, <1>3, PairActs

(* A job is taken from the list of the first loop.                         *)
LEMMA ClaimPair ==
    ASSUME TypeInv, PairInv, NEW w \in Worker, NEW j \in Job, ClaimJob(w, j)
    PROVE  PairInv'
<1>0. /\ loc \in [Worker -> Locals_] /\ loc[w] \in Locals_ /\ job \in [Job -> JobRow_]
      /\ loc[w].at = "sweep" /\ loc[w].phase = "claims" /\ loc[w].job = NoKey
      /\ UNCHANGED kind
  BY DEF TypeInv, WorkersOK, LocalsOK, JobsOK, ClaimJob, OnlyWorker, Between
<1>1. CASE /\ UNCHANGED job
           /\ Goto(w, [loc[w] EXCEPT !.todo = {i \in @ : i.job # j}])
  <2> DEFINE t == {i \in loc[w].todo : i.job # j}
             l == [loc[w] EXCEPT !.todo = t]
  <2>1. Goto(w, l)
    BY <1>1
  <2> HIDE DEF t
  <2>2. l.at = "sweep" /\ l.phase = "claims" /\ l.job = NoKey
    BY <1>0 DEF Locals_
  <2> HIDE DEF l
  <2> QED
    BY <1>0, <1>1, <2>1, <2>2, RestPair DEF Between
<1>2. CASE /\ Claimable(j) /\ job[j].lease # "held"
           /\ job' = [job EXCEPT ![j].lease = "held", ![j].holder = w]
           /\ Goto(w, IF job[j].status = "queued"
                      THEN [At(w, "reading") EXCEPT !.job = j, !.path = "claim", !.goal = "preparing"]
                      ELSE [At(w, "begin") EXCEPT !.job = j])
  <2> DEFINE u == At(w, "reading")
             v0 == At(w, "begin")
             a == WithJobPathGoal(u, j, "claim", "preparing")
             b == [v0 EXCEPT !.job = j]
             row == job[j]
             r == [row EXCEPT !.lease = "held", !.holder = w]
  <2>1. /\ u \in Locals_ /\ u.at = "reading" /\ u.phase = "claims"
        /\ v0 \in Locals_ /\ v0.at = "begin" /\ v0.phase = "claims"
    BY <1>0, AtKeeps, AtOK DEF Place, TypeInv
  <2>2. Goto(w, a) \/ Goto(w, b)
    BY <1>2 DEF WithJobPathGoal
  <2> HIDE DEF u, v0
  <2>3. /\ a.at = "reading" /\ a.phase = "claims" /\ a.job = j
        /\ b.at = "begin" /\ b.phase = "claims" /\ b.job = j
    BY <2>1 DEF Locals_, WithJobPathGoal
  <2> HIDE DEF a, b
  <2>4. PICK l : Goto(w, l) /\ l.at \in {"reading", "begin"} /\ l.phase = "claims" /\ l.job = j
    BY <2>2, <2>3
  <2>5. loc'[w] = l /\ \A v \in Worker \ {w} : loc'[v] = loc[v]
    BY <1>0, <2>4 DEF Goto
  <2>6. job' = [job EXCEPT ![j] = r]
    BY <1>0, <1>2 DEF JobRow_
  <2>7. r.lease = "held" /\ r.holder = w /\ r.status = row.status /\ row.status \notin Terminal
    BY <1>0, <1>2 DEF JobRow_, Claimable, Terminal
  <2> HIDE DEF r, row
  <2>8. job'[j] = r /\ \A i \in Job \ {j} : job'[i] = job[i]
    BY <1>0, <2>6
  <2>9. Calm'
    BY <1>0, <2>7, <2>8 DEF PairInv, Calm
  <2>10. Owns(w)'
    BY <2>4, <2>5, <2>7, <2>8, Sorts DEF Owns, Held
  <2>11. ASSUME NEW v \in Worker \ {w}
         PROVE  Owns(v)' /\ ~(loc[v].phase = "claims" /\ loc[v].job = j)
    <3>0. /\ Owns(v) /\ loc'[v] = loc[v] /\ loc[v] \in Locals_
          /\ loc[v].at \in Working => loc[v].job \in Job
          /\ loc[v].at \in Between => loc[v].job = NoKey
      BY <2>5 DEF PairInv, TypeInv, WorkersOK, LocalsOK
    <3>1. CASE loc[v].job # j
      <4>1. loc[v].at \in Working => Kept(loc[v].job)
        BY <2>8, <3>0, <3>1 DEF Kept
      <4> QED
        BY <3>0, <3>1, <4>1, OwnsStays
    <3>2. CASE loc[v].job = j
      <4>1. loc[v].at \in Working
        BY <3>0, <3>2, NightShiftAssumption, Sorts DEF Locals_
      <4>2. row = job[j] /\ row.status \notin Terminal
        BY <2>7 DEF row
      <4>3. loc[v].phase # "claims"
        BY <1>2, <3>0, <3>2, <4>1, <4>2 DEF Owns, Held
      <4>4. ~(loc[v].phase = "owner" /\ loc[v].at = "releasing")
        BY <3>0, <3>2, <4>2 DEF Owns
      <4> QED
        BY <3>0, <4>3, <4>4 DEF Owns
    <3> QED
      BY <3>1, <3>2
  <2>12. OneWorkerPerJob'
    BY <2>4, <2>5, <2>11 DEF PairInv, OneWorkerPerJob
  <2> QED
    BY <2>9, <2>10, <2>11, <2>12 DEF PairInv
<1> QED
  BY <1>1, <1>2 DEF ClaimJob

LEMMA LoopPair ==
    ASSUME TypeInv, PairInv, NEW w \in Worker, Loop(w)
    PROVE  PairInv'
<1>0. /\ loc[w] \in Locals_ /\ Owns(w) /\ Calm
      /\ loc[w].at = "sweep" => loc[w].job = NoKey
  BY DEF PairInv, TypeInv, WorkersOK, LocalsOK, Between
<1>1. ASSUME NEW place \in {"sweep", "idle"}, NEW phase \in {"none", "claims", "recovery"}, NEW todo,
             phase = "recovery" => \A i \in todo : ~i.stale,
             Goto(w, Resting(place, phase, todo)), UNCHANGED <<job, kind>>
      PROVE  PairInv'
  <2> DEFINE l == Resting(place, phase, todo)
  <2>1. l.at = place /\ l.job = NoKey /\ l.phase = phase /\ l.todo = todo
    BY DEF Resting
  <2>2. Goto(w, l)
    BY <1>1
  <2> HIDE DEF l
  <2> QED
    BY <1>1, <2>1, <2>2, RestPair DEF Between
<1>2. CASE Scan(w)
  BY <1>1, <1>2 DEF Scan, OnlyWorker
<1>3. CASE ListStale(w)
  <2> DEFINE S == {[job |-> j, link |-> job[j].link, stale |-> job[j].lease = "expired"] :
                      j \in {i \in Job : job[i].status = "preparing"}}
  <2>1. ASSUME NEW i \in S
        PROVE  ~i.stale
    <3>1. PICK j \in Job : i = [job |-> j, link |-> job[j].link, stale |-> job[j].lease = "expired"]
      OBVIOUS
    <3> QED
      BY <1>0, <3>1 DEF Calm
  <2> QED
    BY <1>1, <1>3, <2>1 DEF ListStale, OnlyWorker
<1>4. CASE EndTick(w)
  BY <1>1, <1>4 DEF EndTick, OnlyWorker
<1>5. ASSUME NEW j \in Job, RejectProhibited(w, j)
      PROVE  FALSE
  BY <1>0, <1>5 DEF RejectProhibited, Calm
<1>6. ASSUME NEW i \in loc[w].todo, Recover(w, i)
      PROVE  PairInv'
  <2> DEFINE t == loc[w].todo \ {i}
             l == [loc[w] EXCEPT !.todo = t]
  <2>1. ~i.stale /\ loc[w].at = "sweep" /\ loc[w].phase = "recovery"
    BY <1>0, <1>6 DEF Owns, Recover
  <2>2. Goto(w, l)
    BY <1>6, <2>1 DEF Recover
  <2>3. \A k \in t : ~k.stale
    BY <1>0, <2>1 DEF Owns
  <2> HIDE DEF t
  <2>4. l.at = "sweep" /\ l.phase = "recovery" /\ l.job = NoKey /\ l.todo = t
    BY <1>0, <2>1 DEF Locals_
  <2> HIDE DEF l
  <2>5. UNCHANGED <<job, kind>>
    BY <1>6 DEF Recover, OnlyWorker
  <2> QED
    BY <2>2, <2>3, <2>4, <2>5, RestPair DEF Between
<1> QED
  BY <1>2, <1>3, <1>4, <1>5, <1>6, ClaimPair DEF Loop

LEMMA OutsidePair ==
    ASSUME TypeInv, PairInv, [Next]_vars, NEW w \in Worker,
           Launch(w) \/ Die(w) \/ \E j \in Job : CancelJob(w, j)
    PROVE  PairInv'
<1>1. CASE Launch(w) \/ Die(w)
  <2> DEFINE a == Resting("idle", "none", {})
             b == Resting("dead", "none", {})
  <2>1. /\ a.at = "idle" /\ a.job = NoKey /\ a.phase = "none"
        /\ b.at = "dead" /\ b.job = NoKey /\ b.phase = "none"
    BY DEF Resting
  <2>2. (Goto(w, a) \/ Goto(w, b)) /\ UNCHANGED <<job, kind>>
    BY <1>1 DEF Launch, Die, OnlyWorker
  <2> HIDE DEF a, b
  <2> QED
    BY <2>1, <2>2, RestPair DEF Between
<1>2. ASSUME NEW j \in Job, CancelJob(w, j)
      PROVE  PairInv'
  <2> DEFINE s == Resting("reading", "owner", {})
             a == [s EXCEPT !.job = j, !.path = "stop", !.goal = "failed_safely"]
             b == [a EXCEPT !.at = "stopping", !.key = job[j].link, !.goal = "absent"]
  <2>1. /\ a.at = "reading" /\ a.phase = "owner" /\ a.path = "stop" /\ a.goal = "failed_safely"
        /\ b.at = "stopping" /\ b.phase = "owner" /\ b.path = "stop"
    BY DEF Resting
  <2>2. (Goto(w, a) \/ Goto(w, b)) /\ UNCHANGED <<job, kind>>
    BY <1>2 DEF CancelJob, OnlyWorker
  <2> HIDE DEF a, b
  <2>3. PICK l : /\ Goto(w, l) /\ l.phase = "owner" /\ l.path = "stop"
                 /\ \/ l.at = "reading" /\ l.goal = "failed_safely"
                    \/ l.at = "stopping"
    BY <2>1, <2>2
  <2>4. loc'[w] = l
    BY <2>3 DEF Goto, TypeInv, WorkersOK
  <2>5. Owns(w)'
    BY <2>3, <2>4 DEF Owns, Commands
  <2>6. (\A i \in Job : Kept(i)) /\ Calm'
    BY <2>2 DEF Kept, PairInv, Calm
  <2> QED
    BY <2>3, <2>5, <2>6, PairActs
<1> QED
  BY <1>1, <1>2

(* Jobs arrive, back-offs pass, the mode changes, the owner cancels.       *)
LEMMA EnvironmentPair ==
    ASSUME TypeInv, PairInv, [Next]_vars,
           \/ \E k \in Attempt : CancelDispatch(k)
           \/ \E j \in Job, c \in Kind \ {"prohibited"}, e \in BOOLEAN : Enqueue(j, c, e)
           \/ \E j \in Job : PassBackoff(j)
           \/ ChangeMode
           \/ UNCHANGED vars
    PROVE  PairInv'
<1>0. job \in [Job -> JobRow_] /\ kind \in [Job -> Kind] /\ Calm
  BY DEF TypeInv, JobsOK, PairInv
<1>1. CASE UNCHANGED <<job, kind, loc>>
  BY <1>1, PairStays DEF Kept, PairInv, Calm
<1>2. ASSUME NEW j \in Job, NEW c \in Kind \ {"prohibited"}, NEW e, Enqueue(j, c, e)
      PROVE  PairInv'
  <2>1. \A i \in Job : job'[i].lease = job[i].lease /\ job'[i].holder = job[i].holder
    BY <1>0, <1>2 DEF Enqueue, JobRow_
  <2>2. \A i \in Job : kind'[i] # "prohibited"
    BY <1>0, <1>2 DEF Enqueue, Calm
  <2>3. \A i \in Job : Kept(i)
    BY <2>1, EndsStay DEF Kept
  <2> QED
    BY <1>0, <1>2, <2>1, <2>2, <2>3, PairStays DEF Enqueue, Calm
<1>3. ASSUME NEW j \in Job, PassBackoff(j)
      PROVE  PairInv'
  <2>1. \A i \in Job : job'[i].lease = job[i].lease /\ job'[i].holder = job[i].holder
    BY <1>0, <1>3 DEF PassBackoff, JobRow_
  <2>2. \A i \in Job : Kept(i)
    BY <2>1, EndsStay DEF Kept
  <2> QED
    BY <1>0, <1>3, <2>1, <2>2, PairStays DEF PassBackoff, Calm
<1> QED
  BY <1>1, <1>2, <1>3 DEF CancelDispatch, OnlyWorker, ChangeMode, vars

LEMMA PairInvStep ==
    ASSUME LeasesExpire = FALSE, Deploys = FALSE, TypeInv, PairInv, [Next]_vars
    PROVE  PairInv'
<1>1. ASSUME NEW j \in Job, ExpireLease(j) \/ \E c \in Kind : Deploy(j, c)
      PROVE  FALSE
  BY <1>1 DEF ExpireLease, Deploy
<1>2. ASSUME NEW w \in Worker, Loop(w) \/ Body(w) \/ DatabaseFails(w) \/ Launch(w) \/ Die(w)
      PROVE  PairInv'
  BY <1>2, LoopPair, BodyPair, FreePair, OutsidePair
<1>3. ASSUME NEW w \in Worker, NEW j \in Job, CancelJob(w, j)
      PROVE  PairInv'
  BY <1>3, OutsidePair
<1> QED
  BY <1>1, <1>2, <1>3, EnvironmentPair DEF Next

(* Whatever crashes, restarts, commands of the owner and database errors   *)
(* there are, no two workers are at work on one job while no lease runs    *)
(* out and no release changes what a type of job may do: the lease, taken  *)
(* by one compare-and-swap, is enough to exclude the duplicate pickup.     *)
THEOREM NoDuplicatePickup ==
    ASSUME LeasesExpire = FALSE, Deploys = FALSE
    PROVE  Spec => []OneWorkerPerJob
<1>1. Init => PairInv
  BY PairInvInit
<1>2. TypeInv /\ PairInv /\ [Next]_vars => PairInv'
  BY PairInvStep
<1>3. PairInv => OneWorkerPerJob
  BY DEF PairInv
<1> QED
  BY <1>1, <1>2, <1>3, TypeInvAlways, PTL DEF Spec

-----------------------------------------------------------------------------
(* What a step does to the locals of its worker and to the row of its job, *)
(* field by field.                                                         *)
Others(w) == \A v \in Worker \ {w} : loc'[v] = loc[v]

Moves(w, at, key, path, goal, seen, tries) ==
    /\ Others(w)
    /\ loc'[w].at = at /\ loc'[w].key = key /\ loc'[w].path = path
    /\ loc'[w].goal = goal /\ loc'[w].seen = seen /\ loc'[w].tries = tries
    /\ loc'[w].job = loc[w].job /\ loc'[w].phase = loc[w].phase /\ loc'[w].todo = loc[w].todo

Steps(w, at) == Moves(w, at, loc[w].key, loc[w].path, loc[w].goal, loc[w].seen, loc[w].tries)

Stumbles(w) == Moves(w, "failing", loc[w].key, "fail", loc[w].goal, loc[w].seen, 0)

IsResting(l, place, phase, todo) ==
    /\ l.at = place /\ l.phase = phase /\ l.todo = todo /\ l.job = NoKey /\ l.key = NoKey
    /\ l.path = "none" /\ l.goal = "absent" /\ l.seen = "absent" /\ l.tries = 0

Rests(w) ==
    /\ Others(w)
    /\ \/ loc[w].phase = "owner" /\ IsResting(loc'[w], "idle", "none", {})
       \/ /\ loc[w].phase # "owner"
          /\ IsResting(loc'[w], "sweep", loc[w].phase, {i \in loc[w].todo : i.job # loc[w].job})

LEMMA RestsThere ==
    ASSUME TypeInv, NEW w \in Worker, NEW place, NEW phase, NEW todo,
           Goto(w, Resting(place, phase, todo))
    PROVE  Others(w) /\ IsResting(loc'[w], place, phase, todo)
<1> DEFINE l == Resting(place, phase, todo)
<1>1. IsResting(l, place, phase, todo)
  BY DEF IsResting, Resting
<1> HIDE DEF l
<1>2. loc' = [loc EXCEPT ![w] = l] /\ loc \in [Worker -> Locals_]
  BY DEF Goto, TypeInv, WorkersOK, l
<1> QED
  BY <1>1, <1>2 DEF Others

LEMMA DoneRests == ASSUME TypeInv, NEW w \in Worker, Done(w) PROVE Rests(w)
BY RestsThere DEF Done, Rests

LEMMA Edits ==
    ASSUME TypeInv, NEW w \in Worker, NEW place \in Place, NEW k, NEW p, NEW n, NEW g
    PROVE  LET l == loc[w] IN
           /\ Goto(w, At(w, place)) => Steps(w, place)
           /\ Goto(w, [At(w, place) EXCEPT !.key = k, !.path = p]) =>
                 Moves(w, place, k, p, l.goal, l.seen, l.tries)
           /\ Goto(w, [At(w, place) EXCEPT !.path = p, !.tries = n]) =>
                 Moves(w, place, l.key, p, l.goal, l.seen, n)
           /\ Goto(w, [At(w, place) EXCEPT !.path = p, !.tries = n, !.goal = g]) =>
                 Moves(w, place, l.key, p, g, l.seen, n)
           /\ Goto(w, [At(w, place) EXCEPT !.seen = g]) =>
                 Moves(w, place, l.key, l.path, l.goal, g, l.tries)
           /\ Goto(w, [At(w, place) EXCEPT !.goal = g]) =>
                 Moves(w, place, l.key, l.path, g, l.seen, l.tries)
<1> DEFINE l == loc[w]
           u == At(w, place)
           a == [u EXCEPT !.key = k, !.path = p]
           b == [u EXCEPT !.path = p, !.tries = n]
           c == [u EXCEPT !.path = p, !.tries = n, !.goal = g]
           d == [u EXCEPT !.seen = g]
           e == [u EXCEPT !.goal = g]
<1>1. /\ u \in Locals_ /\ u.at = place /\ u.phase = l.phase /\ u.todo = l.todo /\ u.job = l.job
      /\ u.key = l.key /\ u.path = l.path /\ u.goal = l.goal /\ u.seen = l.seen /\ u.tries = l.tries
  BY DEF TypeInv, WorkersOK, Locals_, At
<1>2. loc \in [Worker -> Locals_]
  BY DEF TypeInv, WorkersOK
<1>3. \A m : Goto(w, m) => Others(w) /\ loc'[w] = m
  BY <1>2 DEF Goto, Others
<1> HIDE DEF u, l
<1>4. /\ a.at = u.at /\ a.phase = u.phase /\ a.todo = u.todo /\ a.job = u.job
      /\ a.key = k /\ a.path = p /\ a.goal = u.goal /\ a.seen = u.seen /\ a.tries = u.tries
  BY <1>1 DEF Locals_
<1>5. /\ b.at = u.at /\ b.phase = u.phase /\ b.todo = u.todo /\ b.job = u.job
      /\ b.key = u.key /\ b.path = p /\ b.goal = u.goal /\ b.seen = u.seen /\ b.tries = n
  BY <1>1 DEF Locals_
<1>6. /\ c.at = u.at /\ c.phase = u.phase /\ c.todo = u.todo /\ c.job = u.job
      /\ c.key = u.key /\ c.path = p /\ c.goal = g /\ c.seen = u.seen /\ c.tries = n
  BY <1>1 DEF Locals_
<1>7. /\ d.at = u.at /\ d.phase = u.phase /\ d.todo = u.todo /\ d.job = u.job
      /\ d.key = u.key /\ d.path = u.path /\ d.goal = u.goal /\ d.seen = g /\ d.tries = u.tries
  BY <1>1 DEF Locals_
<1>8. /\ e.at = u.at /\ e.phase = u.phase /\ e.todo = u.todo /\ e.job = u.job
      /\ e.key = u.key /\ e.path = u.path /\ e.goal = g /\ e.seen = u.seen /\ e.tries = u.tries
  BY <1>1 DEF Locals_
<1> HIDE DEF a, b, c, d, e
<1>9. /\ Goto(w, u) => Steps(w, place)
      /\ Goto(w, a) => Moves(w, place, k, p, l.goal, l.seen, l.tries)
      /\ Goto(w, b) => Moves(w, place, l.key, p, l.goal, l.seen, n)
      /\ Goto(w, c) => Moves(w, place, l.key, p, g, l.seen, n)
      /\ Goto(w, d) => Moves(w, place, l.key, l.path, l.goal, g, l.tries)
      /\ Goto(w, e) => Moves(w, place, l.key, l.path, g, l.seen, l.tries)
  BY <1>1, <1>3, <1>4, <1>5, <1>6, <1>7, <1>8 DEF Moves, Steps, l
<1> QED
  BY <1>9 DEF a, b, c, d, e, u, l

LEMMA FailStumbles == ASSUME TypeInv, NEW w \in Worker, Fail(w) PROVE Stumbles(w)
BY Edits, Sorts DEF Fail, Stumbles

(* The row of job j afterwards; the rows of the others stay.               *)
Sets(j, s, k, n, a) ==
    /\ \A i \in Job \ {j} : job'[i] = job[i]
    /\ job'[j].status = s /\ job'[j].link = k /\ job'[j].attempt = n /\ job'[j].asked = a

LEMMA RowEdits ==
    ASSUME TypeInv, NEW w \in Worker, loc[w].at \in Working, NEW x, NEW y, NEW z, NEW u
    PROVE  LET r == Row(w)
               j == loc[w].job
           IN  /\ SetRow(w, [r EXCEPT !.link = x]) => Sets(j, r.status, x, r.attempt, r.asked)
               /\ SetRow(w, [r EXCEPT !.asked = x]) => Sets(j, r.status, r.link, r.attempt, x)
               /\ SetRow(w, [r EXCEPT !.status = x]) => Sets(j, x, r.link, r.attempt, r.asked)
               /\ SetRow(w, [r EXCEPT !.attempt = x]) => Sets(j, r.status, r.link, x, r.asked)
               /\ SetRow(w, [r EXCEPT !.attempt = x, !.eligible = y, !.lease = z, !.holder = u]) =>
                     Sets(j, r.status, r.link, x, r.asked)
               /\ SetRow(w, [r EXCEPT !.lease = x, !.holder = y]) =>
                     Sets(j, r.status, r.link, r.attempt, r.asked)
<1> DEFINE r == Row(w)
           j == loc[w].job
           a == [r EXCEPT !.link = x]
           b == [r EXCEPT !.asked = x]
           c == [r EXCEPT !.status = x]
           d == [r EXCEPT !.attempt = x]
           e == [r EXCEPT !.attempt = x, !.eligible = y, !.lease = z, !.holder = u]
           f == [r EXCEPT !.lease = x, !.holder = y]
<1>1. j \in Job /\ r \in JobRow_ /\ job \in [Job -> JobRow_]
  BY DEF TypeInv, WorkersOK, LocalsOK, JobsOK, Row
<1>2. \A s : SetRow(w, s) => job'[j] = s /\ \A i \in Job \ {j} : job'[i] = job[i]
  BY <1>1 DEF SetRow
<1> HIDE DEF r, j
<1>3. /\ a.status = r.status /\ a.link = x /\ a.attempt = r.attempt /\ a.asked = r.asked
      /\ b.status = r.status /\ b.link = r.link /\ b.attempt = r.attempt /\ b.asked = x
      /\ c.status = x /\ c.link = r.link /\ c.attempt = r.attempt /\ c.asked = r.asked
  BY <1>1 DEF JobRow_
<1>4. /\ d.status = r.status /\ d.link = r.link /\ d.attempt = x /\ d.asked = r.asked
      /\ e.status = r.status /\ e.link = r.link /\ e.attempt = x /\ e.asked = r.asked
      /\ f.status = r.status /\ f.link = r.link /\ f.attempt = r.attempt /\ f.asked = r.asked
  BY <1>1 DEF JobRow_
<1> HIDE DEF a, b, c, d, e, f
<1>5. /\ SetRow(w, a) => Sets(j, r.status, x, r.attempt, r.asked)
      /\ SetRow(w, b) => Sets(j, r.status, r.link, r.attempt, x)
      /\ SetRow(w, c) => Sets(j, x, r.link, r.attempt, r.asked)
      /\ SetRow(w, d) => Sets(j, r.status, r.link, x, r.asked)
      /\ SetRow(w, e) => Sets(j, r.status, r.link, x, r.asked)
      /\ SetRow(w, f) => Sets(j, r.status, r.link, r.attempt, r.asked)
  BY <1>2, <1>3, <1>4 DEF Sets
<1> QED
  BY <1>5 DEF a, b, c, d, e, f, r, j

LEMMA MovedEffect ==
    ASSUME TypeInv, NEW w \in Worker, Moved(w)
    PROVE  LET l == loc[w] IN
           \/ l.path = "claim" /\ Steps(w, "begin")
           \/ l.path = "prohibit" /\ Rests(w)
           \/ l.path = "fail" /\ Steps(w, "recording")
           \/ /\ l.goal = "validating"
              /\ Moves(w, "reading", l.key, l.path, "draft_saved", l.seen, l.tries)
           \/ /\ l.path = "defer" /\ l.goal = "draft_saved"
              /\ Moves(w, "reading", l.key, l.path, "awaiting_approval", l.seen, l.tries)
           \/ l.path \notin {"claim", "prohibit", "fail"} /\ Steps(w, "releasing")
<1> DEFINE l == loc[w]
           again(g) == [At(w, "reading") EXCEPT !.goal = g]
<1>1. \/ l.path = "claim" /\ Goto(w, At(w, "begin"))
      \/ l.path = "prohibit" /\ Done(w)
      \/ l.path = "fail" /\ Goto(w, At(w, "recording"))
      \/ l.goal = "validating" /\ Goto(w, again("draft_saved"))
      \/ l.path = "defer" /\ l.goal = "draft_saved" /\ Goto(w, again("awaiting_approval"))
      \/ l.path \notin {"claim", "prohibit", "fail"} /\ Goto(w, At(w, "releasing"))
  BY DEF Moved
<1>2. \A g : Goto(w, again(g)) => Moves(w, "reading", l.key, l.path, g, l.seen, l.tries)
  BY Edits, Sorts
<1> HIDE DEF again
<1> QED
  BY <1>1, <1>2, Edits, DoneRests, Sorts

LEMMA RefusedEffect ==
    ASSUME TypeInv, NEW w \in Worker, Refused(w)
    PROVE  \/ loc[w].path = "claim" /\ Steps(w, "releasing")
           \/ loc[w].path \in {"prohibit", "stop"} /\ Rests(w)
           \/ loc[w].path = "fail" /\ Steps(w, "recording")
           \/ loc[w].path \notin {"claim", "prohibit", "stop", "fail"} /\ Stumbles(w)
BY Edits, DoneRests, FailStumbles, Sorts DEF Refused

(* A worker takes up a job of its list, or leaves one out.                 *)
Takes(w, at, j, key, path, goal) ==
    /\ Others(w)
    /\ loc'[w].at = at /\ loc'[w].job = j /\ loc'[w].key = key
    /\ loc'[w].path = path /\ loc'[w].goal = goal
    /\ loc'[w].seen = loc[w].seen /\ loc'[w].tries = loc[w].tries
    /\ loc'[w].phase = loc[w].phase /\ loc'[w].todo = loc[w].todo

Skips(w) ==
    /\ Others(w)
    /\ loc'[w].at = loc[w].at /\ loc'[w].job = loc[w].job /\ loc'[w].key = loc[w].key
    /\ loc'[w].path = loc[w].path /\ loc'[w].goal = loc[w].goal
    /\ loc'[w].seen = loc[w].seen /\ loc'[w].tries = loc[w].tries
    /\ loc'[w].phase = loc[w].phase /\ loc'[w].todo \subseteq loc[w].todo

LEMMA ListEdits ==
    ASSUME TypeInv, NEW w \in Worker, NEW place \in Place, NEW j, NEW k, NEW p, NEW g, NEW t
    PROVE  LET l == loc[w] IN
           /\ Goto(w, [At(w, place) EXCEPT !.job = j]) => Takes(w, place, j, l.key, l.path, l.goal)
           /\ Goto(w, [At(w, place) EXCEPT !.job = j, !.path = p, !.goal = g]) =>
                 Takes(w, place, j, l.key, p, g)
           /\ Goto(w, [At(w, place) EXCEPT !.job = j, !.key = k, !.path = p]) =>
                 Takes(w, place, j, k, p, l.goal)
           /\ Goto(w, [l EXCEPT !.todo = t]) /\ t \subseteq l.todo => Skips(w)
<1> DEFINE l == loc[w]
           u == At(w, place)
           a == [u EXCEPT !.job = j]
           b == [u EXCEPT !.job = j, !.path = p, !.goal = g]
           c == [u EXCEPT !.job = j, !.key = k, !.path = p]
           d == [l EXCEPT !.todo = t]
<1>1. /\ u \in Locals_ /\ u.at = place /\ u.phase = l.phase /\ u.todo = l.todo /\ u.job = l.job
      /\ u.key = l.key /\ u.path = l.path /\ u.goal = l.goal /\ u.seen = l.seen /\ u.tries = l.tries
      /\ l \in Locals_
  BY DEF TypeInv, WorkersOK, Locals_, At
<1>2. \A m : Goto(w, m) => Others(w) /\ loc'[w] = m
  BY DEF Goto, Others, TypeInv, WorkersOK
<1> HIDE DEF u, l
<1>3. /\ a.at = u.at /\ a.phase = u.phase /\ a.todo = u.todo /\ a.job = j
      /\ a.key = u.key /\ a.path = u.path /\ a.goal = u.goal /\ a.seen = u.seen /\ a.tries = u.tries
  BY <1>1 DEF Locals_
<1>4. /\ b.at = u.at /\ b.phase = u.phase /\ b.todo = u.todo /\ b.job = j
      /\ b.key = u.key /\ b.path = p /\ b.goal = g /\ b.seen = u.seen /\ b.tries = u.tries
  BY <1>1 DEF Locals_
<1>5. /\ c.at = u.at /\ c.phase = u.phase /\ c.todo = u.todo /\ c.job = j
      /\ c.key = k /\ c.path = p /\ c.goal = u.goal /\ c.seen = u.seen /\ c.tries = u.tries
  BY <1>1 DEF Locals_
<1>6. /\ d.at = l.at /\ d.phase = l.phase /\ d.todo = t /\ d.job = l.job
      /\ d.key = l.key /\ d.path = l.path /\ d.goal = l.goal /\ d.seen = l.seen /\ d.tries = l.tries
  BY <1>1 DEF Locals_
<1> HIDE DEF a, b, c, d
<1>7. /\ Goto(w, a) => Takes(w, place, j, l.key, l.path, l.goal)
      /\ Goto(w, b) => Takes(w, place, j, l.key, p, g)
      /\ Goto(w, c) => Takes(w, place, j, k, p, l.goal)
      /\ Goto(w, d) /\ t \subseteq l.todo => Skips(w)
  BY <1>1, <1>2, <1>3, <1>4, <1>5, <1>6 DEF Takes, Skips, l
<1> QED
  BY <1>7 DEF a, b, c, d, u, l

LEMMA ClaimEffect ==
    ASSUME TypeInv, NEW w \in Worker, NEW j \in Job, ClaimJob(w, j)
    PROVE  LET l == loc[w]
               r == job[j]
           IN  /\ l.at = "sweep" /\ l.phase = "claims"
               /\ Sets(j, r.status, r.link, r.attempt, r.asked)
               /\ \/ Skips(w)
                  \/ r.status = "queued" /\ Takes(w, "reading", j, l.key, "claim", "preparing")
                  \/ r.status = "preparing" /\ Takes(w, "begin", j, l.key, l.path, l.goal)
<1> DEFINE l == loc[w]
           r == job[j]
           s == [r EXCEPT !.lease = "held", !.holder = w]
           t == {i \in l.todo : i.job # j}
<1>1. r \in JobRow_ /\ job \in [Job -> JobRow_]
  BY DEF TypeInv, JobsOK
<1>2. s.status = r.status /\ s.link = r.link /\ s.attempt = r.attempt /\ s.asked = r.asked
  <2> HIDE DEF r
  <2> QED
    BY <1>1 DEF JobRow_
<1>3. UNCHANGED job \/ job' = [job EXCEPT ![j] = s]
  BY DEF ClaimJob
<1>4. Sets(j, r.status, r.link, r.attempt, r.asked)
  <2> HIDE DEF s
  <2> QED
    BY <1>1, <1>2, <1>3 DEF Sets
<1>5. t \subseteq l.todo
  OBVIOUS
<1>6. \/ Goto(w, [l EXCEPT !.todo = t])
      \/ r.status = "queued"
            /\ Goto(w, [At(w, "reading") EXCEPT !.job = j, !.path = "claim", !.goal = "preparing"])
      \/ r.status = "preparing" /\ Goto(w, [At(w, "begin") EXCEPT !.job = j])
  BY DEF ClaimJob, Claimable
<1>7. l.at = "sweep" /\ l.phase = "claims"
  BY DEF ClaimJob
<1> QED
  BY <1>4, <1>5, <1>6, <1>7, ListEdits, Sorts

LEMMA RecoverEffect ==
    ASSUME TypeInv, NEW w \in Worker, NEW i \in loc[w].todo, Recover(w, i)
    PROVE  /\ loc[w].at = "sweep" /\ loc[w].phase = "recovery" /\ UNCHANGED job
           /\ \/ Skips(w)
              \/ i.stale /\ i.link = NoKey
                    /\ Takes(w, "retrying", i.job, loc[w].key, loc[w].path, loc[w].goal)
              \/ i.stale /\ i.link # NoKey
                    /\ Takes(w, "inspecting", i.job, i.link, "finish", loc[w].goal)
<1> DEFINE t == loc[w].todo \ {i}
<1>1. t \subseteq loc[w].todo
  OBVIOUS
<1>2. i \in Item_
  BY DEF TypeInv, WorkersOK, Locals_
<1>3. \/ Goto(w, [loc[w] EXCEPT !.todo = t])
      \/ i.stale /\ i.link = NoKey /\ Goto(w, [At(w, "retrying") EXCEPT !.job = i.job])
      \/ i.stale /\ i.link # NoKey
            /\ Goto(w, [At(w, "inspecting") EXCEPT !.job = i.job, !.key = i.link, !.path = "finish"])
  BY DEF Recover
<1>4. loc[w].at = "sweep" /\ loc[w].phase = "recovery" /\ UNCHANGED job
  BY DEF Recover
<1> QED
  BY <1>1, <1>3, <1>4, ListEdits, Sorts

LEMMA CommandEffect ==
    ASSUME TypeInv, NEW w \in Worker, NEW j \in Job, CancelJob(w, j)
    PROVE  LET m == loc'[w]
           IN  /\ loc[w].at = "idle" /\ Others(w) /\ UNCHANGED job
               /\ m.phase = "owner" /\ m.todo = {} /\ m.job = j /\ m.path = "stop" /\ m.tries = 0
               /\ \/ m.at = "reading" /\ m.goal = "failed_safely"
                  \/ m.at = "stopping" /\ m.key = job[j].link /\ m.key # NoKey
<1> DEFINE s == Resting("reading", "owner", {})
           a == [s EXCEPT !.job = j, !.path = "stop", !.goal = "failed_safely"]
           b == [a EXCEPT !.at = "stopping", !.key = job[j].link, !.goal = "absent"]
<1>1. /\ a.at = "reading" /\ a.phase = "owner" /\ a.todo = {} /\ a.job = j /\ a.path = "stop"
      /\ a.tries = 0 /\ a.goal = "failed_safely"
  BY DEF Resting
<1>2. /\ b.at = "stopping" /\ b.phase = "owner" /\ b.todo = {} /\ b.job = j /\ b.path = "stop"
      /\ b.tries = 0 /\ b.key = job[j].link
  BY DEF Resting
<1>3. Goto(w, a) \/ (Goto(w, b) /\ job[j].link # NoKey)
  BY DEF CancelJob
<1>4. \A m : Goto(w, m) => Others(w) /\ loc'[w] = m
  BY DEF Goto, Others, TypeInv, WorkersOK
<1>5. loc[w].at = "idle" /\ UNCHANGED job
  BY DEF CancelJob
<1> HIDE DEF a, b
<1> QED
  BY <1>1, <1>2, <1>3, <1>4, <1>5

-----------------------------------------------------------------------------
(* How far attempt_count can go. A process adds one to the count it reads, *)
(* at most once for each time it takes a job up; a job whose last attempt  *)
(* is recorded is past preparing, so nobody takes it up any more, and only *)
(* those who are at work on it already can go on counting.                 *)
Begun == JobStatus \ {"absent", "queued"}
Past  == Begun \ {"preparing"}

Most == MaxAttempts + Processes - 1

Living == {w \in Worker : Alive(w)}

Armed == {"begin", "creating", "inserting", "linking", "starting", "dispatching", "judging",
          "inspecting", "retrying"}
Closing == {"failing", "reading", "swapping", "recording", "releasing"}

MayRetry(l, j) ==
    \/ /\ l.job = j
       /\ \/ l.at \in Armed
          \/ l.at = "stopping" /\ l.path # "stop"
          \/ l.at \in {"reading", "swapping"} /\ l.path = "claim"
    \/ /\ l.job # j /\ l.phase = "recovery"
       /\ \E i \in l.todo : i.stale /\ i.job = j

Retriers(j) == {w \in Worker : MayRetry(loc[w], j)}

(* At work on a job that has begun.                                        *)
Engaged(l) ==
    \/ l.at \in Armed \cup {"asking", "noting", "reaching", "scheduling", "failing", "recording"}
    \/ l.at = "stopping" /\ l.path # "stop"
    \/ l.at \in {"reading", "swapping"} /\ l.path \in {"finish", "defer", "fail"}

(* What a worker knows of its job, and of the count it is about to write.  *)
Plain(l) ==
    /\ l.at \in {"unborn", "dead", "idle"} => l.phase = "none" /\ l.todo = {}
    /\ l.at = "sweep" => l.tries = 0
    /\ Engaged(l) => job[l.job].status \in Begun
    /\ l.phase = "recovery" => \A i \in l.todo : job[i.job].status \in Begun
    /\ l.path = "fail" /\ l.at \in {"reading", "swapping"} => l.goal = "failed_safely"
    /\ l.path = "fail" /\ l.at = "swapping" =>
          l.seen \in Begun /\ (l.seen \in Past => job[l.job].status \in Past)
    /\ l.at = "scheduling" => l.tries < MaxAttempts
    /\ l.tries >= MaxAttempts =>
          l.at \in Closing /\ (l.at \in {"reading", "swapping"} => l.path = "fail")
    /\ l.tries >= MaxAttempts /\ l.at = "recording" => job[l.job].status \in Past

Counted(l) ==
    l.tries > MaxAttempts =>
        /\ job[l.job].status \in Past
        /\ l.tries + Cardinality(Retriers(l.job)) <= Most

RowCounted(j) ==
    job[j].attempt >= MaxAttempts =>
        /\ job[j].status \in Past
        /\ job[j].attempt + Cardinality(Retriers(j)) <= Most

CountInv ==
    /\ IsFiniteSet(Living) /\ Cardinality(Living) <= Processes
    /\ \A j \in Job : RowCounted(j)
    /\ \A w \in Worker : Plain(loc[w]) /\ Counted(loc[w])

LEMMA StatusRises ==
    ASSUME TypeInv, [Next]_vars, NEW j \in Job
    PROVE  /\ job[j].status \in Begun => job'[j].status \in Begun
           /\ job[j].status \in Past => job'[j].status \in Past
<1>1. /\ \A s \in JobStatus : s \in Begun => JobTransitions[s] \subseteq Begun
      /\ \A s \in JobStatus : s \in Past => JobTransitions[s] \subseteq Past
  BY DEF JobTransitions, JobStatus, Begun, Past, Terminal
<1>2. RowStep /\ job \in [Job -> JobRow_]
  BY JobsStep DEF TypeInv, JobsOK
<1>3. job[j].status \in JobStatus
  BY <1>2 DEF JobRow_
<1>4. "absent" \notin Begun /\ "absent" \notin Past
  BY DEF Begun, Past
<1> QED
  BY <1>1, <1>2, <1>3, <1>4 DEF RowStep

LEMMA RetriersLive ==
    ASSUME CountInv
    PROVE  /\ \A j : Retriers(j) \subseteq Living
           /\ \A j : /\ IsFiniteSet(Retriers(j))
                     /\ Cardinality(Retriers(j)) \in Nat /\ Cardinality(Retriers(j)) <= Processes
           /\ \A w \in Living : \A j : w \notin Retriers(j) => Cardinality(Retriers(j)) <= Processes - 1
<1>1. ASSUME NEW j
      PROVE  Retriers(j) \subseteq Living
  <2> SUFFICES ASSUME NEW w \in Worker, MayRetry(loc[w], j), ~Alive(w)
               PROVE  FALSE
    BY DEF Retriers, Living
  <2> QED
    BY DEF CountInv, Plain, MayRetry, Alive, Armed
<1>2. IsFiniteSet(Living) /\ Cardinality(Living) \in Nat /\ Cardinality(Living) <= Processes
  BY FS_CardinalityType DEF CountInv
<1>3. ASSUME NEW j
      PROVE  IsFiniteSet(Retriers(j)) /\ Cardinality(Retriers(j)) \in Nat /\ Cardinality(Retriers(j)) <= Processes
  BY <1>1, <1>2, FS_Subset, FS_CardinalityType, NightShiftAssumption
<1>4. ASSUME NEW w \in Living, NEW j, w \notin Retriers(j)
      PROVE  Cardinality(Retriers(j)) <= Processes - 1
  <2>1. Retriers(j) \subseteq Living \ {w}
    BY <1>1, <1>4
  <2>2. IsFiniteSet(Living \ {w}) /\ Cardinality(Living \ {w}) = Cardinality(Living) - 1
    BY <1>2, FS_RemoveElement
  <2> QED
    BY <1>2, <1>3, <2>1, <2>2, FS_Subset, NightShiftAssumption
<1> QED
  BY <1>1, <1>3, <1>4

(* Nobody new is at work on a job that is past preparing.                  *)
NoNewcomer(w) ==
    \A j \in Job : job[j].status \in Past /\ MayRetry(loc'[w], j) => MayRetry(loc[w], j)

LEMMA RetriersLeave ==
    ASSUME CountInv, NEW w \in Worker, Others(w), NoNewcomer(w), NEW j \in Job, job[j].status \in Past
    PROVE  /\ Retriers(j)' \subseteq Retriers(j)
           /\ IsFiniteSet(Retriers(j)') /\ Cardinality(Retriers(j)') \in Nat
           /\ Cardinality(Retriers(j)') <= Cardinality(Retriers(j))
           /\ w \in Retriers(j) /\ w \notin Retriers(j)' =>
                 Cardinality(Retriers(j)') <= Cardinality(Retriers(j)) - 1
<1>1. Retriers(j)' \subseteq Retriers(j)
  BY DEF Retriers, Others, NoNewcomer
<1>2. IsFiniteSet(Retriers(j)) /\ Cardinality(Retriers(j)) \in Nat
  BY RetriersLive
<1>3. IsFiniteSet(Retriers(j)') /\ Cardinality(Retriers(j)') \in Nat
         /\ Cardinality(Retriers(j)') <= Cardinality(Retriers(j))
  BY <1>1, <1>2, FS_Subset, FS_CardinalityType
<1>4. ASSUME w \in Retriers(j), w \notin Retriers(j)'
      PROVE  Cardinality(Retriers(j)') <= Cardinality(Retriers(j)) - 1
  <2>1. Retriers(j)' \subseteq Retriers(j) \ {w}
    BY <1>1, <1>4
  <2>2. IsFiniteSet(Retriers(j) \ {w}) /\ Cardinality(Retriers(j) \ {w}) = Cardinality(Retriers(j)) - 1
    BY <1>2, <1>4, FS_RemoveElement
  <2> QED
    BY <2>1, <2>2, FS_Subset
<1> QED
  BY <1>1, <1>3, <1>4

LEMMA LocalsAre ==
    ASSUME TypeInv
    PROVE  /\ loc \in [Worker -> Locals_] /\ job \in [Job -> JobRow_]
           /\ MaxAttempts \in Nat \ {0} /\ Processes \in Nat \ {0}
           /\ \A w \in Worker :
                 /\ loc[w].tries \in Nat /\ loc[w].at \in Place /\ loc[w].todo \subseteq Item_
                 /\ loc[w].at \in Working => loc[w].job \in Job
                 /\ loc[w].at \in Between => loc[w].job = NoKey
                 /\ loc[w].phase \in {"none", "claims", "recovery", "owner"}
           /\ \A j \in Job : job[j].attempt \in Nat /\ job[j].status \in JobStatus
           /\ \A i \in Item_ : i.job \in Job
BY NightShiftAssumption DEF TypeInv, WorkersOK, LocalsOK, Locals_, JobsOK, JobRow_, Item_

(* Where a worker counts, it has a job.                                    *)
LEMMA PlacesWork ==
    /\ Armed \subseteq Working /\ Closing \subseteq Working
    /\ {"asking", "noting", "reaching", "scheduling", "stopping"} \subseteq Working
    /\ Between = {"unborn", "dead", "idle", "sweep"}
BY Sorts DEF Armed, Closing, Between

(* Whoever does not act knows what it knew.                                *)
LEMMA CountStays ==
    ASSUME TypeInv, CountInv, [Next]_vars, NEW w \in Worker, Others(w), NoNewcomer(w),
           NEW v \in Worker, loc'[v].at = loc[v].at, loc'[v] = loc[v]
    PROVE  Plain(loc[v])' /\ Counted(loc[v])'
<1> DEFINE l == loc[v]
           j == l.job
<1>0. /\ l.tries \in Nat /\ l.at \in Place /\ (l.at \in Working => j \in Job)
      /\ l.at \in Between => j = NoKey
      /\ \A i \in l.todo : i.job \in Job
      /\ MaxAttempts \in Nat \ {0}
  BY LocalsAre
<1>1. \A i \in Job : /\ job[i].status \in Begun => job'[i].status \in Begun
                     /\ job[i].status \in Past => job'[i].status \in Past
  BY StatusRises
<1>2. Plain(l) /\ Counted(l)
  BY DEF CountInv
<1>3. (Engaged(l) => j \in Job) /\ (l.tries >= MaxAttempts => j \in Job) /\ (l.at \in Closing => j \in Job)
  BY <1>0, <1>2, PlacesWork DEF Engaged, Plain, Closing
<1>4. Plain(loc[v])'
  BY <1>0, <1>1, <1>2, <1>3 DEF Plain, Closing, Engaged
<1>5. ASSUME l.tries > MaxAttempts
      PROVE  job'[j].status \in Past /\ l.tries + Cardinality(Retriers(j)') <= Most
  <2>1. j \in Job /\ job[j].status \in Past /\ l.tries + Cardinality(Retriers(j)) <= Most
    BY <1>0, <1>2, <1>3, <1>5 DEF Counted
  <2>2. /\ Cardinality(Retriers(j)') \in Nat /\ Cardinality(Retriers(j)) \in Nat
        /\ Cardinality(Retriers(j)') <= Cardinality(Retriers(j))
    BY <2>1, RetriersLeave, RetriersLive
  <2> QED
    BY <1>0, <1>1, <2>1, <2>2, NightShiftAssumption DEF Most
<1>6. Counted(loc[v])'
  BY <1>5 DEF Counted, Retriers
<1> QED
  BY <1>4, <1>6

LEMMA RowsStayCounted ==
    ASSUME TypeInv, CountInv, [Next]_vars, NEW w \in Worker, Others(w), NoNewcomer(w),
           NEW j \in Job, job'[j].attempt = job[j].attempt
    PROVE  RowCounted(j)'
<1>1. SUFFICES ASSUME job[j].attempt >= MaxAttempts
               PROVE  job'[j].status \in Past /\ job[j].attempt + Cardinality(Retriers(j)') <= Most
  BY DEF RowCounted
<1>2. job[j].status \in Past /\ job[j].attempt + Cardinality(Retriers(j)) <= Most
  BY <1>1 DEF CountInv, RowCounted
<1>3. /\ Cardinality(Retriers(j)') \in Nat /\ Cardinality(Retriers(j)) \in Nat
      /\ Cardinality(Retriers(j)') <= Cardinality(Retriers(j))
  BY <1>2, RetriersLeave, RetriersLive
<1>4. job[j].attempt \in Nat
  BY LocalsAre
<1> QED
  BY <1>2, <1>3, <1>4, StatusRises, NightShiftAssumption DEF Most

(* One worker acts on one job: what is left to show.                       *)
LEMMA CountActs ==
    ASSUME TypeInv, CountInv, [Next]_vars, NEW w \in Worker, Others(w), NoNewcomer(w),
           Alive(w) \/ ~Alive(w)',
           \A j \in Job : job'[j].attempt = job[j].attempt \/ RowCounted(j)',
           Plain(loc[w])',
           \/ loc'[w].tries <= MaxAttempts
           \/ loc'[w].tries = loc[w].tries /\ loc'[w].job = loc[w].job
           \/ Counted(loc[w])'
    PROVE  CountInv'
<1>1. IsFiniteSet(Living)' /\ (Cardinality(Living) <= Processes)'
  <2>1. Living' \subseteq Living
    BY DEF Living, Alive, Others
  <2>2. IsFiniteSet(Living) /\ Cardinality(Living) \in Nat /\ Cardinality(Living) <= Processes
    BY FS_CardinalityType DEF CountInv
  <2>3. IsFiniteSet(Living') /\ Cardinality(Living') \in Nat /\ Cardinality(Living') <= Cardinality(Living)
    BY <2>1, <2>2, FS_Subset, FS_CardinalityType
  <2> QED
    BY <2>2, <2>3, NightShiftAssumption
<1>2. ASSUME NEW j \in Job
      PROVE  RowCounted(j)'
  BY RowsStayCounted
<1>3. ASSUME NEW v \in Worker \ {w}
      PROVE  Plain(loc[v])' /\ Counted(loc[v])'
  BY CountStays DEF Others
<1>4. Counted(loc[w])'
  <2> DEFINE l == loc'[w]
             j == loc[w].job
  <2>1. l.tries \in Nat /\ loc[w].tries \in Nat /\ MaxAttempts \in Nat
    BY LocalsAre, WorkersStep, NightShiftAssumption DEF WorkersOK, Locals_
  <2>2. CASE l.tries <= MaxAttempts
    BY <2>1, <2>2 DEF Counted
  <2>3. CASE l.tries = loc[w].tries /\ l.job = loc[w].job /\ l.tries > MaxAttempts
    <3>1. job[j].status \in Past /\ l.tries + Cardinality(Retriers(j)) <= Most /\ Plain(loc[w])
      BY <2>3 DEF CountInv, Counted
    <3>2. j \in Job
      <4>1. loc[w].tries >= MaxAttempts
        BY <2>1, <2>3
      <4> QED
        BY <3>1, <4>1, PlacesWork, LocalsAre DEF Plain
    <3>3. PICK i \in Job : i = loc[w].job
      BY <3>2
    <3>4. /\ Cardinality(Retriers(i)') \in Nat /\ Cardinality(Retriers(i)) \in Nat
          /\ Cardinality(Retriers(i)') <= Cardinality(Retriers(i))
      BY <3>1, <3>3, RetriersLeave, RetriersLive
    <3>5. job'[i].status \in Past /\ l.tries + Cardinality(Retriers(i)') <= Most
      BY <2>1, <3>1, <3>3, <3>4, StatusRises, NightShiftAssumption DEF Most
    <3> QED
      BY <2>3, <3>3, <3>5 DEF Counted, Retriers
  <2> QED
    BY <2>1, <2>2, <2>3
<1> QED
  BY <1>1, <1>2, <1>3, <1>4 DEF CountInv

ArmedAt(at, path) ==
    \/ at \in Armed
    \/ at = "stopping" /\ path # "stop"
    \/ at \in {"reading", "swapping"} /\ path = "claim"

EngagedAt(at, path) ==
    \/ at \in Armed \cup {"asking", "noting", "reaching", "scheduling", "failing", "recording"}
    \/ at = "stopping" /\ path # "stop"
    \/ at \in {"reading", "swapping"} /\ path \in {"finish", "defer", "fail"}

CountsKept == \A j \in Job : job'[j].attempt = job[j].attempt

(* A worker goes on with its job.                                          *)
Tallies(w, at, path, goal, seen, tries) ==
    /\ at \in Working \ {"scheduling"}
    /\ tries \in {0, loc[w].tries}
    /\ ArmedAt(at, path) => ArmedAt(loc[w].at, loc[w].path)
    /\ EngagedAt(at, path) => EngagedAt(loc[w].at, loc[w].path) \/ job'[loc[w].job].status \in Begun
    /\ path = "fail" /\ at \in {"reading", "swapping"} => goal = "failed_safely"
    /\ path = "fail" /\ at = "swapping" =>
           seen \in Begun /\ (seen \in Past => job'[loc[w].job].status \in Past)
    /\ tries >= MaxAttempts => at \in Closing /\ (at \in {"reading", "swapping"} => path = "fail")
    /\ tries >= MaxAttempts /\ at = "recording" => job'[loc[w].job].status \in Past

LEMMA CountMoves ==
    ASSUME TypeInv, CountInv, [Next]_vars, NEW w \in Worker, loc[w].at \in Working, CountsKept,
           NEW at, NEW key, NEW path, NEW goal, NEW seen, NEW tries,
           Moves(w, at, key, path, goal, seen, tries), Tallies(w, at, path, goal, seen, tries)
    PROVE  CountInv'
<1> DEFINE l == loc[w]
           m == loc'[w]
<1>1. /\ Others(w) /\ m.at = at /\ m.path = path /\ m.goal = goal /\ m.seen = seen /\ m.tries = tries
      /\ m.job = l.job /\ m.phase = l.phase /\ m.todo = l.todo
  BY DEF Moves
<1>2. /\ l.job \in Job /\ l.tries \in Nat /\ MaxAttempts \in Nat \ {0} /\ \A i \in l.todo : i.job \in Job
  BY LocalsAre
<1>3. NoNewcomer(w)
  BY <1>1 DEF NoNewcomer, MayRetry, ArmedAt, Tallies
<1>4. Alive(w)
  BY Sorts, PlacesWork DEF Alive
<1>5. \A i \in Job : job[i].status \in Begun => job'[i].status \in Begun
  BY StatusRises
<1>6. Plain(l)
  BY DEF CountInv
<1>7. Engaged(m) => job'[l.job].status \in Begun
  <2>1. (EngagedAt(at, path) <=> Engaged(m)) /\ (EngagedAt(l.at, l.path) <=> Engaged(l))
    BY <1>1 DEF EngagedAt, Engaged
  <2> QED
    BY <1>2, <1>5, <1>6, <2>1 DEF Plain, Tallies
<1>8. at \notin {"unborn", "dead", "idle", "sweep"}
  BY Sorts, PlacesWork DEF Tallies
<1>9. Plain(loc[w])'
  <2>1. l.phase = "recovery" => \A i \in l.todo : job'[i.job].status \in Begun
    BY <1>2, <1>5, <1>6 DEF Plain
  <2> QED
    BY <1>1, <1>2, <1>7, <1>8, <2>1 DEF Plain, Closing, Engaged, Tallies
<1>10. m.tries <= MaxAttempts \/ (m.tries = l.tries /\ m.job = l.job)
  BY <1>1, <1>2 DEF Tallies
<1> QED
  BY <1>1, <1>3, <1>4, <1>9, <1>10, CountActs DEF CountsKept

(* A worker is done with its job.                                          *)
LEMMA CountRests ==
    ASSUME TypeInv, CountInv, [Next]_vars, NEW w \in Worker, loc[w].at \in Working, Rests(w),
           \A j \in Job : job'[j].attempt = job[j].attempt \/ RowCounted(j)'
    PROVE  CountInv'
<1> DEFINE l == loc[w]
           m == loc'[w]
           left == {i \in l.todo : i.job # l.job}
<1>1. /\ Others(w) /\ m.job = NoKey /\ m.tries = 0 /\ m.path = "none"
      /\ \/ m.at = "idle" /\ m.phase = "none" /\ m.todo = {}
         \/ m.at = "sweep" /\ m.phase = l.phase /\ m.todo = left
  BY DEF Rests, IsResting
<1>2. /\ l.job \in Job /\ MaxAttempts \in Nat \ {0} /\ NoKey \notin Job /\ \A i \in l.todo : i.job \in Job
  BY LocalsAre, NightShiftAssumption
<1>3. NoNewcomer(w)
  BY <1>1, <1>2 DEF NoNewcomer, MayRetry, Armed
<1>4. Alive(w)
  BY Sorts, PlacesWork DEF Alive
<1>5. \A i \in Job : job[i].status \in Begun => job'[i].status \in Begun
  BY StatusRises
<1>6. Plain(l)
  BY DEF CountInv
<1>7. Plain(loc[w])'
  <2>1. l.phase = "recovery" => \A i \in left : job'[i.job].status \in Begun
    BY <1>2, <1>5, <1>6 DEF Plain
  <2>2. ~Engaged(m)
    BY <1>1 DEF Engaged, Armed
  <2> QED
    BY <1>1, <1>2, <2>1, <2>2 DEF Plain, Engaged
<1> QED
  BY <1>1, <1>2, <1>3, <1>4, <1>7, CountActs

LEMMA CountSteps ==
    ASSUME TypeInv, CountInv, [Next]_vars, NEW w \in Worker, Engaged(loc[w]), CountsKept,
           NEW at \in Working \ {"scheduling", "reading", "swapping"},
           loc[w].at \notin Closing \/ at = "releasing",
           ArmedAt(at, loc[w].path) => ArmedAt(loc[w].at, loc[w].path),
           Steps(w, at)
    PROVE  CountInv'
<1>1. loc[w].at \in Working
  BY PlacesWork, Sorts DEF Engaged
<1>2. Plain(loc[w]) /\ loc[w].tries \in Nat /\ MaxAttempts \in Nat
  BY LocalsAre DEF CountInv
<1>3. EngagedAt(loc[w].at, loc[w].path)
  BY DEF Engaged, EngagedAt
<1>4. loc[w].tries >= MaxAttempts => at = "releasing"
  BY <1>2 DEF Plain
<1>5. "releasing" \in Closing
  BY DEF Closing
<1> QED
  BY <1>1, <1>3, <1>4, <1>5, CountMoves DEF Steps, Tallies

LEMMA CountStumbles ==
    ASSUME TypeInv, CountInv, [Next]_vars, NEW w \in Worker, Engaged(loc[w]), CountsKept, Stumbles(w)
    PROVE  CountInv'
<1>1. loc[w].at \in Working
  BY PlacesWork, Sorts DEF Engaged
<1>2. ~ArmedAt("failing", "fail") /\ "failing" \in Closing /\ "failing" \in Working
  BY PlacesWork DEF ArmedAt, Armed, Closing
<1>3. EngagedAt(loc[w].at, loc[w].path)
  BY DEF Engaged, EngagedAt
<1> QED
  BY <1>1, <1>2, <1>3, CountMoves DEF Stumbles, Tallies

LEMMA CountIdles ==
    ASSUME TypeInv, CountInv, UNCHANGED loc, CountsKept, [Next]_vars
    PROVE  CountInv'
<1>1. \A j \in Job : /\ job[j].status \in Begun => job'[j].status \in Begun
                     /\ job[j].status \in Past => job'[j].status \in Past
  BY StatusRises
<1>2. \A j : Retriers(j)' = Retriers(j)
  BY DEF Retriers
<1>3. Living' = Living
  BY DEF Living, Alive
<1>4. \A j \in Job : RowCounted(j)'
  BY <1>1, <1>2, LocalsAre DEF CountInv, RowCounted, CountsKept
<1>5. ASSUME NEW w \in Worker
      PROVE  Plain(loc[w])' /\ Counted(loc[w])'
  <2> DEFINE l == loc[w]
  <2>1. /\ Plain(l) /\ Counted(l) /\ l.tries \in Nat /\ MaxAttempts \in Nat
        /\ \A i \in l.todo : i.job \in Job
        /\ l.at \in Working => l.job \in Job
    BY LocalsAre DEF CountInv
  <2>2. (Engaged(l) => l.job \in Job) /\ (l.tries >= MaxAttempts => l.job \in Job)
           /\ (l.at \in Closing => l.job \in Job)
    BY <2>1, PlacesWork DEF Engaged, Plain, Closing
  <2>3. Plain(loc[w])'
    BY <1>1, <2>1, <2>2 DEF Plain, Engaged, Closing
  <2>4. Counted(loc[w])'
    BY <1>1, <1>2, <2>1, <2>2 DEF Counted
  <2> QED
    BY <2>3, <2>4
<1> QED
  BY <1>3, <1>4, <1>5 DEF CountInv

(* The steps of a job up to its first change of status.                    *)
LEMMA CountDispatching ==
    ASSUME TypeInv, CountInv, [Next]_vars, NEW w \in Worker,
           \/ Begin(w) \/ Create(w) \/ InsertDispatch(w) \/ Link(w) \/ StartDispatch(w)
           \/ RunDispatch(w) \/ DatabaseFails(w) \/ Judge(w) \/ AskApproval(w) \/ NoteApproval(w)
           \/ Inspect(w)
    PROVE  CountInv'
<1> DEFINE l == loc[w]
<1> USE PlacesWork
<1>1. UNCHANGED job => CountsKept
  BY DEF CountsKept
<1>2. ASSUME NEW at \in {"creating", "asking"}, NEW key, NEW path, l.at = "begin", CountsKept,
             Moves(w, at, key, path, l.goal, l.seen, l.tries)
      PROVE  CountInv'
  <2>1. ArmedAt(l.at, l.path) /\ EngagedAt(l.at, l.path) /\ l.at \in Working /\ at \in Working
    BY <1>2 DEF ArmedAt, EngagedAt, Armed
  <2>2. l.tries < MaxAttempts /\ l.tries \in Nat /\ MaxAttempts \in Nat
    BY <1>2, LocalsAre DEF CountInv, Plain, Closing
  <2>3. at \notin {"scheduling", "reading", "swapping", "recording"} /\ l.tries \in {0, l.tries}
           /\ ~(l.tries >= MaxAttempts)
    BY <2>2
  <2>4. Moves(w, at, key, path, l.goal, l.seen, l.tries)
    BY <1>2
  <2>5. CountsKept
    BY <1>2
  <2> HIDE DEF l
  <2> QED
    BY <2>1, <2>3, <2>4, <2>5, CountMoves DEF l, Tallies
<1>3. ASSUME l.at \in Armed \cup {"asking", "noting"}, CountsKept, NEW at,
             \/ at \in Armed /\ l.at \in Armed
             \/ at \in {"asking", "noting", "reaching"}
             \/ at \in {"failing", "releasing"}
             \/ at = "stopping" /\ l.at \in Armed,
             Steps(w, at)
      PROVE  CountInv'
  <2>1. Engaged(l) /\ l.at \notin Closing /\ at \in Working \ {"scheduling", "reading", "swapping"}
    BY <1>3 DEF Engaged, Armed, Closing
  <2>2. ArmedAt(at, l.path) => ArmedAt(l.at, l.path)
    BY <1>3 DEF ArmedAt, Armed
  <2> QED
    BY <1>3, <2>1, <2>2, CountSteps
<1>4. ASSUME l.at \in Armed, CountsKept, Fail(w)
      PROVE  CountInv'
  BY <1>4, FailStumbles, CountStumbles DEF Engaged
<1>5. CASE Begin(w)
  <2>1. l.at = "begin" /\ UNCHANGED job
    BY <1>5 DEF Begin
  <2> DEFINE key == <<l.job, Row(w).attempt>>
             link == Row(w).link
  <2>2. \/ Fail(w)
        \/ Goto(w, [At(w, "creating") EXCEPT !.key = key, !.path = "finish"])
        \/ Goto(w, [At(w, "creating") EXCEPT !.key = key, !.path = "defer"])
        \/ Goto(w, [At(w, "asking") EXCEPT !.key = link, !.path = "defer"])
    BY <1>5 DEF Begin
  <2>3. "creating" \in Place /\ "asking" \in Place /\ "begin" \in Armed
    BY Sorts DEF Armed
  <2> HIDE DEF key, link
  <2>4. \/ Fail(w)
        \/ Moves(w, "creating", key, "finish", l.goal, l.seen, l.tries)
        \/ Moves(w, "creating", key, "defer", l.goal, l.seen, l.tries)
        \/ Moves(w, "asking", link, "defer", l.goal, l.seen, l.tries)
    BY <2>2, <2>3, Edits
  <2> QED
    BY <1>1, <1>2, <1>4, <2>1, <2>3, <2>4
<1>6. CASE Create(w) \/ InsertDispatch(w) \/ StartDispatch(w) \/ RunDispatch(w) \/ DatabaseFails(w)
  <2>1. UNCHANGED job /\ l.at \in {"creating", "inserting", "starting", "dispatching"}
    BY <1>6 DEF Create, InsertDispatch, StartDispatch, RunDispatch, DatabaseFails
  <2>2. \/ UNCHANGED loc \/ Fail(w)
        \/ \E at \in {"inserting", "linking", "dispatching", "judging"} : Goto(w, At(w, at))
    BY <1>6 DEF Create, InsertDispatch, StartDispatch, RunDispatch, DatabaseFails
  <2>3. {"creating", "inserting", "starting", "linking", "dispatching", "judging"} \subseteq Armed
           /\ Armed \subseteq Place
    BY Sorts DEF Armed
  <2> QED
    BY <1>1, <1>3, <1>4, <2>1, <2>2, <2>3, Edits, CountIdles
<1>7. CASE Link(w) \/ NoteApproval(w)
  <2>1. l.at \in {"linking", "noting"} /\ l.at \in Working
    BY <1>7, Sorts DEF Link, NoteApproval
  <2>2. /\ \E at \in {"asking", "starting", "reaching"} : Goto(w, At(w, at)) /\ (at = "starting" => l.at = "linking")
        /\ SetRow(w, [Row(w) EXCEPT !.link = l.key]) \/ SetRow(w, [Row(w) EXCEPT !.asked = TRUE])
    BY <1>7 DEF Link, NoteApproval
  <2>3. CountsKept
    BY <2>1, <2>2, RowEdits DEF Sets, CountsKept, Row
  <2>4. "linking" \in Armed /\ "starting" \in Armed /\ {"asking", "starting", "reaching"} \subseteq Place
    BY Sorts DEF Armed
  <2> QED
    BY <1>3, <2>1, <2>2, <2>3, <2>4, Edits
<1>8. CASE Judge(w) \/ AskApproval(w) \/ Inspect(w)
  <2>1. l.at \in {"judging", "asking", "inspecting"} /\ UNCHANGED job
    BY <1>8 DEF Judge, AskApproval, Inspect
  <2>2. \E at \in {"reaching", "failing", "retrying", "noting", "releasing", "stopping"} :
           /\ Goto(w, At(w, at))
           /\ at \in {"retrying", "stopping"} => l.at \in {"judging", "inspecting"}
    BY <1>8 DEF Judge, AskApproval, Inspect, AfterResult, AfterInspection
  <2>3. /\ {"judging", "inspecting", "retrying"} \subseteq Armed
        /\ {"reaching", "failing", "retrying", "noting", "releasing", "stopping"} \subseteq Place
    BY Sorts DEF Armed
  <2> QED
    BY <1>1, <1>3, <2>1, <2>2, <2>3, Edits
<1> QED
  BY <1>5, <1>6, <1>7, <1>8

-----------------------------------------------------------------------------
(* Which errand a worker can be on where: what path, phase and goal say    *)
(* together.                                                               *)
Calling == {"begin", "creating", "inserting", "linking", "starting", "dispatching", "judging",
            "asking", "noting"}

Errand(path, goal) ==
    \/ path = "claim" /\ goal = "preparing"
    \/ path = "prohibit" /\ goal = "rejected"
    \/ path \in {"stop", "fail"} /\ goal = "failed_safely"
    \/ path \in {"finish", "defer"} /\ goal \in {"validating", "draft_saved"}
    \/ path = "defer" /\ goal = "awaiting_approval"

PathOK(l) ==
    /\ l.at \in {"unborn", "dead", "idle"} => l.phase = "none" /\ l.todo = {}
    /\ l.at = "sweep" => l.phase \in {"claims", "recovery"} /\ l.tries = 0 /\ l.path = "none"
    /\ l.at \notin {"unborn", "dead", "idle"} => l.phase # "none"
    /\ l.phase = "owner" <=> l.path = "stop"
    /\ l.at \in Calling => l.phase = "claims"
    /\ l.at \in {"creating", "inserting", "linking", "reaching"} => l.path \in {"finish", "defer"}
    /\ l.at \in {"starting", "dispatching", "judging", "inspecting"} => l.path = "finish"
    /\ l.at \in {"asking", "noting"} => l.path = "defer"
    /\ l.at = "stopping" => l.path \in {"finish", "stop"}
    /\ l.at \in {"scheduling", "recording"} => l.path = "fail"
    /\ l.at \in {"retrying", "failing"} => l.path # "stop"
    /\ l.at \in {"reading", "swapping"} => Errand(l.path, l.goal)
    /\ l.at \in {"reading", "swapping"} /\ l.path = "claim" => l.phase = "claims"

PathInv == \A w \in Worker : PathOK(loc[w])

LEMMA PathActs ==
    ASSUME PathInv, NEW w \in Worker, Others(w), PathOK(loc[w])'
    PROVE  PathInv'
BY DEF PathInv, Others

LEMMA PathRests ==
    ASSUME TypeInv, PathInv, NEW w \in Worker, loc[w].at \in Working, Rests(w)
    PROVE  PathInv'
<1>1. PathOK(loc[w]) /\ loc[w].phase \in {"none", "claims", "recovery", "owner"}
         /\ loc[w].at \notin {"unborn", "dead", "idle", "sweep"}
  BY LocalsAre, PlacesWork, Sorts DEF PathInv
<1>2. PathOK(loc[w])'
  BY <1>1 DEF Rests, IsResting, PathOK, Calling
<1>3. Others(w)
  BY DEF Rests
<1> QED
  BY <1>2, <1>3, PathActs

LEMMA PathStumbles ==
    ASSUME TypeInv, PathInv, NEW w \in Worker, loc[w].at \in Working, loc[w].path # "stop", Stumbles(w)
    PROVE  PathInv'
<1>1. PathOK(loc[w]) /\ loc[w].at \notin {"unborn", "dead", "idle", "sweep"}
  BY PlacesWork, Sorts DEF PathInv
<1>2. PathOK(loc[w])'
  BY <1>1 DEF Stumbles, Moves, PathOK, Calling
<1> QED
  BY <1>2, PathActs DEF Stumbles, Moves

Fits(w, at, path, goal) ==
    /\ at \in Working
    /\ path = "stop" <=> loc[w].path = "stop"
    /\ at \in Calling => loc[w].phase = "claims"
    /\ at \in {"creating", "inserting", "linking", "reaching"} => path \in {"finish", "defer"}
    /\ at \in {"starting", "dispatching", "judging", "inspecting"} => path = "finish"
    /\ at \in {"asking", "noting"} => path = "defer"
    /\ at = "stopping" => path \in {"finish", "stop"}
    /\ at \in {"scheduling", "recording"} => path = "fail"
    /\ at \in {"retrying", "failing"} => path # "stop"
    /\ at \in {"reading", "swapping"} => Errand(path, goal)
    /\ at \in {"reading", "swapping"} /\ path = "claim" => loc[w].phase = "claims"

LEMMA PathMoves ==
    ASSUME TypeInv, PathInv, NEW w \in Worker, loc[w].at \in Working,
           NEW at, NEW key, NEW path, NEW goal, NEW seen, NEW tries,
           Moves(w, at, key, path, goal, seen, tries), Fits(w, at, path, goal)
    PROVE  PathInv'
<1>1. PathOK(loc[w]) /\ loc[w].at \notin {"unborn", "dead", "idle", "sweep"}
         /\ at \notin {"unborn", "dead", "idle", "sweep"}
  BY PlacesWork, Sorts DEF PathInv, Fits
<1> DEFINE m == loc'[w]
<1>2. /\ Others(w) /\ m.at = at /\ m.path = path /\ m.goal = goal
      /\ m.phase = loc[w].phase /\ m.todo = loc[w].todo
  BY DEF Moves
<1>3. PathOK(loc[w])'
  BY <1>1, <1>2 DEF PathOK, Fits
<1> QED
  BY <1>2, <1>3, PathActs

LEMMA PathMovesOn ==
    ASSUME TypeInv, PathInv, NEW w \in Worker, loc[w].at \in {"reading", "swapping"},
           Moved(w) \/ Refused(w)
    PROVE  PathInv'
<1> DEFINE l == loc[w]
<1>1. /\ PathOK(l) /\ Errand(l.path, l.goal) /\ l.at \in Working
      /\ {"begin", "recording", "releasing", "reading"} \subseteq Working
  BY Sorts DEF PathInv, PathOK
<1>2. l.path = "claim" => l.phase = "claims"
  BY <1>1 DEF PathOK
<1>3. CASE Rests(w)
  BY <1>1, <1>3, PathRests
<1>4. CASE Stumbles(w) /\ l.path # "stop"
  BY <1>1, <1>4, PathStumbles
<1>5. CASE \/ l.path = "claim" /\ Steps(w, "begin")
           \/ l.path = "fail" /\ Steps(w, "recording")
           \/ Steps(w, "releasing")
  <2>1. /\ l.path = "claim" => Fits(w, "begin", l.path, l.goal)
        /\ l.path = "fail" => Fits(w, "recording", l.path, l.goal)
        /\ Fits(w, "releasing", l.path, l.goal)
    BY <1>1, <1>2 DEF Fits, Calling
  <2> QED
    BY <1>1, <1>5, <2>1, PathMoves DEF Steps
<1>6. CASE \/ l.goal = "validating" /\ Moves(w, "reading", l.key, l.path, "draft_saved", l.seen, l.tries)
           \/ l.path = "defer" /\ Moves(w, "reading", l.key, l.path, "awaiting_approval", l.seen, l.tries)
  <2>1. l.goal = "validating" => l.path \in {"finish", "defer"}
    BY <1>1 DEF Errand
  <2>2. /\ l.goal = "validating" => Fits(w, "reading", l.path, "draft_saved")
        /\ l.path = "defer" => Fits(w, "reading", l.path, "awaiting_approval")
    BY <1>1, <1>2, <2>1 DEF Errand, Fits, Calling
  <2> QED
    BY <1>1, <1>6, <2>2, PathMoves
<1>7. Moved(w) => \/ Rests(w)
                  \/ l.path = "claim" /\ Steps(w, "begin")
                  \/ l.path = "fail" /\ Steps(w, "recording")
                  \/ l.goal = "validating" /\ Moves(w, "reading", l.key, l.path, "draft_saved", l.seen, l.tries)
                  \/ l.path = "defer" /\ Moves(w, "reading", l.key, l.path, "awaiting_approval", l.seen, l.tries)
                  \/ Steps(w, "releasing")
  BY MovedEffect
<1>8. Refused(w) => \/ Rests(w)
                    \/ Steps(w, "releasing")
                    \/ l.path = "fail" /\ Steps(w, "recording")
                    \/ Stumbles(w) /\ l.path # "stop"
  BY RefusedEffect
<1> QED
  BY <1>3, <1>4, <1>5, <1>6, <1>7, <1>8

LEMMA PathBody ==
    ASSUME TypeInv, PathInv, [Next]_vars, NEW w \in Worker, Body(w) \/ DatabaseFails(w)
    PROVE  PathInv'
<1> DEFINE l == loc[w]
<1>0. PathOK(l) /\ Working \subseteq Place
  BY Sorts DEF PathInv
<1>1. ASSUME l.at \in Working, l.path # "stop", Fail(w)
      PROVE  PathInv'
  BY <1>1, FailStumbles, PathStumbles
<1>2. ASSUME l.at \in Working, Done(w)
      PROVE  PathInv'
  BY <1>2, DoneRests, PathRests
<1>3. CASE UNCHANGED loc
  BY <1>3 DEF PathInv, PathOK
<1>4. ASSUME l.at \in Working, NEW at, Fits(w, at, l.path, l.goal), Goto(w, At(w, at))
      PROVE  PathInv'
  <2>1. at \in Place
    BY <1>0, <1>4 DEF Fits
  <2>2. Moves(w, at, l.key, l.path, l.goal, l.seen, l.tries)
    BY <1>4, <2>1, Edits DEF Steps
  <2> QED
    BY <1>4, <2>2, PathMoves
<1>5. CASE Begin(w)
  <2> DEFINE key == <<l.job, Row(w).attempt>>
             link == Row(w).link
  <2>1. l.at \in Working /\ l.phase = "claims" /\ l.path # "stop"
    BY <1>0, <1>5, Sorts DEF Begin, PathOK, Calling
  <2>2. \/ Fail(w)
        \/ Goto(w, [At(w, "creating") EXCEPT !.key = key, !.path = "finish"])
        \/ Goto(w, [At(w, "creating") EXCEPT !.key = key, !.path = "defer"])
        \/ Goto(w, [At(w, "asking") EXCEPT !.key = link, !.path = "defer"])
    BY <1>5 DEF Begin
  <2>3. "creating" \in Place /\ "asking" \in Place
    BY <1>0, Sorts
  <2> HIDE DEF key, link
  <2>4. \/ Fail(w)
        \/ Moves(w, "creating", key, "finish", l.goal, l.seen, l.tries)
        \/ Moves(w, "creating", key, "defer", l.goal, l.seen, l.tries)
        \/ Moves(w, "asking", link, "defer", l.goal, l.seen, l.tries)
    BY <2>2, <2>3, Edits
  <2>5. /\ Fits(w, "creating", "finish", l.goal) /\ Fits(w, "creating", "defer", l.goal)
        /\ Fits(w, "asking", "defer", l.goal)
    BY <2>1, Sorts DEF Fits
  <2> QED
    BY <1>1, <2>1, <2>4, <2>5, PathMoves
<1>6. CASE Create(w) \/ InsertDispatch(w) \/ Link(w) \/ StartDispatch(w) \/ RunDispatch(w)
              \/ DatabaseFails(w)
  <2>1. l.at \in {"creating", "inserting", "linking", "starting", "dispatching"} /\ l.at \in Working
    BY <1>6, Sorts DEF Create, InsertDispatch, Link, StartDispatch, RunDispatch, DatabaseFails
  <2>2. /\ l.phase = "claims" /\ l.path \in {"finish", "defer"}
        /\ l.at \in {"starting", "dispatching"} => l.path = "finish"
    BY <1>0, <2>1 DEF PathOK, Calling
  <2>3. \/ UNCHANGED loc \/ Fail(w)
        \/ Goto(w, At(w, "inserting")) \/ Goto(w, At(w, "linking"))
        \/ l.path = "defer" /\ Goto(w, At(w, "asking"))
        \/ l.at = "linking" /\ l.path # "defer" /\ Goto(w, At(w, "starting"))
        \/ l.at = "starting" /\ Goto(w, At(w, "dispatching"))
        \/ l.at = "dispatching" /\ Goto(w, At(w, "judging"))
    BY <1>6 DEF Create, InsertDispatch, Link, StartDispatch, RunDispatch, DatabaseFails
  <2>4. /\ Fits(w, "inserting", l.path, l.goal) /\ Fits(w, "linking", l.path, l.goal)
        /\ l.path = "defer" => Fits(w, "asking", l.path, l.goal)
        /\ l.path = "finish" => /\ Fits(w, "starting", l.path, l.goal)
                                /\ Fits(w, "dispatching", l.path, l.goal)
                                /\ Fits(w, "judging", l.path, l.goal)
    BY <2>2, Sorts DEF Fits
  <2> QED
    BY <1>1, <1>3, <1>4, <2>1, <2>2, <2>3, <2>4
<1>7. CASE Judge(w) \/ AskApproval(w) \/ NoteApproval(w) \/ Inspect(w)
  <2>1. l.at \in {"judging", "asking", "noting", "inspecting"} /\ l.at \in Working
    BY <1>7, Sorts DEF Judge, AskApproval, NoteApproval, Inspect
  <2>2. /\ l.path \in {"finish", "defer"}
        /\ l.at \in {"judging", "inspecting"} => l.path = "finish"
        /\ l.at = "asking" => l.path = "defer" /\ l.phase = "claims"
    BY <1>0, <2>1 DEF PathOK, Calling
  <2>3. \/ Goto(w, At(w, "reaching"))
        \/ Goto(w, At(w, "failing")) \/ Goto(w, At(w, "retrying")) \/ Goto(w, At(w, "releasing"))
        \/ l.at = "asking" /\ Goto(w, At(w, "noting"))
        \/ l.at = "inspecting" /\ Goto(w, At(w, "stopping"))
    BY <1>7 DEF Judge, AskApproval, NoteApproval, Inspect, AfterResult, AfterInspection
  <2>4. /\ Fits(w, "reaching", l.path, l.goal) /\ Fits(w, "failing", l.path, l.goal)
        /\ Fits(w, "retrying", l.path, l.goal) /\ Fits(w, "releasing", l.path, l.goal)
        /\ l.at = "asking" => Fits(w, "noting", l.path, l.goal)
        /\ l.at = "inspecting" => Fits(w, "stopping", l.path, l.goal)
    BY <2>2, Sorts DEF Fits, Calling
  <2> QED
    BY <1>4, <2>1, <2>3, <2>4
<1>8. CASE Reach(w)
  <2>1. l.at = "reaching" /\ l.at \in Working /\ l.path \in {"finish", "defer"}
    BY <1>0, <1>8, Sorts DEF Reach, PathOK
  <2>2. \/ Goto(w, [At(w, "reading") EXCEPT !.goal = "validating"])
        \/ Goto(w, [At(w, "reading") EXCEPT !.goal = "draft_saved"])
        \/ l.path = "defer" /\ Goto(w, [At(w, "reading") EXCEPT !.goal = "awaiting_approval"])
        \/ Goto(w, At(w, "releasing"))
    BY <1>8 DEF Reach
  <2>3. {"reading", "releasing"} \subseteq Place
    BY <1>0, Sorts
  <2>4. \/ Moves(w, "reading", l.key, l.path, "validating", l.seen, l.tries)
        \/ Moves(w, "reading", l.key, l.path, "draft_saved", l.seen, l.tries)
        \/ l.path = "defer" /\ Moves(w, "reading", l.key, l.path, "awaiting_approval", l.seen, l.tries)
        \/ Goto(w, At(w, "releasing"))
    BY <2>2, <2>3, Edits
  <2>5. /\ Fits(w, "reading", l.path, "validating") /\ Fits(w, "reading", l.path, "draft_saved")
        /\ l.path = "defer" => Fits(w, "reading", l.path, "awaiting_approval")
        /\ Fits(w, "releasing", l.path, l.goal)
    BY <2>1, Sorts DEF Errand, Fits, Calling
  <2> QED
    BY <1>4, <2>1, <2>4, <2>5, PathMoves
<1>9. CASE ReadJob(w) \/ SwapJob(w)
  <2>1. l.at \in {"reading", "swapping"} /\ l.at \in Working
    BY <1>9, Sorts DEF ReadJob, SwapJob
  <2>2. \/ Moved(w) \/ Refused(w)
        \/ \E s : Goto(w, [At(w, "swapping") EXCEPT !.seen = s])
    BY <1>9 DEF ReadJob, SwapJob
  <2>3. ASSUME NEW s, Goto(w, [At(w, "swapping") EXCEPT !.seen = s])
        PROVE  PathInv'
    <3>1. Moves(w, "swapping", l.key, l.path, l.goal, s, l.tries)
      BY <1>0, <2>3, Edits, Sorts
    <3>2. Fits(w, "swapping", l.path, l.goal)
      BY <1>0, <2>1, Sorts DEF PathOK, Calling, Fits
    <3> QED
      BY <2>1, <3>1, <3>2, PathMoves
  <2> QED
    BY <2>1, <2>2, <2>3, PathMovesOn
<1>10. CASE ScheduleRetry(w) \/ Release(w)
  BY <1>2, <1>10, Sorts DEF ScheduleRetry, Release
<1>11. CASE RecordFinal(w)
  <2>1. l.at = "recording" /\ l.path = "fail" /\ l.at \in Working /\ Goto(w, At(w, "releasing"))
    BY <1>0, <1>11, Sorts DEF RecordFinal, PathOK
  <2>2. Fits(w, "releasing", l.path, l.goal)
    BY <2>1, Sorts DEF Fits, Calling
  <2> QED
    BY <1>4, <2>1, <2>2
<1>12. CASE Retry(w) \/ ReadForFailure(w)
  <2>1. l.at \in {"retrying", "failing"} /\ l.at \in Working /\ l.path # "stop"
    BY <1>0, <1>12, Sorts DEF Retry, ReadForFailure, PathOK
  <2>2. PICK n : \/ Goto(w, [At(w, "scheduling") EXCEPT !.path = "fail", !.tries = n])
                 \/ Goto(w, [At(w, "failing") EXCEPT !.path = "fail", !.tries = n])
                 \/ Goto(w, [At(w, "recording") EXCEPT !.path = "fail", !.tries = n])
                 \/ Goto(w, [At(w, "reading") EXCEPT !.path = "fail", !.tries = n,
                                                     !.goal = "failed_safely"])
    BY <1>12 DEF Retry, ReadForFailure
  <2>3. {"scheduling", "failing", "recording", "reading"} \subseteq Place
    BY <1>0, Sorts
  <2>4. \/ Moves(w, "scheduling", l.key, "fail", l.goal, l.seen, n)
        \/ Moves(w, "failing", l.key, "fail", l.goal, l.seen, n)
        \/ Moves(w, "recording", l.key, "fail", l.goal, l.seen, n)
        \/ Moves(w, "reading", l.key, "fail", "failed_safely", l.seen, n)
    BY <2>2, <2>3, Edits
  <2>5. /\ Fits(w, "scheduling", "fail", l.goal) /\ Fits(w, "failing", "fail", l.goal)
        /\ Fits(w, "recording", "fail", l.goal) /\ Fits(w, "reading", "fail", "failed_safely")
    BY <2>1, Sorts DEF Fits, Calling, Errand
  <2> QED
    BY <2>1, <2>4, <2>5, PathMoves
<1>13. CASE StopDispatch(w)
  <2>1. l.at = "stopping" /\ l.at \in Working /\ l.path \in {"finish", "stop"}
    BY <1>0, <1>13, Sorts DEF StopDispatch, PathOK
  <2>2. \/ l.path = "stop" /\ Goto(w, [At(w, "reading") EXCEPT !.goal = "failed_safely"])
        \/ l.path # "stop" /\ Goto(w, At(w, "retrying"))
    BY <1>13 DEF StopDispatch
  <2>3. "reading" \in Place
    BY <1>0, Sorts
  <2>4. \/ l.path = "stop" /\ Moves(w, "reading", l.key, l.path, "failed_safely", l.seen, l.tries)
        \/ l.path # "stop" /\ Goto(w, At(w, "retrying"))
    BY <2>2, <2>3, Edits
  <2>5. /\ l.path = "stop" => Fits(w, "reading", l.path, "failed_safely")
        /\ l.path # "stop" => Fits(w, "retrying", l.path, l.goal)
    BY <2>1, Sorts DEF Fits, Calling, Errand
  <2> QED
    BY <1>4, <2>1, <2>4, <2>5, PathMoves
<1> QED
  BY <1>5, <1>6, <1>7, <1>8, <1>9, <1>10, <1>11, <1>12, <1>13 DEF Body

LEMMA PathStep ==
    ASSUME TypeInv, PathInv, [Next]_vars
    PROVE  PathInv'
<1>1. CASE UNCHANGED loc
  BY <1>1 DEF PathInv, PathOK
<1>2. ASSUME NEW w \in Worker, NEW at, NEW phase, NEW todo, Goto(w, Resting(at, phase, todo)),
             \/ at \in {"idle", "dead"} /\ phase = "none" /\ todo = {}
             \/ at = "sweep" /\ phase \in {"claims", "recovery"}
      PROVE  PathInv'
  <2>1. Others(w) /\ IsResting(loc'[w], at, phase, todo)
    BY <1>2, RestsThere
  <2>2. PathOK(loc[w])'
    BY <1>2, <2>1 DEF IsResting, PathOK, Calling
  <2> QED
    BY <2>1, <2>2, PathActs
<1>3. ASSUME NEW w \in Worker, loc[w].at = "sweep", Skips(w)
      PROVE  PathInv'
  <2>1. PathOK(loc[w])'
    BY <1>3 DEF Skips, PathOK, Calling, PathInv
  <2> QED
    BY <1>3, <2>1, PathActs DEF Skips
<1>4. ASSUME NEW w \in Worker, loc[w].at = "sweep", NEW at, NEW j, NEW key, NEW path, NEW goal,
             Takes(w, at, j, key, path, goal),
             \/ /\ loc[w].phase = "claims"
                /\ \/ at = "reading" /\ path = "claim" /\ goal = "preparing"
                   \/ at = "reading" /\ path = "prohibit" /\ goal = "rejected"
                   \/ at = "begin" /\ path = loc[w].path
             \/ /\ loc[w].phase = "recovery"
                /\ \/ at = "retrying" /\ path = loc[w].path
                   \/ at = "inspecting" /\ path = "finish"
      PROVE  PathInv'
  <2>1. PathOK(loc[w])
    BY DEF PathInv
  <2>2. PathOK(loc[w])'
    BY <1>4, <2>1 DEF Takes, PathOK, Calling, Errand
  <2> QED
    BY <1>4, <2>2, PathActs DEF Takes
<1>5. ASSUME NEW w \in Worker, Loop(w)
      PROVE  PathInv'
  <2>1. CASE Scan(w) \/ ListStale(w) \/ EndTick(w)
    BY <1>2, <2>1 DEF Scan, ListStale, EndTick
  <2>2. ASSUME NEW j \in Job, RejectProhibited(w, j)
        PROVE  PathInv'
    <3>1. /\ loc[w].at = "sweep" /\ loc[w].phase = "claims"
          /\ Goto(w, [At(w, "reading") EXCEPT !.job = j, !.path = "prohibit", !.goal = "rejected"])
      BY <2>2 DEF RejectProhibited
    <3>2. Takes(w, "reading", j, loc[w].key, "prohibit", "rejected")
      BY <3>1, ListEdits, Sorts
    <3> QED
      BY <1>4, <3>1, <3>2
  <2>3. ASSUME NEW j \in Job, ClaimJob(w, j)
        PROVE  PathInv'
    BY <1>3, <1>4, <2>3, ClaimEffect
  <2>4. ASSUME NEW i \in loc[w].todo, Recover(w, i)
        PROVE  PathInv'
    BY <1>3, <1>4, <2>4, RecoverEffect
  <2> QED
    BY <1>5, <2>1, <2>2, <2>3, <2>4 DEF Loop
<1>6. ASSUME NEW w \in Worker, Launch(w) \/ Die(w)
      PROVE  PathInv'
  BY <1>2, <1>6 DEF Launch, Die
<1>7. ASSUME NEW w \in Worker, NEW j \in Job, CancelJob(w, j)
      PROVE  PathInv'
  <2>1. PathOK(loc[w])'
    BY <1>7, CommandEffect DEF PathOK, Calling, Errand
  <2>2. Others(w)
    BY <1>7, CommandEffect
  <2> QED
    BY <2>1, <2>2, PathActs
<1> QED
  BY <1>1, <1>5, <1>6, <1>7, PathBody
  DEF Next, CancelDispatch, Enqueue, ExpireLease, PassBackoff, Deploy, ChangeMode, vars

LEMMA PathInit == Init => PathInv
BY DEF Init, Resting, PathInv, PathOK, Calling

-----------------------------------------------------------------------------
(* The steps of a job's transition: its reads and swaps.                   *)
LEMMA CountTransits ==
    ASSUME TypeInv, PathInv, CountInv, [Next]_vars, NEW w \in Worker,
           Reach(w) \/ ReadJob(w) \/ SwapJob(w)
    PROVE  CountInv'
<1> DEFINE l == loc[w]
           j == l.job
<1>0. /\ PathOK(l) /\ Plain(l) /\ l.tries \in Nat /\ MaxAttempts \in Nat \ {0}
      /\ Working \subseteq Place
  BY LocalsAre, Sorts DEF PathInv, CountInv
<1>1. l.at \in {"reaching", "reading", "swapping"} /\ l.at \in Working /\ j \in Job
  BY LocalsAre, Sorts DEF Reach, ReadJob, SwapJob
<1>2. PICK i \in Job : i = loc[w].job
  BY <1>1
<1>3. CountsKept
  <2>1. \/ UNCHANGED job
        \/ SetRow(w, [Row(w) EXCEPT !.status = l.goal])
    BY DEF Reach, ReadJob, SwapJob
  <2> QED
    BY <1>1, <2>1, RowEdits DEF Sets, CountsKept, Row
<1>4. \A n \in Job : /\ job[n].status \in Begun => job'[n].status \in Begun
                     /\ job[n].status \in Past => job'[n].status \in Past
  BY StatusRises
<1>5. CASE Rests(w)
  BY <1>1, <1>3, <1>5, CountRests DEF CountsKept
<1>6. CASE Stumbles(w) /\ Engaged(l)
  BY <1>3, <1>6, CountStumbles
<1>7. CASE Reach(w)
  <2>1. l.at = "reaching" /\ EngagedAt(l.at, l.path) /\ l.path # "fail" /\ l.path # "claim"
    BY <1>0, <1>7 DEF Reach, PathOK, EngagedAt
  <2>2. \/ \E g : Goto(w, [At(w, "reading") EXCEPT !.goal = g])
        \/ Goto(w, At(w, "releasing"))
    BY <1>7 DEF Reach
  <2>3. ~(l.tries >= MaxAttempts)
    BY <1>0, <2>1 DEF Plain, Closing
  <2>4. \/ \E g : Moves(w, "reading", l.key, l.path, g, l.seen, l.tries)
        \/ Moves(w, "releasing", l.key, l.path, l.goal, l.seen, l.tries)
    BY <1>0, <2>2, Edits, Sorts DEF Steps
  <2>5. ~ArmedAt("reading", l.path) /\ ~ArmedAt("releasing", l.path) /\ {"reading", "releasing"} \subseteq Working
    BY <2>1, Sorts DEF ArmedAt, Armed
  <2> QED
    BY <1>1, <1>3, <2>1, <2>3, <2>4, <2>5, CountMoves DEF Tallies
<1>8. ASSUME l.at \in {"reading", "swapping"}, NEW at, Steps(w, at),
             \/ at = "releasing"
             \/ at = "recording" /\ l.path = "fail" /\ job'[j].status \in Past
             \/ at = "begin" /\ l.path = "claim" /\ job'[j].status \in Begun
      PROVE  CountInv'
  <2>1. Moves(w, at, l.key, l.path, l.goal, l.seen, l.tries)
    BY <1>8 DEF Steps
  <2>2. /\ at \in Working /\ at \notin {"reading", "swapping", "scheduling"}
        /\ {"releasing", "recording"} \subseteq Closing
    BY <1>8, Sorts DEF Closing
  <2>3. /\ ArmedAt(at, l.path) => ArmedAt(l.at, l.path)
        /\ EngagedAt(at, l.path) => EngagedAt(l.at, l.path) \/ job'[j].status \in Begun
    BY <1>8 DEF ArmedAt, Armed, EngagedAt
  <2>4. l.tries >= MaxAttempts => l.path = "fail"
    BY <1>0, <1>8 DEF Plain
  <2>5. l.tries >= MaxAttempts => at \in Closing
    BY <1>8, <2>2, <2>4
  <2>6. l.tries >= MaxAttempts /\ at = "recording" => job'[j].status \in Past
    BY <1>8
  <2> QED
    BY <1>1, <1>3, <2>1, <2>2, <2>3, <2>5, <2>6, CountMoves DEF Tallies
<1>9. ASSUME l.at \in {"reading", "swapping"}, NEW g, l.path \in {"finish", "defer"},
             Moves(w, "reading", l.key, l.path, g, l.seen, l.tries)
      PROVE  CountInv'
  <2>1. "reading" \in Working /\ ~ArmedAt("reading", l.path) /\ EngagedAt(l.at, l.path)
    BY <1>9, Sorts DEF ArmedAt, Armed, EngagedAt
  <2>2. ~(l.tries >= MaxAttempts)
    BY <1>0, <1>9 DEF Plain
  <2> QED
    BY <1>1, <1>3, <1>9, <2>1, <2>2, CountMoves DEF Tallies
<1>10. ASSUME l.at \in {"reading", "swapping"}, Moved(w), job'[j].status = l.goal
       PROVE  CountInv'
  <2>1. Errand(l.path, l.goal) /\ "failed_safely" \in Past /\ "preparing" \in Begun
    BY <1>0, <1>10 DEF PathOK, Begun, Past, JobStatus
  <2>2. /\ l.path = "claim" => job'[j].status \in Begun
        /\ l.path = "fail" => job'[j].status \in Past
        /\ l.goal = "validating" => l.path \in {"finish", "defer"}
    BY <1>10, <2>1 DEF Errand
  <2>3. \/ l.path = "claim" /\ Steps(w, "begin")
        \/ Rests(w)
        \/ l.path = "fail" /\ Steps(w, "recording")
        \/ /\ l.goal = "validating"
           /\ Moves(w, "reading", l.key, l.path, "draft_saved", l.seen, l.tries)
        \/ /\ l.path = "defer"
           /\ Moves(w, "reading", l.key, l.path, "awaiting_approval", l.seen, l.tries)
        \/ Steps(w, "releasing")
    BY <1>10, MovedEffect
  <2> HIDE DEF l, j
  <2> QED
    BY <1>5, <1>8, <1>9, <1>10, <2>2, <2>3
<1>11. ASSUME l.at \in {"reading", "swapping"}, Refused(w), l.path = "fail" => job'[j].status \in Past
       PROVE  CountInv'
  <2>1. Errand(l.path, l.goal)
    BY <1>0, <1>11 DEF PathOK
  <2>2. l.path \notin {"claim", "prohibit", "stop", "fail"} => Engaged(l)
    BY <1>11, <2>1 DEF Errand, Engaged
  <2>3. \/ Steps(w, "releasing")
        \/ Rests(w)
        \/ l.path = "fail" /\ Steps(w, "recording")
        \/ Engaged(l) /\ Stumbles(w)
    BY <1>11, <2>2, RefusedEffect
  <2> HIDE DEF l, j
  <2> QED
    BY <1>5, <1>6, <1>8, <1>11, <2>3
<1>12. l.at \in {"reading", "swapping"} /\ l.path = "fail" => l.goal = "failed_safely" /\ job[j].status \in Begun
  BY <1>0 DEF Plain, Engaged
<1>13. CASE ReadJob(w)
  <2> DEFINE s == Row(w).status
  <2>1. l.at = "reading" /\ UNCHANGED job /\ s = job[j].status
    BY <1>13 DEF ReadJob, Row
  <2>2. CASE l.goal \in JobTransitions[s] /\ Goto(w, [At(w, "swapping") EXCEPT !.seen = s])
    <3>1. Moves(w, "swapping", l.key, l.path, l.goal, s, l.tries)
      BY <1>0, <2>2, Edits, Sorts
    <3>2. /\ "swapping" \in Working /\ "swapping" \in Closing
          /\ ArmedAt("swapping", l.path) => ArmedAt(l.at, l.path)
          /\ EngagedAt("swapping", l.path) => EngagedAt(l.at, l.path)
          /\ l.path = "fail" => s \in Begun /\ (s \in Past => job'[j].status \in Past)
          /\ l.tries >= MaxAttempts => l.path = "fail"
      BY <1>0, <1>12, <2>1, Sorts DEF ArmedAt, Armed, EngagedAt, Closing, Plain
    <3> HIDE DEF s
    <3> QED
      BY <1>1, <1>3, <1>12, <2>1, <3>1, <3>2, CountMoves DEF Tallies
  <2>3. CASE l.goal \notin JobTransitions[s] /\ Refused(w)
    <3>1. l.path = "fail" => job'[j].status \in Past
      <4>1. s \in JobStatus
        BY <1>1, <2>1, LocalsAre
      <4>2. \A r \in JobStatus : r \in Begun /\ "failed_safely" \notin JobTransitions[r] => r \in Past
        BY DEF JobTransitions, JobStatus, Begun, Past, Terminal
      <4> QED
        BY <1>12, <2>1, <2>3, <4>1, <4>2
    <3> QED
      BY <1>11, <2>1, <2>3, <3>1
  <2> QED
    BY <1>13, <2>2, <2>3 DEF ReadJob
<1>14. CASE SwapJob(w)
  <2>1. l.at = "swapping"
    BY <1>14 DEF SwapJob
  <2>2. CASE SetRow(w, [Row(w) EXCEPT !.status = l.goal]) /\ Moved(w)
    <3>1. job'[j].status = l.goal
      BY <1>1, <2>2, RowEdits DEF Sets
    <3> QED
      BY <1>10, <2>1, <2>2, <3>1
  <2>3. CASE Row(w).status # l.seen /\ Refused(w) /\ UNCHANGED job
    <3>1. l.path = "fail" => job'[j].status \in Past
      <4>1. l.path = "fail" => l.seen \in Begun /\ (l.seen \in Past => job[j].status \in Past)
        BY <1>0, <2>1 DEF Plain
      <4>2. job[j].status \in Begun /\ job[j].status # l.seen /\ l.seen \in Begun
               => job[j].status \in Past \/ l.seen \in Past
        BY DEF Begun, Past
      <4> QED
        BY <1>12, <2>1, <2>3, <4>1, <4>2 DEF Row
    <3> QED
      BY <1>11, <2>1, <2>3, <3>1
  <2> QED
    BY <1>14, <2>2, <2>3 DEF SwapJob
<1> QED
  BY <1>7, <1>13, <1>14

(* A worker counts an attempt.                                             *)
LEMMA CountRetries ==
    ASSUME TypeInv, CountInv, [Next]_vars, NEW w \in Worker, Retry(w)
    PROVE  CountInv'
<1> DEFINE l == loc[w]
           m == loc'[w]
           j == l.job
           n == Row(w).attempt + 1
           at == IF n < MaxAttempts THEN "scheduling" ELSE "failing"
<1>1. /\ l.at = "retrying" /\ l.at \in Working /\ UNCHANGED job /\ j \in Job
      /\ Goto(w, [At(w, at) EXCEPT !.path = "fail", !.tries = n])
  BY LocalsAre, Sorts DEF Retry
<1>2. /\ at \in Place /\ job[j].attempt \in Nat /\ n = job[j].attempt + 1
      /\ MaxAttempts \in Nat \ {0} /\ Processes \in Nat \ {0} /\ \A i \in l.todo : i.job \in Job
  BY <1>1, LocalsAre, Sorts DEF Row
<1>3. at \in {"scheduling", "failing"} /\ (at = "scheduling" => n < MaxAttempts)
         /\ (n >= MaxAttempts => at = "failing")
  BY <1>2
<1> HIDE DEF n, at
<1>4. Moves(w, at, l.key, "fail", l.goal, l.seen, n)
  BY <1>1, <1>2, Edits
<1>5. /\ Others(w) /\ m.at = at /\ m.path = "fail" /\ m.tries = n
      /\ m.job = j /\ m.phase = l.phase /\ m.todo = l.todo
  BY <1>4 DEF Moves
<1>6. NoNewcomer(w)
  BY <1>3, <1>5 DEF NoNewcomer, MayRetry, Armed
<1>7. Plain(l) /\ RowCounted(j)
  BY <1>1 DEF CountInv
<1>8. Alive(w)
  BY <1>1 DEF Alive
<1>9. Plain(loc[w])'
  <2>1. job[j].status \in Begun
    BY <1>1, <1>7 DEF Plain, Engaged, Armed
  <2> QED
    BY <1>1, <1>2, <1>3, <1>5, <1>7, <2>1 DEF Plain, Closing, Engaged
<1>10. Counted(loc[w])'
  <2> SUFFICES ASSUME n > MaxAttempts
               PROVE  job'[j].status \in Past /\ n + Cardinality(Retriers(j)') <= Most
    BY <1>5 DEF Counted, Retriers
  <2>1. job[j].status \in Past /\ job[j].attempt + Cardinality(Retriers(j)) <= Most
    BY <1>2, <1>7 DEF RowCounted
  <2>2. PICK i \in Job : i = loc[w].job
    BY <1>1
  <2>3. w \in Retriers(i) /\ w \notin Retriers(i)'
    BY <1>1, <1>3, <1>5, <2>2 DEF Retriers, MayRetry, Armed
  <2>4. /\ Cardinality(Retriers(i)) \in Nat /\ Cardinality(Retriers(i)') \in Nat
        /\ Cardinality(Retriers(i)') <= Cardinality(Retriers(i)) - 1
    BY <1>5, <1>6, <2>1, <2>2, <2>3, RetriersLeave, RetriersLive
  <2> QED
    BY <1>1, <1>2, <1>5, <2>1, <2>2, <2>4 DEF Most
<1>11. CountsKept
  BY <1>1 DEF CountsKept
<1> QED
  BY <1>5, <1>6, <1>8, <1>9, <1>10, <1>11, CountActs DEF CountsKept

(* The count is written, a last time or for a retry.                       *)
LEMMA CountWrites ==
    ASSUME TypeInv, PathInv, CountInv, [Next]_vars, NEW w \in Worker, ScheduleRetry(w) \/ RecordFinal(w)
    PROVE  CountInv'
<1> DEFINE l == loc[w]
           m == loc'[w]
           j == l.job
           r == Row(w)
<1>1. l.at \in {"scheduling", "recording"} /\ l.at \in Working /\ j \in Job
  BY LocalsAre, Sorts DEF ScheduleRetry, RecordFinal
<1>2. /\ l.tries \in Nat /\ MaxAttempts \in Nat \ {0} /\ Processes \in Nat \ {0}
      /\ \A i \in l.todo : i.job \in Job
  BY LocalsAre
<1>3. Plain(l) /\ Counted(l)
  BY DEF CountInv
<1>4. Sets(j, r.status, r.link, l.tries, r.asked)
  <2>1. \/ SetRow(w, [r EXCEPT !.attempt = l.tries])
        \/ SetRow(w, [r EXCEPT !.attempt = l.tries, !.eligible = FALSE, !.lease = "free",
                               !.holder = NoWorker])
    BY DEF ScheduleRetry, RecordFinal
  <2> QED
    BY <1>1, <2>1, RowEdits
<1>5. /\ \A i \in Job \ {j} : job'[i].attempt = job[i].attempt
      /\ job'[j].attempt = l.tries /\ job'[j].status = job[j].status
  BY <1>4 DEF Sets, Row
<1>6. CASE ScheduleRetry(w)
  <2>1. l.tries < MaxAttempts
    BY <1>3, <1>6 DEF Plain, ScheduleRetry
  <2>2. \A i \in Job : job'[i].attempt = job[i].attempt \/ RowCounted(i)'
    BY <1>2, <1>5, <2>1 DEF RowCounted
  <2> QED
    BY <1>1, <1>6, <2>2, DoneRests, CountRests DEF ScheduleRetry
<1>7. CASE RecordFinal(w)
  <2>1. l.at = "recording" /\ Goto(w, At(w, "releasing")) /\ l.path = "fail"
    BY <1>7 DEF RecordFinal, PathInv, PathOK
  <2>2. Steps(w, "releasing")
    BY <2>1, Edits, Sorts
  <2>3. /\ Others(w) /\ m.at = "releasing" /\ m.path = "fail" /\ m.tries = l.tries
        /\ m.job = j /\ m.phase = l.phase /\ m.todo = l.todo
    BY <2>1, <2>2 DEF Steps, Moves
  <2>4. NoNewcomer(w) /\ Alive(w)
    BY <2>1, <2>3 DEF NoNewcomer, MayRetry, Armed, Alive
  <2>5. \A i \in Job : job[i].status \in Begun => job'[i].status \in Begun
    BY StatusRises
  <2>6. Plain(loc[w])'
    BY <1>2, <1>3, <2>1, <2>3, <2>5 DEF Plain, Closing, Engaged, Armed
  <2>7. ASSUME l.tries >= MaxAttempts
        PROVE  job[j].status \in Past /\ l.tries + Cardinality(Retriers(j)') <= Most
    <3>1. job[j].status \in Past
      BY <1>3, <2>1, <2>7 DEF Plain
    <3>2. PICK i \in Job : i = loc[w].job
      BY <1>1
    <3>3. /\ Cardinality(Retriers(i)) \in Nat /\ Cardinality(Retriers(i)') \in Nat
          /\ Cardinality(Retriers(i)') <= Cardinality(Retriers(i))
      BY <2>3, <2>4, <3>1, <3>2, RetriersLeave, RetriersLive
    <3>4. CASE l.tries > MaxAttempts
      BY <1>2, <1>3, <2>3, <3>1, <3>2, <3>3, <3>4 DEF Counted, Most
    <3>5. CASE l.tries = MaxAttempts
      <4>1. w \in Living /\ w \notin Retriers(i)
        BY <2>1, <2>4, <3>2 DEF Living, Retriers, MayRetry, Armed
      <4>2. Cardinality(Retriers(i)) <= Processes - 1
        BY <4>1, RetriersLive
      <4> QED
        BY <1>2, <2>3, <3>1, <3>2, <3>3, <3>5, <4>2 DEF Most
    <3> QED
      BY <1>2, <2>7, <3>4, <3>5
  <2>8. \A i \in Job : job'[i].attempt = job[i].attempt \/ RowCounted(i)'
    <3>1. PICK i \in Job : i = loc[w].job
      BY <1>1
    <3>2. RowCounted(i)'
      BY <1>5, <2>3, <2>7, <3>1 DEF RowCounted
    <3> QED
      BY <1>5, <3>1, <3>2
  <2> QED
    BY <2>3, <2>4, <2>6, <2>8, CountActs
<1> QED
  BY <1>6, <1>7

(* A failing job.                                                          *)
LEMMA CountFails ==
    ASSUME TypeInv, CountInv, [Next]_vars, NEW w \in Worker, ReadForFailure(w)
    PROVE  CountInv'
<1> DEFINE l == loc[w]
           m == loc'[w]
           j == l.job
           n == IF l.tries = 0 THEN Row(w).attempt ELSE l.tries
<1>1. /\ l.at = "failing" /\ l.at \in Working /\ UNCHANGED job /\ j \in Job
      /\ \/ /\ job[j].status \in Terminal
            /\ Goto(w, [At(w, "recording") EXCEPT !.path = "fail", !.tries = n])
         \/ Goto(w, [At(w, "reading") EXCEPT !.path = "fail", !.tries = n, !.goal = "failed_safely"])
  BY LocalsAre, Sorts DEF ReadForFailure, Row
<1>2. /\ job[j].attempt \in Nat /\ (n = job[j].attempt \/ n = l.tries) /\ l.tries \in Nat
      /\ MaxAttempts \in Nat \ {0} /\ Processes \in Nat \ {0} /\ \A i \in l.todo : i.job \in Job
      /\ {"recording", "reading"} \subseteq Place
  BY <1>1, LocalsAre, Sorts DEF Row
<1>3. job[j].status \in Terminal => job[j].status \in Past
  BY DEF Terminal, Past, Begun, JobStatus
<1> HIDE DEF n
<1>4. \/ job[j].status \in Past /\ Moves(w, "recording", l.key, "fail", l.goal, l.seen, n)
      \/ Moves(w, "reading", l.key, "fail", "failed_safely", l.seen, n)
  BY <1>1, <1>2, <1>3, Edits
<1>5. /\ Others(w) /\ m.path = "fail" /\ m.tries = n
      /\ \/ m.at = "recording" /\ job[j].status \in Past
         \/ m.at = "reading" /\ m.goal = "failed_safely"
      /\ m.job = j /\ m.phase = l.phase /\ m.todo = l.todo
  BY <1>4 DEF Moves
<1>6. NoNewcomer(w) /\ Alive(w)
  BY <1>1, <1>5 DEF NoNewcomer, MayRetry, Armed, Alive
<1>7. Plain(l) /\ RowCounted(j)
  BY <1>1 DEF CountInv
<1>8. Plain(loc[w])'
  <2>1. job[j].status \in Begun
    BY <1>1, <1>7 DEF Plain, Engaged
  <2> QED
    BY <1>1, <1>2, <1>5, <1>7, <2>1 DEF Plain, Closing, Engaged
<1>9. ASSUME n = job[j].attempt
      PROVE  Counted(loc[w])'
  <2> SUFFICES ASSUME n > MaxAttempts
               PROVE  job'[j].status \in Past /\ n + Cardinality(Retriers(j)') <= Most
    BY <1>5 DEF Counted, Retriers
  <2>1. job[j].status \in Past /\ n + Cardinality(Retriers(j)) <= Most
    BY <1>2, <1>7, <1>9 DEF RowCounted
  <2>2. PICK i \in Job : i = loc[w].job
    BY <1>1
  <2>3. /\ Cardinality(Retriers(i)) \in Nat /\ Cardinality(Retriers(i)') \in Nat
        /\ Cardinality(Retriers(i)') <= Cardinality(Retriers(i))
    BY <1>5, <1>6, <2>1, <2>2, RetriersLeave, RetriersLive
  <2> QED
    BY <1>1, <1>2, <1>5, <1>9, <2>1, <2>2, <2>3 DEF Most
<1>10. CountsKept
  BY <1>1 DEF CountsKept
<1> QED
  BY <1>2, <1>5, <1>6, <1>8, <1>9, <1>10, CountActs DEF CountsKept

LEMMA CountEnds ==
    ASSUME TypeInv, CountInv, [Next]_vars, NEW w \in Worker, Release(w) \/ StopDispatch(w)
    PROVE  CountInv'
<1> DEFINE l == loc[w]
<1>1. l.at \in {"releasing", "stopping"} /\ l.at \in Working
  BY Sorts DEF Release, StopDispatch
<1>2. CASE Release(w)
  <2>1. CountsKept
    <3>1. SetRow(w, [Row(w) EXCEPT !.lease = "free", !.holder = NoWorker])
      BY <1>2 DEF Release
    <3> QED
      BY <1>1, <3>1, RowEdits DEF Sets, CountsKept, Row
  <2> QED
    BY <1>1, <1>2, <2>1, DoneRests, CountRests DEF Release, CountsKept
<1>3. CASE StopDispatch(w)
  <2>1. /\ l.at = "stopping" /\ CountsKept
        /\ \/ l.path = "stop" /\ Goto(w, [At(w, "reading") EXCEPT !.goal = "failed_safely"])
           \/ l.path # "stop" /\ Goto(w, At(w, "retrying"))
    BY <1>3 DEF StopDispatch, CountsKept
  <2>2. \/ l.path = "stop" /\ Moves(w, "reading", l.key, l.path, "failed_safely", l.seen, l.tries)
        \/ l.path # "stop" /\ Moves(w, "retrying", l.key, l.path, l.goal, l.seen, l.tries)
    BY <2>1, Edits, Sorts DEF Steps
  <2>3. ~(l.tries >= MaxAttempts)
    BY <2>1 DEF CountInv, Plain, Closing
  <2>4. /\ l.path = "stop" => Tallies(w, "reading", l.path, "failed_safely", l.seen, l.tries)
        /\ l.path # "stop" => Tallies(w, "retrying", l.path, l.goal, l.seen, l.tries)
    BY <2>1, <2>3, Sorts DEF Tallies, ArmedAt, Armed, EngagedAt
  <2> QED
    BY <1>1, <2>1, <2>2, <2>4, CountMoves
<1> QED
  BY <1>2, <1>3

(* Ticks and commands begin and end.                                       *)
LEMMA CountTurns ==
    ASSUME TypeInv, PathInv, CountInv, [Next]_vars, NEW w \in Worker,
           Loop(w) \/ Die(w) \/ \E j \in Job : CancelJob(w, j)
    PROVE  CountInv'
<1> DEFINE l == loc[w]
           m == loc'[w]
<1>0. /\ MaxAttempts \in Nat \ {0} /\ NoKey \notin Job /\ "preparing" \in Begun
      /\ {"preparing", "queued"} \cap Past = {}
      /\ \A i \in Job : job[i].status \in Begun => job'[i].status \in Begun
      /\ PathOK(l) /\ Plain(l)
      /\ l.at \in {"idle", "sweep"} => l.job = NoKey
      /\ \A i \in l.todo : i.job \in Job
  BY NightShiftAssumption, StatusRises, LocalsAre DEF Begun, Past, JobStatus, PathInv, CountInv, Between
<1>1. ASSUME NEW at \in {"idle", "sweep", "dead"}, NEW phase, NEW todo,
             at \in {"idle", "dead"} => phase = "none" /\ todo = {},
             phase = "recovery" => \A i \in todo : job[i.job].status = "preparing" /\ i.job \in Job,
             Goto(w, Resting(at, phase, todo)), Alive(w), UNCHANGED job
      PROVE  CountInv'
  <2>1. Others(w) /\ IsResting(m, at, phase, todo)
    BY <1>1, RestsThere
  <2>2. NoNewcomer(w)
    BY <1>0, <1>1, <2>1 DEF NoNewcomer, MayRetry, IsResting, Armed
  <2>3. Plain(loc[w])'
    BY <1>0, <1>1, <2>1 DEF Plain, IsResting, Engaged, Armed
  <2>4. m.tries <= MaxAttempts
    BY <1>0, <2>1 DEF IsResting
  <2> QED
    BY <1>1, <2>1, <2>2, <2>3, <2>4, CountActs
<1>2. ASSUME l.at = "sweep", CountsKept, NEW at, NEW j \in Job, NEW key, NEW path, NEW goal,
             Takes(w, at, j, key, path, goal),
             \/ at = "reading" /\ path = "prohibit" /\ l.phase = "claims"
             \/ at = "reading" /\ path = "claim" /\ l.phase = "claims" /\ job[j].status = "queued"
             \/ at = "begin" /\ l.phase = "claims" /\ job[j].status = "preparing" /\ path = l.path
             \/ /\ (at = "retrying" /\ path = l.path) \/ (at = "inspecting" /\ path = "finish")
                /\ l.phase = "recovery" /\ \E i \in l.todo : i.stale /\ i.job = j
      PROVE  CountInv'
  <2>1. /\ Others(w) /\ m.at = at /\ m.job = j /\ m.path = path /\ m.goal = goal /\ m.tries = 0
        /\ m.phase = l.phase /\ m.todo = l.todo /\ l.path = "none" /\ l.job = NoKey
    BY <1>0, <1>2 DEF Takes, PathOK
  <2>2. NoNewcomer(w)
    BY <1>0, <1>2, <2>1 DEF NoNewcomer, MayRetry, Armed
  <2>3. Engaged(m) => job'[j].status \in Begun
    BY <1>0, <1>2, <2>1 DEF Plain, Engaged, Armed
  <2>4. Plain(loc[w])'
    BY <1>0, <1>2, <2>1, <2>3 DEF Plain, Engaged
  <2>5. Alive(w) /\ m.tries <= MaxAttempts
    BY <1>0, <1>2, <2>1 DEF Alive
  <2> QED
    BY <1>2, <2>1, <2>2, <2>4, <2>5, CountActs DEF CountsKept
<1>3. ASSUME l.at = "sweep", CountsKept, Skips(w)
      PROVE  CountInv'
  <2>1. /\ Others(w) /\ m.at = "sweep" /\ m.job = NoKey /\ m.path = l.path /\ m.tries = 0
        /\ m.phase = l.phase /\ m.todo \subseteq l.todo /\ l.path = "none" /\ l.job = NoKey
    BY <1>0, <1>3 DEF Skips, PathOK
  <2>2. NoNewcomer(w)
    BY <1>0, <2>1 DEF NoNewcomer, MayRetry, Armed
  <2>3. Plain(loc[w])'
    BY <1>0, <1>3, <2>1 DEF Plain, Engaged, Armed
  <2>4. Alive(w) /\ m.tries <= MaxAttempts
    BY <1>0, <1>3, <2>1 DEF Alive
  <2> QED
    BY <1>3, <2>1, <2>2, <2>3, <2>4, CountActs DEF CountsKept
<1>4. UNCHANGED job => CountsKept
  BY DEF CountsKept
<1>5. CASE Scan(w) \/ EndTick(w) \/ Die(w)
  <2>1. (\E todo : Goto(w, Resting("sweep", "claims", todo))) \/ Goto(w, Resting("idle", "none", {}))
           \/ Goto(w, Resting("dead", "none", {}))
    BY <1>5 DEF Scan, EndTick, Die
  <2>2. Alive(w) /\ UNCHANGED job
    BY <1>5 DEF Scan, EndTick, Die, Alive
  <2> QED
    BY <1>1, <2>1, <2>2
<1>6. CASE ListStale(w)
  <2> DEFINE S == {[job |-> j, link |-> job[j].link, stale |-> job[j].lease = "expired"] :
                      j \in {i \in Job : job[i].status = "preparing"}}
  <2>1. ASSUME NEW i \in S
        PROVE  job[i.job].status = "preparing" /\ i.job \in Job
    <3>1. PICK j \in Job : /\ i = [job |-> j, link |-> job[j].link, stale |-> job[j].lease = "expired"]
                           /\ job[j].status = "preparing"
      OBVIOUS
    <3> QED
      BY <3>1
  <2>2. Alive(w) /\ UNCHANGED job /\ Goto(w, Resting("sweep", "recovery", S))
    BY <1>6 DEF ListStale, Alive
  <2> HIDE DEF S
  <2> QED
    BY <1>1, <2>1, <2>2
<1>7. ASSUME NEW j \in Job, RejectProhibited(w, j)
      PROVE  CountInv'
  <2>1. /\ l.at = "sweep" /\ l.phase = "claims" /\ UNCHANGED job
        /\ Goto(w, [At(w, "reading") EXCEPT !.job = j, !.path = "prohibit", !.goal = "rejected"])
    BY <1>7 DEF RejectProhibited
  <2>2. Takes(w, "reading", j, l.key, "prohibit", "rejected")
    BY <2>1, ListEdits, Sorts
  <2> QED
    BY <1>2, <1>4, <2>1, <2>2
<1>8. ASSUME NEW j \in Job, ClaimJob(w, j)
      PROVE  CountInv'
  <2>1. CountsKept
    BY <1>8, ClaimEffect DEF Sets, CountsKept
  <2>2. /\ l.at = "sweep" /\ l.phase = "claims"
        /\ \/ Skips(w)
           \/ job[j].status = "queued" /\ Takes(w, "reading", j, l.key, "claim", "preparing")
           \/ job[j].status = "preparing" /\ Takes(w, "begin", j, l.key, l.path, l.goal)
    BY <1>8, ClaimEffect
  <2> HIDE DEF l, m
  <2> QED
    BY <1>2, <1>3, <2>1, <2>2
<1>9. ASSUME NEW i \in l.todo, Recover(w, i)
      PROVE  CountInv'
  <2>1. /\ l.at = "sweep" /\ l.phase = "recovery" /\ UNCHANGED job
        /\ \/ Skips(w)
           \/ i.stale /\ Takes(w, "retrying", i.job, l.key, l.path, l.goal)
           \/ i.stale /\ Takes(w, "inspecting", i.job, i.link, "finish", l.goal)
    BY <1>9, RecoverEffect
  <2>2. i.job \in Job /\ CountsKept
    BY <1>0, <1>4, <2>1
  <2> HIDE DEF l, m
  <2> QED
    BY <1>2, <1>3, <1>9, <2>1, <2>2
<1>10. ASSUME NEW j \in Job, CancelJob(w, j)
       PROVE  CountInv'
  <2>1. /\ l.at = "idle" /\ Others(w) /\ UNCHANGED job
        /\ m.phase = "owner" /\ m.todo = {} /\ m.job = j /\ m.path = "stop" /\ m.tries = 0
        /\ m.at \in {"reading", "stopping"}
    BY <1>10, CommandEffect
  <2>2. NoNewcomer(w)
    BY <2>1 DEF NoNewcomer, MayRetry, Armed
  <2>3. Plain(loc[w])'
    BY <1>0, <2>1 DEF Plain, Engaged, Armed
  <2>4. Alive(w) /\ m.tries <= MaxAttempts
    BY <1>0, <2>1 DEF Alive
  <2> QED
    BY <1>4, <2>1, <2>2, <2>3, <2>4, CountActs DEF CountsKept
<1> QED
  BY <1>5, <1>6, <1>7, <1>8, <1>9, <1>10 DEF Loop

(* A process starts.                                                       *)
LEMMA CountLaunch ==
    ASSUME TypeInv, CountInv, [Next]_vars, NEW w \in Worker, Launch(w)
    PROVE  CountInv'
<1>1. Others(w) /\ IsResting(loc'[w], "idle", "none", {}) /\ UNCHANGED job
  BY RestsThere DEF Launch
<1>2. NoKey \notin Job /\ MaxAttempts \in Nat \ {0} /\ Processes \in Nat \ {0}
  BY NightShiftAssumption
<1>3. NoNewcomer(w)
  BY <1>1, <1>2 DEF NoNewcomer, MayRetry, IsResting, Armed
<1>4. /\ IsFiniteSet(Living) /\ Cardinality(Living) \in Nat /\ Cardinality(Living) < Processes
      /\ w \notin Living
  BY FS_CardinalityType DEF Launch, Living, Alive, CountInv
<1>5. Living' = Living \cup {w}
  BY <1>1 DEF Living, Alive, Others, IsResting
<1>6. IsFiniteSet(Living \cup {w}) /\ Cardinality(Living \cup {w}) = Cardinality(Living) + 1
  BY <1>4, FS_AddElement
<1>7. IsFiniteSet(Living)' /\ (Cardinality(Living) <= Processes)'
  BY <1>2, <1>4, <1>5, <1>6
<1>8. ASSUME NEW j \in Job
      PROVE  RowCounted(j)'
  BY <1>1, <1>3, RowsStayCounted
<1>9. ASSUME NEW v \in Worker \ {w}
      PROVE  Plain(loc[v])' /\ Counted(loc[v])'
  BY <1>1, <1>3, CountStays DEF Others
<1>10. Plain(loc[w])' /\ Counted(loc[w])'
  BY <1>1, <1>2 DEF IsResting, Plain, Counted, Engaged, Armed
<1> QED
  BY <1>7, <1>8, <1>9, <1>10 DEF CountInv

LEMMA CountStep ==
    ASSUME TypeInv, PathInv, CountInv, [Next]_vars
    PROVE  CountInv'
<1>1. CASE UNCHANGED <<job, loc>>
  BY <1>1, CountIdles DEF CountsKept
<1>2. ASSUME NEW j \in Job, NEW c, NEW e, Enqueue(j, c, e)
      PROVE  CountInv'
  BY <1>2, CountIdles, LocalsAre DEF Enqueue, CountsKept, JobRow_
<1>3. ASSUME NEW j \in Job, ExpireLease(j) \/ PassBackoff(j)
      PROVE  CountInv'
  BY <1>3, CountIdles, LocalsAre DEF ExpireLease, PassBackoff, CountsKept, JobRow_
<1>4. ASSUME NEW w \in Worker, Body(w) \/ DatabaseFails(w)
      PROVE  CountInv'
  BY <1>4, CountDispatching, CountTransits, CountRetries, CountWrites, CountFails, CountEnds DEF Body
<1> QED
  BY <1>1, <1>2, <1>3, <1>4, CountTurns, CountLaunch
  DEF Next, CancelDispatch, Deploy, ChangeMode, vars

LEMMA CountInit == Init => CountInv
<1> SUFFICES ASSUME Init PROVE CountInv
  OBVIOUS
<1>1. \A w \in Worker : IsResting(loc[w], "unborn", "none", {})
  BY DEF Init, Resting, IsResting
<1>2. Living = {}
  BY <1>1 DEF Living, Alive, IsResting
<1>3. IsFiniteSet(Living) /\ Cardinality(Living) <= Processes
  BY <1>2, FS_EmptySet, NightShiftAssumption
<1>4. \A j \in Job : job[j].attempt = 0
  BY DEF Init, NoRow
<1>5. \A j \in Job : RowCounted(j)
  BY <1>4, NightShiftAssumption DEF RowCounted
<1>6. \A w \in Worker : Plain(loc[w]) /\ Counted(loc[w])
  BY <1>1, NightShiftAssumption DEF IsResting, Plain, Counted, Engaged, Armed
<1> QED
  BY <1>3, <1>5, <1>6 DEF CountInv

-----------------------------------------------------------------------------
(* The same instance of Dispatch as D, with what is proved about it.       *)
P == INSTANCE DispatchProofs WITH
        Key <- Attempt, Caller <- Worker, Requests <- {RequestOf(w) : w \in Worker},
        Syncs <- 0, Crashes <- TRUE

(* What DispatchAssumption says of this instance.                          *)
LEMMA DispatchAssumed ==
    /\ NoKey \notin Attempt
    /\ NoRequest \notin {RequestOf(w) : w \in Worker}
    /\ \A r \in {RequestOf(w) : w \in Worker} :
          r.gated \in BOOLEAN /\ r.registered \in BOOLEAN /\ r.max \in 1..10
    /\ 0 \in Nat
    /\ TRUE \in BOOLEAN
<1>1. NoKey \notin Attempt
  <2>1. AttemptCount \subseteq Nat
    BY DEF AttemptCount
  <2>2. NoKey \notin Job \X Nat
    BY NightShiftAssumption
  <2> QED
    BY <2>1, <2>2 DEF Attempt
<1>2. \A r \in {RequestOf(w) : w \in Worker} :
          r.gated \in BOOLEAN /\ r.registered \in BOOLEAN /\ r.max \in 1..10
  <2> SUFFICES ASSUME NEW w \in Worker
               PROVE  /\ RequestOf(w).gated \in BOOLEAN /\ RequestOf(w).registered \in BOOLEAN
                      /\ RequestOf(w).max \in 1..10
    OBVIOUS
  <2> QED
    BY DEF RequestOf
<1> QED
  BY <1>1, <1>2, NoRequestAssumption

LEMMA SameInit == D!Init <=> P!Init
BY DEF D!Init, P!Init, D!Idle, P!Idle

LEMMA SameNext == D!Next <=> P!Next
BY DEF D!Next, D!Proceed, D!Enter, D!Decide, D!LookUp, D!Insert, D!InsertLost, D!ReadForDispatch,
       D!ReadForRetry, D!Claim, D!MarkRunning, D!Swap, D!BeginAttempt, D!Execute, D!Finish, D!Crash,
       D!Cancel, D!Synchronize, D!RequestApproval, D!Approve, D!ApproveTooLate, D!Reject,
       D!ExpireOrClose, D!ReachDeadline, D!rows, D!Idle, D!Open, D!Fresh, D!InsertApproval, D!Return,
       D!Transitions, D!Pending, D!Resolve, D!Move, D!Outcomes, D!Closed, D!Retryable, D!Startable,
       D!DispatchStatus, D!Busy,
       P!Next, P!Proceed, P!Enter, P!Decide, P!LookUp, P!Insert, P!InsertLost, P!ReadForDispatch,
       P!ReadForRetry, P!Claim, P!MarkRunning, P!Swap, P!BeginAttempt, P!Execute, P!Finish, P!Crash,
       P!Cancel, P!Synchronize, P!RequestApproval, P!Approve, P!ApproveTooLate, P!Reject,
       P!ExpireOrClose, P!ReachDeadline, P!rows, P!Idle, P!Open, P!Fresh, P!InsertApproval, P!Return,
       P!Transitions, P!Pending, P!Resolve, P!Move, P!Outcomes, P!Closed, P!Retryable, P!Startable,
       P!DispatchStatus, P!Busy

-----------------------------------------------------------------------------
(* Every idempotency key in use is one of Attempt, and of the job at hand. *)
KeyPlaces == {"creating", "inserting", "linking", "starting", "dispatching", "judging", "asking",
              "inspecting", "stopping"}

LinkOf(k, j) == k = NoKey \/ (k \in Attempt /\ k[1] = j)

KeyOK(l) ==
    /\ l.at \in Between => l.key = NoKey
    /\ l.at \in KeyPlaces => l.key \in Attempt
    /\ LinkOf(l.key, l.job)
    /\ \A i \in l.todo : LinkOf(i.link, i.job)

KeysInv ==
    /\ \A j \in Job : LinkOf(job[j].link, j)
    /\ \A w \in Worker : KeyOK(loc[w])

LEMMA CountsAreBounded ==
    ASSUME TypeInv, CountInv
    PROVE  /\ \A j \in Job : job[j].attempt \in AttemptCount
           /\ \A w \in Worker : loc[w].tries \in AttemptCount
<1>1. MaxAttempts \in Nat \ {0} /\ Processes \in Nat \ {0}
  BY NightShiftAssumption
<1>2. ASSUME NEW n \in Nat, NEW c \in Nat, n > MaxAttempts => n + c <= Most
      PROVE  n \in AttemptCount
  BY <1>1, <1>2 DEF AttemptCount, Most
<1>3. ASSUME NEW j \in Job
      PROVE  job[j].attempt \in AttemptCount
  <2> DEFINE c == Cardinality(Retriers(j))
             n == job[j].attempt
  <2>1. n \in Nat /\ c \in Nat
    BY LocalsAre, RetriersLive
  <2>2. n >= MaxAttempts => n + c <= Most
    BY DEF CountInv, RowCounted
  <2> HIDE DEF n, c
  <2>3. n > MaxAttempts => n + c <= Most
    BY <1>1, <2>1, <2>2
  <2>4. n \in AttemptCount
    BY <1>2, <2>1, <2>3
  <2> QED
    BY <2>4 DEF n
<1>4. ASSUME NEW w \in Worker
      PROVE  loc[w].tries \in AttemptCount
  <2> DEFINE c == Cardinality(Retriers(loc[w].job))
             n == loc[w].tries
  <2>1. n \in Nat /\ c \in Nat
    BY LocalsAre, RetriersLive
  <2>2. n > MaxAttempts => n + c <= Most
    BY DEF CountInv, Counted
  <2> HIDE DEF n, c
  <2>3. n \in AttemptCount
    BY <1>2, <2>1, <2>2
  <2> QED
    BY <2>3 DEF n
<1> QED
  BY <1>3, <1>4

LEMMA KeysAct ==
    ASSUME KeysInv, NEW w \in Worker, Others(w), KeyOK(loc[w])',
           \A j \in Job : job'[j].link = job[j].link \/ LinkOf(job'[j].link, j)
    PROVE  KeysInv'
BY DEF KeysInv, KeyOK, Others

(* A worker that keeps its job and its list keeps its key or takes one of  *)
(* that job.                                                               *)
LEMMA KeyMoves ==
    ASSUME TypeInv, KeysInv, NEW w \in Worker, NEW at, NEW key, NEW path, NEW goal, NEW seen, NEW tries,
           Moves(w, at, key, path, goal, seen, tries),
           at \in Working, LinkOf(key, loc[w].job), at \in KeyPlaces => key \in Attempt
    PROVE  KeyOK(loc[w])' /\ Others(w)
<1>1. at \notin Between
  BY Sorts
<1>2. /\ loc'[w].at = at /\ loc'[w].key = key /\ loc'[w].job = loc[w].job
      /\ loc'[w].todo = loc[w].todo /\ Others(w)
  BY DEF Moves
<1>3. KeyOK(loc[w])
  BY DEF KeysInv
<1> QED
  BY <1>1, <1>2, <1>3 DEF KeyOK

LEMMA KeyRests ==
    ASSUME KeysInv, NEW w \in Worker, Rests(w)
    PROVE  KeyOK(loc[w])' /\ Others(w)
<1>1. KeyOK(loc[w])
  BY DEF KeysInv
<1> QED
  BY <1>1 DEF Rests, IsResting, KeyOK, KeyPlaces, LinkOf

(* What a worker may write to the row of its job,                          *)
LEMMA RowWrites ==
    ASSUME TypeInv, NEW w \in Worker, Body(w) \/ DatabaseFails(w)
    PROVE  LET l == loc[w]
               j == loc[w].job
               r == Row(w)
           IN  \/ UNCHANGED job
               \/ Link(w) /\ Sets(j, r.status, l.key, r.attempt, r.asked)
               \/ NoteApproval(w) /\ Sets(j, r.status, r.link, r.attempt, TRUE)
               \/ SwapJob(w) /\ Sets(j, l.goal, r.link, r.attempt, r.asked)
               \/ ScheduleRetry(w) /\ Sets(j, r.status, r.link, l.tries, r.asked)
               \/ RecordFinal(w) /\ Sets(j, r.status, r.link, l.tries, r.asked)
               \/ Release(w) /\ Sets(j, r.status, r.link, r.attempt, r.asked)
<1> DEFINE l == loc[w]
           j == loc[w].job
           r == Row(w)
<1>1. Link(w) => Sets(j, r.status, l.key, r.attempt, r.asked)
  BY RowEdits, Sorts DEF Link
<1>2. NoteApproval(w) => Sets(j, r.status, r.link, r.attempt, TRUE)
  BY RowEdits, Sorts DEF NoteApproval
<1>3. SwapJob(w) => UNCHANGED job \/ Sets(j, l.goal, r.link, r.attempt, r.asked)
  BY RowEdits, Sorts DEF SwapJob
<1>4. ScheduleRetry(w) => Sets(j, r.status, r.link, l.tries, r.asked)
  BY RowEdits, Sorts DEF ScheduleRetry
<1>5. RecordFinal(w) => Sets(j, r.status, r.link, l.tries, r.asked)
  BY RowEdits, Sorts DEF RecordFinal
<1>6. Release(w) => Sets(j, r.status, r.link, r.attempt, r.asked)
  BY RowEdits, Sorts DEF Release
<1>7. \/ UNCHANGED job \/ Link(w) \/ NoteApproval(w) \/ SwapJob(w)
      \/ ScheduleRetry(w) \/ RecordFinal(w) \/ Release(w)
  BY DEF Body, Begin, Create, InsertDispatch, StartDispatch, RunDispatch, DatabaseFails, Judge,
         AskApproval, Reach, ReadJob, Retry, ReadForFailure, Inspect, StopDispatch
<1> QED
  BY <1>1, <1>2, <1>3, <1>4, <1>5, <1>6, <1>7

(* and what becomes of a row otherwise.                                    *)
LEMMA RowsOtherwise ==
    ASSUME TypeInv, [Next]_vars, NEW j \in Job
    PROVE  \/ \E w \in Worker : Body(w) \/ DatabaseFails(w)
           \/ /\ job'[j].link = job[j].link /\ job'[j].attempt = job[j].attempt
              /\ job'[j].asked = job[j].asked
              /\ \/ job'[j].status = job[j].status
                 \/ job[j].status = "absent" /\ job'[j].status \in {"queued", "awaiting_approval"}
<1> DEFINE Goal == /\ job'[j].link = job[j].link /\ job'[j].attempt = job[j].attempt
                   /\ job'[j].asked = job[j].asked
                   /\ \/ job'[j].status = job[j].status
                      \/ job[j].status = "absent" /\ job'[j].status \in {"queued", "awaiting_approval"}
<1> SUFFICES Goal \/ \E w \in Worker : Body(w) \/ DatabaseFails(w)
  OBVIOUS
<1>1. ASSUME UNCHANGED job
      PROVE  Goal
  BY <1>1
<1>2. ASSUME NEW w \in Worker, Loop(w)
      PROVE  Goal
  <2>1. ASSUME NEW i \in Job, ClaimJob(w, i)
        PROVE  Goal
    <3>1. Sets(i, job[i].status, job[i].link, job[i].attempt, job[i].asked)
      BY <2>1, ClaimEffect
    <3> QED
      BY <3>1 DEF Sets
  <2> QED
    BY <1>2, <2>1 DEF Loop, Scan, ListStale, EndTick, RejectProhibited, Recover
<1>3. ASSUME NEW i \in Job, \/ \E c, e : Enqueue(i, c, e)
                            \/ ExpireLease(i) \/ PassBackoff(i)
      PROVE  Goal
  <2>0. job[i] \in JobRow_ /\ job \in [Job -> JobRow_]
    BY LocalsAre
  <2>1. ASSUME \E c, e : Enqueue(i, c, e)
        PROVE  Goal
    <3>1. PICK s, e : /\ job[i].status = "absent" /\ s \in {"queued", "awaiting_approval"}
                      /\ job' = [job EXCEPT ![i].status = s, ![i].eligible = e]
      BY <2>1 DEF Enqueue
    <3> QED
      BY <2>0, <3>1 DEF JobRow_
  <2>2. ASSUME ExpireLease(i) \/ PassBackoff(i)
        PROVE  Goal
    BY <2>0, <2>2 DEF ExpireLease, PassBackoff, JobRow_
  <2> QED
    BY <1>3, <2>1, <2>2
<1> HIDE DEF Goal
<1>4. \/ UNCHANGED job
      \/ \E w \in Worker : Loop(w) \/ Body(w) \/ DatabaseFails(w)
      \/ \E i \in Job : (\E c, e : Enqueue(i, c, e)) \/ ExpireLease(i) \/ PassBackoff(i)
  BY DEF Next, Launch, Die, CancelJob, CancelDispatch, Deploy, ChangeMode, vars
<1> QED
  BY <1>1, <1>2, <1>3, <1>4

LEMMA LinksStay ==
    ASSUME TypeInv, KeysInv, NEW w \in Worker, Body(w) \/ DatabaseFails(w), NEW j \in Job
    PROVE  job'[j].link = job[j].link \/ LinkOf(job'[j].link, j)
<1>1. LinkOf(loc[w].key, loc[w].job)
  BY DEF KeysInv, KeyOK
<1> QED
  BY <1>1, RowWrites DEF Sets, Row

LEMMA KeysBody ==
    ASSUME TypeInv, PathInv, CountInv, KeysInv, NEW w \in Worker, Body(w) \/ DatabaseFails(w)
    PROVE  KeysInv'
<1> DEFINE l == loc[w]
           i == loc[w].job
           Goal == KeyOK(loc[w])' /\ Others(w)
<1>0. /\ KeyOK(l) /\ LinkOf(l.key, i) /\ Working \subseteq Place
      /\ l.at \in Working => i \in Job
      /\ l.at \in KeyPlaces => l.key \in Attempt
  BY LocalsAre, Sorts DEF KeysInv, KeyOK
<1>1. SUFFICES KeysInv' \/ Goal
  BY LinksStay, KeysAct
<1>2. ASSUME l.at \in Working, Fail(w)
      PROVE  Goal
  <2>1. Moves(w, "failing", l.key, "fail", l.goal, l.seen, 0)
    BY <1>2, FailStumbles DEF Stumbles
  <2> QED
    BY <1>0, <2>1, KeyMoves, Sorts DEF KeyPlaces
<1>3. ASSUME Done(w)
      PROVE  Goal
  BY <1>3, DoneRests, KeyRests
<1>4. CASE UNCHANGED loc
  BY <1>4, LinksStay DEF KeysInv, KeyOK
<1>5. ASSUME NEW at \in Working, at \in KeyPlaces => l.at \in KeyPlaces,
             \/ Goto(w, At(w, at))
             \/ \E p, n : Goto(w, [At(w, at) EXCEPT !.path = p, !.tries = n])
             \/ \E p, n, g : Goto(w, [At(w, at) EXCEPT !.path = p, !.tries = n, !.goal = g])
             \/ \E g : Goto(w, [At(w, at) EXCEPT !.seen = g])
             \/ \E g : Goto(w, [At(w, at) EXCEPT !.goal = g])
      PROVE  Goal
  <2>0. at \in Place
    BY <1>0
  <2>1. ASSUME NEW p, NEW g, NEW s, NEW n, Moves(w, at, l.key, p, g, s, n)
        PROVE  Goal
    BY <1>0, <1>5, <2>1, KeyMoves
  <2> HIDE DEF Goal
  <2>2. CASE Goto(w, At(w, at))
    <3>1. Moves(w, at, l.key, l.path, l.goal, l.seen, l.tries)
      BY <2>0, <2>2, Edits DEF Steps
    <3> QED
      BY <2>1, <3>1
  <2>3. ASSUME NEW p, NEW n, Goto(w, [At(w, at) EXCEPT !.path = p, !.tries = n])
        PROVE  Goal
    <3>1. Moves(w, at, l.key, p, l.goal, l.seen, n)
      BY <2>0, <2>3, Edits
    <3> QED
      BY <2>1, <3>1
  <2>4. ASSUME NEW p, NEW n, NEW g, Goto(w, [At(w, at) EXCEPT !.path = p, !.tries = n, !.goal = g])
        PROVE  Goal
    <3>1. Moves(w, at, l.key, p, g, l.seen, n)
      BY <2>0, <2>4, Edits
    <3> QED
      BY <2>1, <3>1
  <2>5. ASSUME NEW g, Goto(w, [At(w, at) EXCEPT !.seen = g])
        PROVE  Goal
    <3>1. Moves(w, at, l.key, l.path, l.goal, g, l.tries)
      BY <2>0, <2>5, Edits
    <3> QED
      BY <2>1, <3>1
  <2>6. ASSUME NEW g, Goto(w, [At(w, at) EXCEPT !.goal = g])
        PROVE  Goal
    <3>1. Moves(w, at, l.key, l.path, g, l.seen, l.tries)
      BY <2>0, <2>6, Edits
    <3> QED
      BY <2>1, <3>1
  <2> QED
    BY <1>5, <2>2, <2>3, <2>4, <2>5, <2>6
<1>6. ASSUME l.at \in {"reading", "swapping"}, Moved(w) \/ Refused(w)
      PROVE  Goal
  <2>1. \/ Rests(w)
        \/ \E at \in {"begin", "recording", "releasing", "reading", "failing"} : \E p, g, s, n :
              Moves(w, at, l.key, p, g, s, n)
    BY <1>6, MovedEffect, RefusedEffect DEF Steps, Stumbles
  <2>2. ASSUME NEW at \in {"begin", "recording", "releasing", "reading", "failing"},
               NEW p, NEW g, NEW s, NEW n, Moves(w, at, l.key, p, g, s, n)
        PROVE  Goal
    BY <1>0, <2>2, KeyMoves, Sorts DEF KeyPlaces
  <2> QED
    BY <2>1, <2>2, KeyRests
<1> HIDE DEF Goal
<1>7. CASE Begin(w)
  <2> DEFINE key == <<l.job, Row(w).attempt>>
             link == Row(w).link
  <2>1. l.at = "begin" /\ l.at \in Working /\ i \in Job
    BY <1>0, <1>7, Sorts DEF Begin
  <2>2. /\ key \in Attempt /\ LinkOf(key, i)
        /\ LinkOf(link, i)
    BY <2>1, CountsAreBounded DEF KeysInv, LinkOf, Attempt, Row
  <2>3. \/ Fail(w)
        \/ \E p : Goto(w, [At(w, "creating") EXCEPT !.key = key, !.path = p])
        \/ link # NoKey /\ Goto(w, [At(w, "asking") EXCEPT !.key = link, !.path = "defer"])
    BY <1>7 DEF Begin
  <2>4. "creating" \in Place /\ "asking" \in Place /\ "creating" \in Working /\ "asking" \in Working
    BY <1>0, Sorts
  <2> HIDE DEF key, link
  <2>5. \/ Fail(w)
        \/ \E p : Moves(w, "creating", key, p, l.goal, l.seen, l.tries)
        \/ link # NoKey /\ Moves(w, "asking", link, "defer", l.goal, l.seen, l.tries)
    BY <2>3, <2>4, Edits
  <2>6. link # NoKey => link \in Attempt
    BY <2>2 DEF LinkOf
  <2> QED
    BY <1>2, <2>1, <2>2, <2>4, <2>5, <2>6, KeyMoves DEF Goal
<1>8. CASE Create(w) \/ InsertDispatch(w) \/ Link(w) \/ StartDispatch(w) \/ RunDispatch(w)
              \/ DatabaseFails(w)
  <2>1. l.at \in {"creating", "inserting", "linking", "starting", "dispatching"} /\ l.at \in Working
    BY <1>8, Sorts DEF Create, InsertDispatch, Link, StartDispatch, RunDispatch, DatabaseFails
  <2>2. \/ UNCHANGED loc \/ Fail(w)
        \/ \E at \in {"inserting", "linking", "asking", "starting", "dispatching", "judging"} :
              Goto(w, At(w, at))
    BY <1>8 DEF Create, InsertDispatch, Link, StartDispatch, RunDispatch, DatabaseFails
  <2>3. l.at \in KeyPlaces
        /\ {"inserting", "linking", "asking", "starting", "dispatching", "judging"} \subseteq Working
    BY <2>1, Sorts DEF KeyPlaces
  <2> QED
    BY <1>2, <1>4, <1>5, <2>1, <2>2, <2>3
<1>9. CASE Judge(w) \/ AskApproval(w) \/ NoteApproval(w) \/ Inspect(w)
  <2>1. \/ \E at \in {"reaching", "failing", "retrying", "releasing", "noting"} : Goto(w, At(w, at))
        \/ l.at = "inspecting" /\ Goto(w, At(w, "stopping"))
    BY <1>9 DEF Judge, AskApproval, NoteApproval, Inspect, AfterResult, AfterInspection
  <2>2. /\ {"reaching", "failing", "retrying", "releasing", "noting", "stopping"} \subseteq Working
        /\ "inspecting" \in KeyPlaces
        /\ {"reaching", "failing", "retrying", "releasing", "noting"} \cap KeyPlaces = {}
    BY Sorts DEF KeyPlaces
  <2> QED
    BY <1>5, <2>1, <2>2
<1>10. CASE Reach(w)
  <2>1. \/ \E g : Goto(w, [At(w, "reading") EXCEPT !.goal = g])
        \/ Goto(w, At(w, "releasing"))
    BY <1>10 DEF Reach
  <2> QED
    BY <1>5, <2>1, Sorts DEF KeyPlaces
<1>11. CASE ReadJob(w) \/ SwapJob(w)
  <2>1. l.at \in {"reading", "swapping"}
    BY <1>11 DEF ReadJob, SwapJob
  <2>2. \/ Moved(w) \/ Refused(w)
        \/ \E s : Goto(w, [At(w, "swapping") EXCEPT !.seen = s])
    BY <1>11 DEF ReadJob, SwapJob
  <2> QED
    BY <1>5, <1>6, <2>1, <2>2, Sorts DEF KeyPlaces
<1>12. CASE ScheduleRetry(w) \/ Release(w)
  BY <1>3, <1>12 DEF ScheduleRetry, Release
<1>13. CASE RecordFinal(w)
  BY <1>5, <1>13, Sorts DEF RecordFinal, KeyPlaces
<1>14. CASE Retry(w) \/ ReadForFailure(w)
  <2>1. \E at \in {"scheduling", "failing", "recording", "reading"} :
           \/ \E p, n : Goto(w, [At(w, at) EXCEPT !.path = p, !.tries = n])
           \/ \E p, n, g : Goto(w, [At(w, at) EXCEPT !.path = p, !.tries = n, !.goal = g])
    BY <1>14 DEF Retry, ReadForFailure
  <2>2. /\ {"scheduling", "failing", "recording", "reading"} \subseteq Working
        /\ {"scheduling", "failing", "recording", "reading"} \cap KeyPlaces = {}
    BY Sorts DEF KeyPlaces
  <2> QED
    BY <1>5, <2>1, <2>2
<1>15. CASE StopDispatch(w)
  <2>1. \/ Goto(w, [At(w, "reading") EXCEPT !.goal = "failed_safely"])
        \/ Goto(w, At(w, "retrying"))
    BY <1>15 DEF StopDispatch
  <2> QED
    BY <1>5, <2>1, Sorts DEF KeyPlaces
<1> QED
  BY <1>7, <1>8, <1>9, <1>10, <1>11, <1>12, <1>13, <1>14, <1>15 DEF Body

LEMMA KeysStep ==
    ASSUME TypeInv, PathInv, CountInv, KeysInv, [Next]_vars
    PROVE  KeysInv'
<1>0. /\ \A w \in Worker : KeyOK(loc[w]) /\ loc[w].todo \subseteq Item_
      /\ \A j \in Job : LinkOf(job[j].link, j)
      /\ job \in [Job -> JobRow_]
  BY LocalsAre DEF KeysInv
<1>1. ASSUME UNCHANGED loc, \A j \in Job : job'[j].link = job[j].link
      PROVE  KeysInv'
  BY <1>1 DEF KeysInv, KeyOK
<1>2. ASSUME NEW w \in Worker, NEW at \in Between, NEW phase, NEW todo, UNCHANGED job,
             Goto(w, Resting(at, phase, todo)), \A i \in todo : LinkOf(i.link, i.job)
      PROVE  KeysInv'
  <2>1. Others(w) /\ IsResting(loc'[w], at, phase, todo)
    BY <1>2, RestsThere
  <2>2. KeyOK(loc[w])'
    BY <1>2, <2>1 DEF IsResting, KeyOK, KeyPlaces, Between, LinkOf
  <2> QED
    BY <1>2, <2>1, <2>2, KeysAct
<1>3. ASSUME NEW w \in Worker, \A j \in Job : job'[j].link = job[j].link, Skips(w)
      PROVE  KeysInv'
  <2>1. KeyOK(loc[w])'
    BY <1>0, <1>3 DEF Skips, KeyOK
  <2> QED
    BY <1>3, <2>1, KeysAct DEF Skips
<1>4. ASSUME NEW w \in Worker, \A j \in Job : job'[j].link = job[j].link,
             NEW at \in Working, NEW j, NEW key, NEW path, NEW goal,
             Takes(w, at, j, key, path, goal), LinkOf(key, j), at \in KeyPlaces => key \in Attempt
      PROVE  KeysInv'
  <2>1. KeyOK(loc[w])'
    BY <1>0, <1>4, Sorts DEF Takes, KeyOK
  <2> QED
    BY <1>4, <2>1, KeysAct DEF Takes
<1>5. ASSUME NEW w \in Worker, Loop(w)
      PROVE  KeysInv'
  <2>0. loc[w].at = "sweep" => loc[w].key = NoKey
    BY <1>0 DEF KeyOK, Between
  <2>1. CASE Scan(w)
    <3> DEFINE S == {[job |-> j, link |-> NoKey, stale |-> FALSE] :
                        j \in {i \in Job : night /\ (Eligible(i) \/ Prohibited(i))}}
    <3>1. \A i \in S : LinkOf(i.link, i.job)
      BY DEF LinkOf
    <3>2. Goto(w, Resting("sweep", "claims", S)) /\ UNCHANGED job /\ "sweep" \in Between
      BY <2>1 DEF Scan, Between
    <3> HIDE DEF S
    <3> QED
      BY <1>2, <3>1, <3>2
  <2>2. CASE ListStale(w)
    <3> DEFINE S == {[job |-> j, link |-> job[j].link, stale |-> job[j].lease = "expired"] :
                        j \in {i \in Job : job[i].status = "preparing"}}
    <3>1. \A i \in S : LinkOf(i.link, i.job)
      BY <1>0
    <3>2. Goto(w, Resting("sweep", "recovery", S)) /\ UNCHANGED job /\ "sweep" \in Between
      BY <2>2 DEF ListStale, Between
    <3> HIDE DEF S
    <3> QED
      BY <1>2, <3>1, <3>2
  <2>3. CASE EndTick(w)
    BY <1>2, <2>3 DEF EndTick, Between
  <2>4. ASSUME NEW j \in Job, RejectProhibited(w, j)
        PROVE  KeysInv'
    <3>1. /\ loc[w].at = "sweep" /\ UNCHANGED job
          /\ Goto(w, [At(w, "reading") EXCEPT !.job = j, !.path = "prohibit", !.goal = "rejected"])
      BY <2>4 DEF RejectProhibited
    <3>2. Takes(w, "reading", j, loc[w].key, "prohibit", "rejected")
      BY <3>1, ListEdits, Sorts
    <3> QED
      BY <1>4, <2>0, <3>1, <3>2, Sorts DEF KeyPlaces, LinkOf
  <2>5. ASSUME NEW j \in Job, ClaimJob(w, j)
        PROVE  KeysInv'
    <3>1. /\ loc[w].at = "sweep"
          /\ Sets(j, job[j].status, job[j].link, job[j].attempt, job[j].asked)
          /\ \/ Skips(w)
             \/ \E at \in {"reading", "begin"} : \E path, goal : Takes(w, at, j, NoKey, path, goal)
      BY <2>0, <2>5, ClaimEffect
    <3>2. \A i \in Job : job'[i].link = job[i].link
      BY <3>1 DEF Sets
    <3> QED
      BY <1>3, <1>4, <3>1, <3>2, Sorts DEF KeyPlaces, LinkOf
  <2>6. ASSUME NEW i \in loc[w].todo, Recover(w, i)
        PROVE  KeysInv'
    <3>0. LinkOf(i.link, i.job)
      BY <1>0 DEF KeyOK
    <3>1. /\ loc[w].at = "sweep" /\ UNCHANGED job
          /\ \/ Skips(w)
             \/ Takes(w, "retrying", i.job, NoKey, loc[w].path, loc[w].goal)
             \/ i.link # NoKey /\ Takes(w, "inspecting", i.job, i.link, "finish", loc[w].goal)
      BY <2>0, <2>6, RecoverEffect
    <3> QED
      BY <1>3, <1>4, <3>0, <3>1, Sorts DEF KeyPlaces, LinkOf
  <2> QED
    BY <1>5, <2>1, <2>2, <2>3, <2>4, <2>5, <2>6 DEF Loop
<1>6. ASSUME NEW w \in Worker, Launch(w) \/ Die(w)
      PROVE  KeysInv'
  BY <1>2, <1>6 DEF Launch, Die, Between
<1>7. ASSUME NEW w \in Worker, NEW j \in Job, CancelJob(w, j)
      PROVE  KeysInv'
  <2> DEFINE s == Resting("reading", "owner", {})
             a == [s EXCEPT !.job = j, !.path = "stop", !.goal = "failed_safely"]
             b == [a EXCEPT !.at = "stopping", !.key = job[j].link, !.goal = "absent"]
  <2>1. a.at = "reading" /\ a.job = j /\ a.todo = {} /\ a.key = NoKey
    BY DEF Resting
  <2>2. b.at = "stopping" /\ b.job = j /\ b.todo = {} /\ b.key = job[j].link
    BY DEF Resting
  <2>3. Goto(w, a) \/ (Goto(w, b) /\ job[j].link # NoKey)
    BY <1>7 DEF CancelJob
  <2>4. \A m : Goto(w, m) => Others(w) /\ loc'[w] = m
    BY DEF Goto, Others, TypeInv, WorkersOK
  <2> HIDE DEF a, b
  <2>5. KeyOK(loc[w])' /\ Others(w)
    BY <1>0, <2>1, <2>2, <2>3, <2>4 DEF KeyOK, KeyPlaces, LinkOf, Between
  <2>6. UNCHANGED job
    BY <1>7 DEF CancelJob
  <2> QED
    BY <2>5, <2>6, KeysAct
<1>8. ASSUME NEW j \in Job, \/ \E c, e : Enqueue(j, c, e)
                            \/ ExpireLease(j) \/ PassBackoff(j) \/ \E c : Deploy(j, c)
      PROVE  KeysInv'
  <2>1. UNCHANGED loc
    BY <1>8 DEF Enqueue, ExpireLease, PassBackoff, Deploy
  <2>2. \E r : /\ \/ \E s, e : r = [job[j] EXCEPT !.status = s, !.eligible = e]
                  \/ \E s : r = [job[j] EXCEPT !.lease = s]
                  \/ \E e : r = [job[j] EXCEPT !.eligible = e]
                  \/ r = job[j]
               /\ job' = [job EXCEPT ![j] = r]
    BY <1>0, <1>8 DEF Enqueue, ExpireLease, PassBackoff, Deploy
  <2>3. job[j] \in JobRow_
    BY <1>0
  <2>4. \A i \in Job : job'[i].link = job[i].link
    BY <1>0, <2>2, <2>3 DEF JobRow_
  <2> QED
    BY <1>1, <2>1, <2>4
<1> QED
  BY <1>1, <1>5, <1>6, <1>7, <1>8, KeysBody DEF Next, CancelDispatch, ChangeMode, vars

LEMMA KeysInit == Init => KeysInv
BY DEF Init, NoRow, Resting, KeysInv, KeyOK, KeyPlaces, LinkOf

(* Whatever a step does, it is a step of Dispatch or leaves it alone.      *)
DispatchMoves == D!Next \/ DispatchIdle

LEMMA DispatchStep ==
    ASSUME TypeInv, KeysInv, [Next]_vars
    PROVE  DispatchMoves
<1> USE DEF DispatchMoves, D!Next, D!Proceed, D!Enter, D!Decide
<1>0. \A w \in Worker : loc[w].at \in KeyPlaces => loc[w].key \in Attempt
  BY DEF KeysInv, KeyOK
<1>2. ASSUME NEW w \in Worker, Create(w)
      PROVE  DispatchMoves
  <2>1. loc[w].key \in Attempt
    BY <1>0, <1>2 DEF Create, KeyPlaces
  <2> QED
    BY <1>2, <2>1 DEF Create, DispatchIdle
<1>3. ASSUME NEW w \in Worker, InsertDispatch(w)
      PROVE  DispatchMoves
  BY <1>3 DEF InsertDispatch
<1>4. ASSUME NEW w \in Worker, StartDispatch(w)
      PROVE  DispatchMoves
  <2>1. loc[w].key \in Attempt
    BY <1>0, <1>4 DEF StartDispatch, KeyPlaces
  <2> QED
    BY <1>4, <2>1 DEF StartDispatch, DispatchIdle
<1>5. ASSUME NEW w \in Worker, RunDispatch(w)
      PROVE  DispatchMoves
  BY <1>5 DEF RunDispatch
<1>6. ASSUME NEW w \in Worker, AskApproval(w)
      PROVE  DispatchMoves
  <2>1. loc[w].key \in Attempt
    BY <1>0, <1>6 DEF AskApproval, KeyPlaces
  <2> QED
    BY <1>6, <2>1 DEF AskApproval, DispatchIdle
<1>7. ASSUME NEW w \in Worker, StopDispatch(w)
      PROVE  DispatchMoves
  <2>1. loc[w].key \in Attempt
    BY <1>0, <1>7 DEF StopDispatch, KeyPlaces
  <2> QED
    BY <1>7, <2>1 DEF StopDispatch, DispatchIdle
<1>8. ASSUME NEW w \in Worker, DatabaseFails(w) \/ Die(w)
      PROVE  DispatchMoves
  BY <1>8 DEF DatabaseFails, Die, DispatchIdle
<1>9. ASSUME NEW k \in Attempt, CancelDispatch(k)
      PROVE  DispatchMoves
  BY <1>9 DEF CancelDispatch
<1> HIDE DEF DispatchMoves, D!Next, D!Proceed, D!Enter, D!Decide
<1>10. ASSUME NEW w \in Worker, Body(w)
       PROVE  DispatchMoves
  <2>1. \/ Create(w) \/ InsertDispatch(w) \/ StartDispatch(w) \/ RunDispatch(w)
        \/ AskApproval(w) \/ StopDispatch(w) \/ DispatchIdle
    BY <1>10 DEF Body, Begin, Link, Judge, NoteApproval, Reach, ReadJob, SwapJob, Retry, ScheduleRetry,
                 ReadForFailure, RecordFinal, Release, Inspect
  <2> QED
    BY <1>2, <1>3, <1>4, <1>5, <1>6, <1>7, <2>1 DEF DispatchMoves
<1>11. ASSUME NEW w \in Worker, Loop(w)
       PROVE  DispatchIdle
  BY <1>11 DEF Loop, Scan, ListStale, EndTick, RejectProhibited, ClaimJob, Recover
<1>12. ASSUME NEW w \in Worker, NEW j \in Job, CancelJob(w, j)
       PROVE  DispatchIdle
  BY <1>12 DEF CancelJob
<1>13. ASSUME NEW j \in Job, \/ \E c, e : Enqueue(j, c, e)
                             \/ ExpireLease(j) \/ PassBackoff(j) \/ \E c : Deploy(j, c)
       PROVE  DispatchIdle
  BY <1>13 DEF Enqueue, ExpireLease, PassBackoff, Deploy
<1>14. ASSUME NEW w \in Worker, Launch(w)
       PROVE  DispatchIdle
  BY <1>14 DEF Launch
<1>15. ChangeMode => DispatchIdle
  BY DEF ChangeMode
<1>16. UNCHANGED vars => DispatchIdle
  BY DEF vars, DispatchIdle
<1> QED
  BY <1>8, <1>9, <1>10, <1>11, <1>12, <1>13, <1>14, <1>15, <1>16 DEF Next, DispatchMoves

LEMMA DispatchTypes ==
    ASSUME TypeInv, KeysInv, P!TypeInv, P!FlightInv, [Next]_vars
    PROVE  [P!Next]_(P!vars) /\ P!TypeInv' /\ P!FlightInv'
<1>1. [P!Next]_(P!vars)
  BY DispatchStep, SameNext DEF DispatchMoves, DispatchIdle, dispatchVars, P!vars
<1>2. P!TypeInv'
  BY <1>1, DispatchAssumed, P!TypeInvStep
<1>3. P!FlightInv'
  BY <1>1, DispatchAssumed, P!FlightInvStep
<1> QED
  BY <1>1, <1>2, <1>3

(* What the results below start from.                                      *)
QueueInv ==
    TypeInv /\ PathInv /\ CountInv /\ KeysInv /\ P!TypeInv /\ P!FlightInv /\ night \in BOOLEAN

LEMMA QueueStep ==
    ASSUME QueueInv, [Next]_vars
    PROVE  QueueInv'
<1> USE DEF QueueInv
<1>1. TypeInv' /\ PathInv' /\ CountInv' /\ KeysInv'
  BY WorkersStep, JobsStep, PathStep, CountStep, KeysStep DEF TypeInv
<1>2. P!TypeInv' /\ P!FlightInv'
  BY DispatchTypes
<1>3. night' \in BOOLEAN
  <2>1. ChangeMode => night' \in BOOLEAN
    BY DEF ChangeMode
  <2>2. UNCHANGED night => night' \in BOOLEAN
    OBVIOUS
  <2> HIDE DEF QueueInv
  <2> QED
    BY <2>1, <2>2
    DEF Next, vars, OnlyWorker, Loop, Scan, ListStale, EndTick, RejectProhibited, ClaimJob, Recover,
        Body, Begin, Create, InsertDispatch, Link, StartDispatch, RunDispatch, Judge, AskApproval,
        NoteApproval, Reach, ReadJob, SwapJob, Retry, ScheduleRetry, ReadForFailure, RecordFinal,
        Release, Inspect, StopDispatch, DatabaseFails, Launch, Die, CancelJob, CancelDispatch,
        Enqueue, ExpireLease, PassBackoff, Deploy
<1> QED
  BY <1>1, <1>2, <1>3

LEMMA QueueInit == Init => QueueInv
<1> SUFFICES ASSUME Init PROVE QueueInv
  OBVIOUS
<1>1. P!TypeInv /\ P!FlightInv
  <2>1. P!Init
    BY SameInit DEF Init
  <2> QED
    BY <2>1, DispatchAssumed, P!TypeInvInit, P!FlightInvInit
<1>2. night \in BOOLEAN
  BY DEF Init
<1> QED
  BY <1>1, <1>2, TypeInvInit, PathInit, CountInit, KeysInit DEF QueueInv

LEMMA QueueAlways == Spec => []QueueInv
<1>1. QueueInv /\ [Next]_vars => QueueInv'
  BY QueueStep
<1> QED
  BY <1>1, QueueInit, PTL DEF Spec

(* Every reachable state is well typed: however many processes live at     *)
(* once, attempt_count ends within the bound the keys are drawn from.      *)
THEOREM QueueTyping == Spec => []TypeOK
<1>1. QueueInv => TypeOK
  <2> SUFFICES ASSUME QueueInv PROVE TypeOK
    OBVIOUS
  <2> USE DEF QueueInv
  <2>1. /\ job \in [Job -> JobRow_] /\ kind \in [Job -> Kind] /\ loc \in [Worker -> Locals_]
        /\ \A j \in Job : job[j].attempt \in AttemptCount /\ job[j].link \in Attempt \cup {NoKey}
        /\ \A w \in Worker : /\ loc[w].tries \in AttemptCount /\ loc[w].key \in Attempt \cup {NoKey}
                             /\ loc[w].todo \subseteq Item_
                             /\ \A i \in loc[w].todo : i.link \in Attempt \cup {NoKey}
    BY CountsAreBounded, LocalsAre DEF KeysInv, KeyOK, LinkOf, TypeInv, JobsOK
  <2>2. job \in [Job -> JobRow]
    <3> SUFFICES ASSUME NEW j \in Job PROVE job[j] \in JobRow
      BY <2>1
    <3> QED
      BY <2>1 DEF JobRow_, JobRow
  <2>3. loc \in [Worker -> Locals]
    <3> SUFFICES ASSUME NEW w \in Worker PROVE loc[w] \in Locals
      BY <2>1
    <3>1. loc[w].todo \subseteq Item
      BY <2>1 DEF Item_, Item
    <3> QED
      BY <2>1, <3>1 DEF Locals_, Locals
  <2>4. P!TypeOK
    BY DispatchAssumed, P!TypeInvImpliesTypeOK
  <2>5. D!TypeOK
    BY <2>4 DEF D!TypeOK, P!TypeOK, D!DispatchStatus, P!DispatchStatus, D!Startable, P!Startable, D!Busy, P!Busy,
                D!Outcomes, P!Outcomes, D!Closed, P!Closed, D!ApprovalStatus, P!ApprovalStatus,
                D!Deadline, P!Deadline, D!CallRecord, P!CallRecord, D!CallStep, P!CallStep
  <2> QED
    BY <2>1, <2>2, <2>3, <2>5 DEF TypeOK
<1> QED
  BY <1>1, QueueAlways, PTL

(* Every behaviour of the workers is, in the tables of the dispatch, a     *)
(* behaviour of Dispatch: what is proved there holds here.                 *)
THEOREM DispatchesAreDispatch == Spec => D!Init /\ [][D!Next]_dispatchVars
<1>1. QueueInv /\ [Next]_vars => [D!Next]_dispatchVars
  BY DispatchStep DEF QueueInv, DispatchMoves, DispatchIdle
<1>2. Init => D!Init
  BY DEF Init
<1> QED
  BY <1>1, <1>2, QueueAlways, PTL DEF Spec

(* Two workers never run one dispatch at once, even when each holds the    *)
(* job for its own; a gated one runs only on an approval; and a dispatch   *)
(* shows the outcome of its last attempt.                                  *)
THEOREM DispatchKeepsItsPromises ==
    Spec => [](D!OneCallInFlight /\ D!ExecutionNeedsApproval /\ D!OutcomeIsRecorded)
<1>1. QueueInv /\ P!GateInv /\ P!RecordInv /\ [Next]_vars => P!GateInv' /\ P!RecordInv'
  <2> SUFFICES ASSUME QueueInv, P!GateInv, P!RecordInv, [Next]_vars
               PROVE  P!GateInv' /\ P!RecordInv'
    OBVIOUS
  <2>1. P!TypeInv /\ P!FlightInv /\ [P!Next]_(P!vars)
    BY DispatchTypes DEF QueueInv
  <2> QED
    BY <2>1, DispatchAssumed, P!GateInvStep, P!RecordInvStep
<1>2. Init => P!GateInv /\ P!RecordInv
  BY SameInit, DispatchAssumed, P!GateInvInit, P!RecordInvInit DEF Init
<1>3. QueueInv => D!OneCallInFlight
  BY DEF QueueInv, P!FlightInv, P!OneCallInFlight, P!InFlight, D!OneCallInFlight, D!InFlight
<1>4. P!GateInv => D!ExecutionNeedsApproval
  BY DEF P!GateInv, P!Cleared, P!Granted, D!ExecutionNeedsApproval, D!Gated, D!Granted
<1>5. P!RecordInv => D!OutcomeIsRecorded
  BY DEF P!RecordInv, P!OutcomeIsRecorded, P!Outcomes, D!OutcomeIsRecorded, D!Outcomes
<1> QED
  BY <1>1, <1>2, <1>3, <1>4, <1>5, QueueAlways, PTL DEF Spec

-----------------------------------------------------------------------------
(* A job is earned once its owner was asked or some dispatch of it         *)
(* succeeded, and then stays so.                                           *)
Earned(j) == job[j].asked \/ \E k \in Attempt : k[1] = j /\ status[k] = "succeeded"

Drafts == {"validating", "draft_saved"}

(* A worker about to present its job as a draft or to the owner.           *)
Presents(l) ==
    \/ l.at = "reaching"
    \/ l.at \in {"reading", "swapping"} /\ l.goal \in Drafts \cup {"awaiting_approval"}

EarnedInv ==
    /\ \A j \in Job : job[j].status \in Drafts => Earned(j)
    /\ \A w \in Worker : Presents(loc[w]) => Earned(loc[w].job)

LEMMA SuccessStays ==
    ASSUME QueueInv, [Next]_vars, NEW k \in Attempt, status[k] = "succeeded"
    PROVE  status'[k] = "succeeded"
<1>1. [P!Next]_(P!vars)
  BY DispatchTypes DEF QueueInv
<1>2. P!Legal(status[k], status'[k])
  BY <1>1, DispatchAssumed, P!StatusMoves DEF QueueInv
<1>3. status[k] \in P!DispatchStatus
  BY DEF QueueInv, P!TypeInv, P!DispatchesOK
<1> QED
  BY <1>2, <1>3 DEF P!Legal, P!Transitions, P!DispatchStatus, P!Startable, P!Retryable, P!Outcomes,
                    P!Closed, P!Busy

LEMMA EarnedStays ==
    ASSUME QueueInv, [Next]_vars, NEW j \in Job, Earned(j)
    PROVE  Earned(j)'
<1>1. ASSUME job[j].asked
      PROVE  job'[j].asked
  <2>1. ASSUME NEW w \in Worker, Body(w) \/ DatabaseFails(w)
        PROVE  job'[j].asked
    BY <1>1, <2>1, RowWrites DEF QueueInv, Row, Sets
  <2> QED
    BY <1>1, <2>1, RowsOtherwise DEF QueueInv
<1>2. ASSUME NEW k \in Attempt, k[1] = j, status[k] = "succeeded"
      PROVE  Earned(j)'
  BY <1>2, SuccessStays DEF Earned
<1> QED
  BY <1>1, <1>2 DEF Earned

(* A worker presents a job it presented before, or one that is earned now. *)
LEMMA PresentsBody ==
    ASSUME QueueInv, [Next]_vars, NEW w \in Worker, Body(w) \/ DatabaseFails(w)
    PROVE  /\ Others(w)
           /\ Presents(loc'[w]) =>
                 \/ Presents(loc[w]) /\ loc'[w].job = loc[w].job
                 \/ Earned(loc[w].job)'
<1> DEFINE l == loc[w]
           i == loc[w].job
           Goal == /\ Others(w)
                   /\ Presents(loc'[w]) =>
                         \/ Presents(loc[w]) /\ loc'[w].job = loc[w].job
                         \/ Earned(loc[w].job)'
<1> SUFFICES Goal
  OBVIOUS
<1>0. /\ TypeInv /\ KeyOK(l) /\ Working \subseteq Place
      /\ l.at \in Working => i \in Job
      /\ l.at \in KeyPlaces => l.key \in Attempt /\ l.key[1] = i
  BY LocalsAre, DispatchAssumed, Sorts DEF QueueInv, KeysInv, KeyOK, LinkOf
<1>1. ASSUME NEW at, NEW k, NEW p, NEW g, NEW s, NEW n, Moves(w, at, k, p, g, s, n),
             at \in {"reading", "swapping"} => Presents(l) \/ g \notin Drafts \cup {"awaiting_approval"},
             at = "reaching" => Presents(l)
      PROVE  Goal
  BY <1>1 DEF Moves, Presents
<1>18. ASSUME NEW at \in {"creating", "asking", "begin", "recording", "releasing", "failing", "scheduling"},
              NEW k, NEW p, NEW g, NEW s, NEW n, Moves(w, at, k, p, g, s, n)
       PROVE  Goal
  BY <1>1, <1>18
<1>2. ASSUME Rests(w)
      PROVE  Goal
  BY <1>2 DEF Rests, IsResting, Presents
<1>3. ASSUME Fail(w)
      PROVE  Goal
  <2>1. Moves(w, "failing", l.key, "fail", l.goal, l.seen, 0)
    BY <1>0, <1>3, FailStumbles DEF Stumbles
  <2> QED
    BY <1>1, <2>1
<1>4. ASSUME UNCHANGED loc
      PROVE  Goal
  BY <1>4 DEF Others
<1>5. ASSUME NEW at \in Place \ {"reaching", "reading", "swapping"}, Goto(w, At(w, at))
      PROVE  Goal
  <2>1. Moves(w, at, l.key, l.path, l.goal, l.seen, l.tries)
    BY <1>0, <1>5, Edits DEF Steps
  <2> QED
    BY <1>1, <2>1
<1>6. ASSUME Goto(w, At(w, "reaching")), NEW j \in Job, j = l.job, Earned(j)'
      PROVE  Goal
  <2>1. Moves(w, "reaching", l.key, l.path, l.goal, l.seen, l.tries)
    BY <1>0, <1>6, Edits, Sorts DEF Steps
  <2>2. Others(w) /\ loc'[w].job = j
    BY <1>6, <2>1 DEF Moves
  <2> QED
    BY <1>6, <2>2
<1>7. CASE Begin(w)
  <2> DEFINE key == <<l.job, Row(w).attempt>>
             link == Row(w).link
  <2>1. "creating" \in Place /\ "asking" \in Place
    BY <1>0, Sorts
  <2>2. \/ Fail(w)
        \/ \E p : Goto(w, [At(w, "creating") EXCEPT !.key = key, !.path = p])
        \/ Goto(w, [At(w, "asking") EXCEPT !.key = link, !.path = "defer"])
    BY <1>7 DEF Begin
  <2> HIDE DEF key, link
  <2>3. \/ Fail(w)
        \/ \E p : Moves(w, "creating", key, p, l.goal, l.seen, l.tries)
        \/ Moves(w, "asking", link, "defer", l.goal, l.seen, l.tries)
    BY <1>0, <2>1, <2>2, Edits
  <2> HIDE DEF Goal
  <2>4. ASSUME NEW p, Moves(w, "creating", key, p, l.goal, l.seen, l.tries)
        PROVE  Goal
    BY <1>18, <2>4
  <2>5. CASE Moves(w, "asking", link, "defer", l.goal, l.seen, l.tries)
    BY <1>18, <2>5
  <2> QED
    BY <1>3, <2>3, <2>4, <2>5
<1>8. CASE Create(w) \/ InsertDispatch(w) \/ Link(w) \/ StartDispatch(w) \/ RunDispatch(w)
              \/ DatabaseFails(w)
  <2>1. \/ UNCHANGED loc \/ Fail(w)
        \/ \E at \in {"inserting", "linking", "asking", "starting", "dispatching", "judging"} :
              Goto(w, At(w, at))
    BY <1>8 DEF Create, InsertDispatch, Link, StartDispatch, RunDispatch, DatabaseFails
  <2>2. {"inserting", "linking", "asking", "starting", "dispatching", "judging"} \subseteq Place
    BY <1>0, Sorts
  <2> HIDE DEF Goal
  <2> QED
    BY <1>3, <1>4, <1>5, <2>1, <2>2
<1>9. CASE Judge(w) \/ Inspect(w)
  <2>0. l.at \in KeyPlaces /\ i \in Job
    BY <1>0, <1>9, Sorts DEF Judge, Inspect, KeyPlaces
  <2>1. \/ status[l.key] = "succeeded" /\ Goto(w, At(w, "reaching"))
        \/ \E at \in {"failing", "retrying", "releasing", "stopping"} : Goto(w, At(w, at))
    BY <1>9 DEF Judge, Inspect, AfterResult, AfterInspection
  <2>2. {"failing", "retrying", "releasing", "stopping"} \subseteq Place
    BY <1>0, Sorts
  <2>3. PICK j \in Job : j = l.job
    BY <2>0
  <2>4. ASSUME status[l.key] = "succeeded"
        PROVE  Earned(j)'
    <3>1. Earned(j)
      BY <1>0, <2>0, <2>3, <2>4 DEF Earned
    <3> QED
      BY <3>1, EarnedStays
  <2> HIDE DEF Goal
  <2> QED
    BY <1>5, <1>6, <2>1, <2>2, <2>3, <2>4
<1>10. CASE AskApproval(w)
  BY <1>0, <1>5, <1>10, Sorts DEF AskApproval
<1>11. CASE NoteApproval(w)
  <2>1. l.at \in Working /\ SetRow(w, [Row(w) EXCEPT !.asked = TRUE]) /\ Goto(w, At(w, "reaching"))
    BY <1>11, Sorts DEF NoteApproval
  <2>2. Sets(i, Row(w).status, Row(w).link, Row(w).attempt, TRUE)
    BY <1>0, <2>1, RowEdits
  <2>3. PICK j \in Job : j = l.job
    BY <1>0, <2>1
  <2>4. Earned(j)'
    BY <2>2, <2>3 DEF Sets, Earned
  <2> HIDE DEF Goal
  <2> QED
    BY <1>6, <2>1, <2>3, <2>4
<1>12. CASE Reach(w)
  <2>1. l.at = "reaching"
    BY <1>12 DEF Reach
  <2>2. \/ \E g : Goto(w, [At(w, "reading") EXCEPT !.goal = g])
        \/ Goto(w, At(w, "releasing"))
    BY <1>12 DEF Reach
  <2>3. {"reading", "releasing"} \subseteq Place
    BY <1>0, Sorts
  <2>4. \/ \E g : Moves(w, "reading", l.key, l.path, g, l.seen, l.tries)
        \/ Goto(w, At(w, "releasing"))
    BY <1>0, <2>2, <2>3, Edits
  <2>5. Presents(l)
    BY <2>1 DEF Presents
  <2> HIDE DEF Goal
  <2> QED
    BY <1>1, <1>5, <2>3, <2>4, <2>5
<1>13. CASE ReadJob(w) \/ SwapJob(w)
  <2>1. l.at \in {"reading", "swapping"} /\ "swapping" \in Place
    BY <1>0, <1>13, Sorts DEF ReadJob, SwapJob
  <2>2. \/ Moved(w) \/ Refused(w)
        \/ \E s : Goto(w, [At(w, "swapping") EXCEPT !.seen = s])
    BY <1>13 DEF ReadJob, SwapJob
  <2>3. Presents(l) \/ l.goal \notin Drafts \cup {"awaiting_approval"}
    BY <2>1 DEF Presents
  <2>4. l.goal \in Drafts => Presents(l)
    BY <2>1 DEF Presents
  <2> HIDE DEF Goal
  <2>5. ASSUME NEW s, Goto(w, [At(w, "swapping") EXCEPT !.seen = s])
        PROVE  Goal
    <3>1. Moves(w, "swapping", l.key, l.path, l.goal, s, l.tries)
      BY <1>0, <2>1, <2>5, Edits
    <3> QED
      BY <1>1, <2>3, <3>1
  <2>6. CASE Refused(w)
    <3>1. Rests(w) \/ Steps(w, "releasing") \/ Steps(w, "recording") \/ Stumbles(w)
      BY <1>0, <2>6, RefusedEffect
    <3> QED
      BY <1>2, <1>18, <3>1 DEF Steps, Stumbles
  <2>7. CASE Moved(w)
    <3>1. \/ Rests(w) \/ Steps(w, "begin") \/ Steps(w, "recording") \/ Steps(w, "releasing")
          \/ /\ l.goal \in Drafts
             /\ Moves(w, "reading", l.key, l.path, "draft_saved", l.seen, l.tries)
          \/ /\ l.goal \in Drafts
             /\ Moves(w, "reading", l.key, l.path, "awaiting_approval", l.seen, l.tries)
      BY <1>0, <2>7, MovedEffect DEF Drafts
    <3>2. Steps(w, "begin") \/ Steps(w, "recording") \/ Steps(w, "releasing") => Goal
      BY <1>18 DEF Steps
    <3>3. ASSUME NEW g, l.goal \in Drafts, Moves(w, "reading", l.key, l.path, g, l.seen, l.tries)
          PROVE  Goal
      BY <1>1, <2>4, <3>3
    <3> QED
      BY <1>2, <3>1, <3>2, <3>3
  <2> QED
    BY <2>2, <2>5, <2>6, <2>7
<1>14. CASE ScheduleRetry(w) \/ Release(w)
  BY <1>0, <1>2, <1>14, DoneRests DEF ScheduleRetry, Release
<1>15. CASE RecordFinal(w)
  BY <1>0, <1>5, <1>15, Sorts DEF RecordFinal
<1>16. CASE Retry(w) \/ ReadForFailure(w)
  <2>1. PICK n : \/ Goto(w, [At(w, "scheduling") EXCEPT !.path = "fail", !.tries = n])
                 \/ Goto(w, [At(w, "failing") EXCEPT !.path = "fail", !.tries = n])
                 \/ Goto(w, [At(w, "recording") EXCEPT !.path = "fail", !.tries = n])
                 \/ Goto(w, [At(w, "reading") EXCEPT !.path = "fail", !.tries = n,
                                                     !.goal = "failed_safely"])
    BY <1>16 DEF Retry, ReadForFailure
  <2>2. {"scheduling", "failing", "recording", "reading"} \subseteq Place
    BY <1>0, Sorts
  <2>3. \/ \E at \in {"scheduling", "failing", "recording"} :
              Moves(w, at, l.key, "fail", l.goal, l.seen, n)
        \/ Moves(w, "reading", l.key, "fail", "failed_safely", l.seen, n)
    BY <1>0, <2>1, <2>2, Edits
  <2>4. "failed_safely" \notin Drafts \cup {"awaiting_approval"}
    BY DEF Drafts
  <2> HIDE DEF Goal
  <2> QED
    BY <1>1, <2>3, <2>4
<1>17. CASE StopDispatch(w)
  <2>1. \/ Goto(w, [At(w, "reading") EXCEPT !.goal = "failed_safely"])
        \/ Goto(w, At(w, "retrying"))
    BY <1>17 DEF StopDispatch
  <2>2. "reading" \in Place /\ "retrying" \in Place
    BY <1>0, Sorts
  <2>3. \/ Moves(w, "reading", l.key, l.path, "failed_safely", l.seen, l.tries)
        \/ Goto(w, At(w, "retrying"))
    BY <1>0, <2>1, <2>2, Edits
  <2>4. "failed_safely" \notin Drafts \cup {"awaiting_approval"}
    BY DEF Drafts
  <2> HIDE DEF Goal
  <2> QED
    BY <1>1, <1>5, <2>2, <2>3, <2>4
<1> HIDE DEF Goal
<1> QED
  BY <1>7, <1>8, <1>9, <1>10, <1>11, <1>12, <1>13, <1>14, <1>15, <1>16, <1>17 DEF Body

LEMMA OthersStay ==
    ASSUME TypeInv, NEW v \in Worker, Body(v) \/ DatabaseFails(v), NEW w \in Worker \ {v}
    PROVE  loc'[w] = loc[w]
<1>1. ASSUME NEW l, Goto(v, l)
      PROVE  loc'[w] = loc[w]
  BY <1>1 DEF Goto, TypeInv, WorkersOK
<1>2. Done(v) \/ Fail(v) \/ Moved(v) \/ Refused(v) => loc'[w] = loc[w]
  BY <1>1 DEF Done, Fail, Moved, Refused
<1>3. UNCHANGED loc => loc'[w] = loc[w]
  OBVIOUS
<1> QED
  BY <1>1, <1>2, <1>3
  DEF Body, Begin, Create, InsertDispatch, Link, StartDispatch, RunDispatch, DatabaseFails, Judge,
      AskApproval, NoteApproval, Reach, ReadJob, SwapJob, Retry, ScheduleRetry, ReadForFailure,
      RecordFinal, Release, Inspect, StopDispatch

LEMMA PresentsOtherwise ==
    ASSUME TypeInv, [Next]_vars, NEW w \in Worker, Presents(loc'[w])
    PROVE  \/ loc'[w] = loc[w]
           \/ Body(w) \/ DatabaseFails(w)
<1> DEFINE Goal == loc'[w] = loc[w] \/ Body(w) \/ DatabaseFails(w)
<1> SUFFICES Goal
  OBVIOUS
<1>1. CASE UNCHANGED loc
  BY <1>1
<1>2. ASSUME NEW v \in Worker, Others(v), v = w => ~Presents(loc'[v])
      PROVE  Goal
  BY <1>2 DEF Others
<1>3. ASSUME NEW v \in Worker, NEW at \in Between, NEW phase, NEW todo, Goto(v, Resting(at, phase, todo))
      PROVE  Goal
  <2>1. Others(v) /\ IsResting(loc'[v], at, phase, todo)
    BY <1>3, RestsThere
  <2> QED
    BY <1>2, <1>3, <2>1 DEF IsResting, Presents, Between
<1>4. ASSUME NEW v \in Worker, NEW j, NEW at, NEW k, NEW p, NEW g, Takes(v, at, j, k, p, g),
             at \in {"reading", "begin", "retrying", "inspecting"},
             at = "reading" => g \in {"preparing", "rejected"}
      PROVE  Goal
  BY <1>2, <1>4 DEF Takes, Presents, Drafts
<1>5. ASSUME NEW v \in Worker, loc[v].at = "sweep", Skips(v)
      PROVE  Goal
  BY <1>2, <1>5 DEF Skips, Presents
<1>6. ASSUME NEW v \in Worker, Loop(v)
      PROVE  Goal
  <2>1. CASE Scan(v) \/ ListStale(v) \/ EndTick(v)
    BY <1>3, <2>1 DEF Scan, ListStale, EndTick, Between
  <2>2. ASSUME NEW j \in Job, RejectProhibited(v, j)
        PROVE  Goal
    <3>1. Goto(v, [At(v, "reading") EXCEPT !.job = j, !.path = "prohibit", !.goal = "rejected"])
      BY <2>2 DEF RejectProhibited
    <3>2. Takes(v, "reading", j, loc[v].key, "prohibit", "rejected")
      BY <3>1, ListEdits, Sorts
    <3> QED
      BY <1>4, <3>2
  <2>3. ASSUME NEW j \in Job, ClaimJob(v, j)
        PROVE  Goal
    BY <1>4, <1>5, <2>3, ClaimEffect
  <2>4. ASSUME NEW i \in loc[v].todo, Recover(v, i)
        PROVE  Goal
    BY <1>4, <1>5, <2>4, RecoverEffect
  <2> QED
    BY <1>6, <2>1, <2>2, <2>3, <2>4 DEF Loop
<1>7. ASSUME NEW v \in Worker, Launch(v) \/ Die(v)
      PROVE  Goal
  BY <1>3, <1>7 DEF Launch, Die, Between
<1>8. ASSUME NEW v \in Worker, NEW j \in Job, CancelJob(v, j)
      PROVE  Goal
  <2>1. Others(v) /\ ~Presents(loc'[v])
    BY <1>8, CommandEffect DEF Presents, Drafts
  <2> QED
    BY <1>2, <2>1
<1>9. ASSUME NEW v \in Worker \ {w}, Body(v) \/ DatabaseFails(v)
      PROVE  loc'[w] = loc[w]
  BY <1>9, OthersStay
<1> QED
  BY <1>1, <1>6, <1>7, <1>8, <1>9
  DEF Next, CancelDispatch, Enqueue, ExpireLease, PassBackoff, Deploy, ChangeMode, vars

LEMMA EarnedStep ==
    ASSUME QueueInv, EarnedInv, [Next]_vars
    PROVE  EarnedInv'
<1>0. TypeInv /\ TypeInv'
  BY QueueStep DEF QueueInv
<1>1. ASSUME NEW j \in Job, job'[j].status \in Drafts
      PROVE  Earned(j)'
  <2>1. CASE job[j].status \in Drafts
    BY <2>1, EarnedStays DEF EarnedInv
  <2>2. CASE job[j].status \notin Drafts
    <3>1. PICK w \in Worker : Body(w) \/ DatabaseFails(w)
      BY <1>0, <1>1, <2>2, RowsOtherwise DEF Drafts
    <3>2. j = loc[w].job /\ SwapJob(w) /\ job'[j].status = loc[w].goal
      BY <1>0, <1>1, <2>2, <3>1, RowWrites DEF Row, Sets
    <3>3. Presents(loc[w])
      BY <1>1, <3>2 DEF Presents, SwapJob
    <3>4. Earned(j)
      BY <3>2, <3>3 DEF EarnedInv
    <3> QED
      BY <3>4, EarnedStays
  <2> QED
    BY <2>1, <2>2
<1>2. ASSUME NEW w \in Worker, Presents(loc'[w])
      PROVE  Earned(loc[w].job)'
  <2>1. PICK j \in Job : j = loc'[w].job
    <3>1. loc'[w].at \in Working
      BY <1>2, Sorts DEF Presents
    <3>2. LocalsOK(loc'[w])
      BY <1>0 DEF TypeInv, WorkersOK
    <3> QED
      BY <3>1, <3>2 DEF LocalsOK
  <2>2. ASSUME Presents(loc[w]), loc[w].job = j
        PROVE  Earned(j)'
    BY <2>2, EarnedStays DEF EarnedInv
  <2>3. CASE loc'[w] = loc[w]
    <3>1. Presents(loc[w]) /\ loc[w].job = j
      BY <1>2, <2>1, <2>3
    <3>2. Earned(j)'
      BY <2>2, <3>1
    <3> QED
      BY <2>1, <3>2
  <2>4. CASE Body(w) \/ DatabaseFails(w)
    <3>1. \/ Presents(loc[w]) /\ loc'[w].job = loc[w].job
          \/ Earned(loc[w].job)'
      BY <1>2, <2>4, PresentsBody
    <3>2. Presents(loc[w]) /\ loc'[w].job = loc[w].job => Earned(j)'
      BY <2>1, <2>2
    <3> QED
      BY <2>1, <3>1, <3>2
  <2> QED
    BY <1>0, <1>2, <2>3, <2>4, PresentsOtherwise
<1> QED
  BY <1>1, <1>2 DEF EarnedInv

LEMMA EarnedInit == Init => EarnedInv
BY DEF Init, NoRow, Resting, EarnedInv, Presents, Drafts

(* A job is presented as a ready draft only if some dispatch of it         *)
(* succeeded, or if it was deferred to the owner's decision, whatever      *)
(* crashes, retries and recoveries its processes go through.               *)
THEOREM DraftsStayEarned == Spec => []DraftsAreEarned
<1>1. QueueInv /\ EarnedInv /\ [Next]_vars => EarnedInv'
  BY EarnedStep
<1>2. EarnedInv => DraftsAreEarned
  BY DEF EarnedInv, Earned, Drafts, DraftsAreEarned
<1> QED
  BY <1>1, <1>2, EarnedInit, QueueAlways, PTL DEF Spec

-----------------------------------------------------------------------------
(* Every step of a worker on its job, as an edit of its locals.            *)
LEMMA Turns ==
    ASSUME TypeInv, NEW w \in Worker
    PROVE  LET l == loc[w]
               r == Row(w)
           IN  /\ Begin(w) => \/ Stumbles(w)
                              \/ \E p : Moves(w, "creating", <<l.job, r.attempt>>, p, l.goal, l.seen, l.tries)
                              \/ Moves(w, "asking", r.link, "defer", l.goal, l.seen, l.tries)
               /\ Create(w) => Steps(w, "inserting") \/ Steps(w, "linking") \/ Stumbles(w)
               /\ InsertDispatch(w) => Steps(w, "linking") \/ Stumbles(w)
               /\ Link(w) => Steps(w, "asking") \/ Steps(w, "starting")
               /\ StartDispatch(w) => Steps(w, "dispatching") \/ Stumbles(w)
               /\ RunDispatch(w) => UNCHANGED loc \/ Steps(w, "judging") \/ Stumbles(w)
               /\ DatabaseFails(w) => Stumbles(w)
               /\ Judge(w) => Steps(w, AfterResult(status[l.key]))
               /\ AskApproval(w) => Steps(w, "noting")
               /\ NoteApproval(w) => Steps(w, "reaching")
               /\ Reach(w) => \/ \E g : Moves(w, "reading", l.key, l.path, g, l.seen, l.tries)
                              \/ Steps(w, "releasing")
               /\ Retry(w) => \/ Moves(w, "scheduling", l.key, "fail", l.goal, l.seen, r.attempt + 1)
                              \/ Moves(w, "failing", l.key, "fail", l.goal, l.seen, r.attempt + 1)
               /\ ScheduleRetry(w) \/ Release(w) => Rests(w)
               /\ ReadForFailure(w) =>
                     \E n : /\ n = (IF l.tries = 0 THEN r.attempt ELSE l.tries)
                            /\ \/ Moves(w, "recording", l.key, "fail", l.goal, l.seen, n)
                               \/ Moves(w, "reading", l.key, "fail", "failed_safely", l.seen, n)
               /\ RecordFinal(w) => Steps(w, "releasing")
               /\ Inspect(w) => Steps(w, AfterInspection(status[l.key]))
               /\ StopDispatch(w) =>
                     \/ l.path = "stop"
                           /\ Moves(w, "reading", l.key, l.path, "failed_safely", l.seen, l.tries)
                     \/ l.path # "stop" /\ Steps(w, "retrying")
<1> DEFINE l == loc[w]
           r == Row(w)
<1>0. Working \subseteq Place
  BY Sorts
<1>1. ASSUME NEW at \in Working, Goto(w, At(w, at))
      PROVE  Steps(w, at)
  BY <1>0, <1>1, Edits
<1>2. Fail(w) => Stumbles(w)
  BY FailStumbles
<1>3. Begin(w) => \/ Stumbles(w)
                  \/ \E p : Moves(w, "creating", <<l.job, r.attempt>>, p, l.goal, l.seen, l.tries)
                  \/ Moves(w, "asking", r.link, "defer", l.goal, l.seen, l.tries)
  <2> DEFINE key == <<l.job, r.attempt>>
             link == r.link
  <2>1. Begin(w) => \/ Fail(w)
                    \/ \E p : Goto(w, [At(w, "creating") EXCEPT !.key = key, !.path = p])
                    \/ Goto(w, [At(w, "asking") EXCEPT !.key = link, !.path = "defer"])
    BY DEF Begin
  <2>2. "creating" \in Place /\ "asking" \in Place
    BY Sorts
  <2> HIDE DEF key, link
  <2>3. Begin(w) => \/ Stumbles(w)
                    \/ \E p : Moves(w, "creating", key, p, l.goal, l.seen, l.tries)
                    \/ Moves(w, "asking", link, "defer", l.goal, l.seen, l.tries)
    BY <1>2, <2>1, <2>2, Edits
  <2> QED
    BY <2>3 DEF key, link
<1>4. /\ Create(w) => Steps(w, "inserting") \/ Steps(w, "linking") \/ Stumbles(w)
      /\ InsertDispatch(w) => Steps(w, "linking") \/ Stumbles(w)
      /\ Link(w) => Steps(w, "asking") \/ Steps(w, "starting")
      /\ StartDispatch(w) => Steps(w, "dispatching") \/ Stumbles(w)
      /\ RunDispatch(w) => UNCHANGED loc \/ Steps(w, "judging") \/ Stumbles(w)
      /\ DatabaseFails(w) => Stumbles(w)
  <2>1. {"inserting", "linking", "asking", "starting", "dispatching", "judging"} \subseteq Working
    BY Sorts
  <2>2. /\ Create(w) => Goto(w, At(w, "inserting")) \/ Goto(w, At(w, "linking")) \/ Fail(w)
        /\ InsertDispatch(w) => Goto(w, At(w, "linking")) \/ Fail(w)
        /\ Link(w) => Goto(w, At(w, "asking")) \/ Goto(w, At(w, "starting"))
        /\ StartDispatch(w) => Goto(w, At(w, "dispatching")) \/ Fail(w)
        /\ RunDispatch(w) => UNCHANGED loc \/ Goto(w, At(w, "judging")) \/ Fail(w)
        /\ DatabaseFails(w) => Fail(w)
    BY DEF Create, InsertDispatch, Link, StartDispatch, RunDispatch, DatabaseFails
  <2> QED
    BY <1>1, <1>2, <2>1, <2>2
<1>5. /\ Judge(w) => Steps(w, AfterResult(status[l.key]))
      /\ Inspect(w) => Steps(w, AfterInspection(status[l.key]))
  <2>1. AfterResult(status[l.key]) \in Working /\ AfterInspection(status[l.key]) \in Working
    BY Sorts DEF AfterResult, AfterInspection
  <2> QED
    BY <1>1, <2>1 DEF Judge, Inspect
<1>6. /\ AskApproval(w) => Steps(w, "noting")
      /\ NoteApproval(w) => Steps(w, "reaching")
      /\ RecordFinal(w) => Steps(w, "releasing")
  BY <1>1, Sorts DEF AskApproval, NoteApproval, RecordFinal
<1>7. Reach(w) => \/ \E g : Moves(w, "reading", l.key, l.path, g, l.seen, l.tries)
                  \/ Steps(w, "releasing")
  <2>1. Reach(w) => \/ \E g : Goto(w, [At(w, "reading") EXCEPT !.goal = g])
                    \/ Goto(w, At(w, "releasing"))
    BY DEF Reach
  <2> QED
    BY <1>1, <2>1, Edits, Sorts
<1>8. Retry(w) => \/ Moves(w, "scheduling", l.key, "fail", l.goal, l.seen, r.attempt + 1)
                  \/ Moves(w, "failing", l.key, "fail", l.goal, l.seen, r.attempt + 1)
  <2> DEFINE n == r.attempt + 1
  <2>1. Retry(w) => \/ Goto(w, [At(w, "scheduling") EXCEPT !.path = "fail", !.tries = n])
                    \/ Goto(w, [At(w, "failing") EXCEPT !.path = "fail", !.tries = n])
    BY DEF Retry
  <2> HIDE DEF n
  <2>2. Retry(w) => \/ Moves(w, "scheduling", l.key, "fail", l.goal, l.seen, n)
                    \/ Moves(w, "failing", l.key, "fail", l.goal, l.seen, n)
    BY <2>1, Edits, Sorts
  <2> QED
    BY <2>2 DEF n
<1>9. ScheduleRetry(w) \/ Release(w) => Rests(w)
  BY DoneRests DEF ScheduleRetry, Release
<1>10. ReadForFailure(w) =>
          \E n : /\ n = (IF l.tries = 0 THEN r.attempt ELSE l.tries)
                 /\ \/ Moves(w, "recording", l.key, "fail", l.goal, l.seen, n)
                    \/ Moves(w, "reading", l.key, "fail", "failed_safely", l.seen, n)
  <2> DEFINE n == IF l.tries = 0 THEN r.attempt ELSE l.tries
  <2>1. ReadForFailure(w) =>
           \/ Goto(w, [At(w, "recording") EXCEPT !.path = "fail", !.tries = n])
           \/ Goto(w, [At(w, "reading") EXCEPT !.path = "fail", !.tries = n, !.goal = "failed_safely"])
    BY DEF ReadForFailure
  <2> HIDE DEF n
  <2>2. ReadForFailure(w) =>
           \/ Moves(w, "recording", l.key, "fail", l.goal, l.seen, n)
           \/ Moves(w, "reading", l.key, "fail", "failed_safely", l.seen, n)
    BY <2>1, Edits, Sorts
  <2> QED
    BY <2>2 DEF n
<1>11. StopDispatch(w) =>
          \/ l.path = "stop" /\ Moves(w, "reading", l.key, l.path, "failed_safely", l.seen, l.tries)
          \/ l.path # "stop" /\ Steps(w, "retrying")
  <2>1. StopDispatch(w) =>
           \/ l.path = "stop" /\ Goto(w, [At(w, "reading") EXCEPT !.goal = "failed_safely"])
           \/ l.path # "stop" /\ Goto(w, At(w, "retrying"))
    BY DEF StopDispatch
  <2> QED
    BY <1>1, <2>1, Edits, Sorts
<1> QED
  BY <1>3, <1>4, <1>5, <1>6, <1>7, <1>8, <1>9, <1>10, <1>11

(* The two halves of a change of status.                                   *)
LEMMA Swaps ==
    ASSUME TypeInv, PathInv, NEW w \in Worker, ReadJob(w) \/ SwapJob(w)
    PROVE  LET l == loc[w] IN
           /\ l.at \in {"reading", "swapping"}
           /\ \/ Rests(w) \/ Stumbles(w) \/ Steps(w, "releasing")
              \/ \E s : Moves(w, "swapping", l.key, l.path, l.goal, s, l.tries)
              \/ SwapJob(w) /\ job'[l.job].status = "preparing" /\ Steps(w, "begin")
              \/ l.path = "fail" /\ Steps(w, "recording")
              \/ l.path # "fail" /\ \E g : Moves(w, "reading", l.key, l.path, g, l.seen, l.tries)
<1> DEFINE l == loc[w]
           Some == \/ Rests(w) \/ Stumbles(w) \/ Steps(w, "releasing")
                   \/ \E s : Moves(w, "swapping", l.key, l.path, l.goal, s, l.tries)
                   \/ SwapJob(w) /\ job'[l.job].status = "preparing" /\ Steps(w, "begin")
                   \/ l.path = "fail" /\ Steps(w, "recording")
                   \/ l.path # "fail" /\ \E g : Moves(w, "reading", l.key, l.path, g, l.seen, l.tries)
<1>0. l.at \in {"reading", "swapping"} /\ Errand(l.path, l.goal)
  BY DEF ReadJob, SwapJob, PathInv, PathOK
<1>1. Refused(w) => Some
  BY RefusedEffect
<1>2. ASSUME NEW s, Goto(w, [At(w, "swapping") EXCEPT !.seen = s])
      PROVE  Some
  <2>1. Moves(w, "swapping", l.key, l.path, l.goal, s, l.tries)
    BY <1>2, Edits, Sorts
  <2> QED
    BY <2>1
<1>3. ASSUME SwapJob(w), SetRow(w, [Row(w) EXCEPT !.status = l.goal]), Moved(w)
      PROVE  Some
  <2>1. job'[l.job].status = l.goal
    BY <1>0, <1>3, RowEdits, Sorts DEF Sets
  <2>2. l.path = "claim" => l.goal = "preparing"
    BY <1>0 DEF Errand
  <2>3. l.goal \in {"validating", "draft_saved"} => l.path # "fail"
    BY <1>0 DEF Errand
  <2> QED
    BY <1>3, <2>1, <2>2, <2>3, MovedEffect
<1> HIDE DEF Some
<1>4. \/ Refused(w) \/ \E s : Goto(w, [At(w, "swapping") EXCEPT !.seen = s])
      \/ SwapJob(w) /\ SetRow(w, [Row(w) EXCEPT !.status = l.goal]) /\ Moved(w)
  BY DEF ReadJob, SwapJob
<1>5. Some
  BY <1>1, <1>2, <1>3, <1>4
<1> QED
  BY <1>0, <1>5 DEF Some

-----------------------------------------------------------------------------
(* Where the call of a worker stands: it is inside create_dispatch or      *)
(* dispatch() exactly where its tick is, and for the key it works with.    *)
Inside == {"inserting", "dispatching"}
InDispatch == {"starting", "claimed", "numbering", "executing", "finishing"}

CallOK(l, c) ==
    /\ l.at \notin Inside => c = D!Idle
    /\ l.at = "inserting" => c.at = "creating" /\ c.key = l.key
    /\ l.at = "dispatching" => c.at \in InDispatch /\ c.key = l.key

CallsInv == \A w \in Worker : CallOK(loc[w], call[w])

LEMMA IdleCalls == D!Idle = P!Idle /\ D!Idle.at = "idle"
BY DEF D!Idle, P!Idle

LEMMA CallsAct ==
    ASSUME CallsInv, NEW w \in Worker, \A v \in Worker \ {w} : loc'[v] = loc[v] /\ call'[v] = call[v],
           CallOK(loc'[w], call'[w])
    PROVE  CallsInv'
BY DEF CallsInv, CallOK, D!Idle

(* What a step inside dispatch() does to the call of its worker.           *)
LEMMA CallRuns ==
    ASSUME QueueInv, NEW w \in Worker, CallOK(loc[w], call[w]), loc[w].at = "dispatching",
           D!Claim(w) \/ D!MarkRunning(w) \/ D!BeginAttempt(w) \/ D!Execute(w) \/ D!Finish(w)
    PROVE  /\ \A v \in Worker \ {w} : call'[v] = call[v]
           /\ \/ call'[w] = D!Idle
              \/ call'[w].at \in InDispatch /\ call'[w].key = call[w].key
<1> DEFINE c == call[w]
           Goal == /\ \A v \in Worker \ {w} : call'[v] = call[v]
                   /\ \/ call'[w] = D!Idle
                      \/ call'[w].at \in InDispatch /\ call'[w].key = c.key
<1>0. call \in [Worker -> P!CallRecord] /\ c \in P!CallRecord
  BY DEF QueueInv, P!TypeInv, P!CallsOK
<1> SUFFICES Goal
  OBVIOUS
<1>1. ASSUME D!Return(w)
      PROVE  Goal
  BY <1>0, <1>1 DEF D!Return
<1>2. ASSUME NEW at \in InDispatch, call' = [call EXCEPT ![w].at = at]
      PROVE  Goal
  <2>1. [c EXCEPT !.at = at].at = at /\ [c EXCEPT !.at = at].key = c.key
    BY <1>0 DEF P!CallRecord
  <2> QED
    BY <1>0, <1>2, <2>1
<1>3. ASSUME NEW n, call' = [call EXCEPT ![w].at = "executing", ![w].attempt = n]
      PROVE  Goal
  <2>1. [c EXCEPT !.at = "executing", !.attempt = n].at = "executing"
        /\ [c EXCEPT !.at = "executing", !.attempt = n].key = c.key
    BY <1>0 DEF P!CallRecord
  <2> QED
    BY <1>0, <1>3, <2>1 DEF InDispatch
<1>4. ASSUME NEW o, call' = [call EXCEPT ![w].at = "finishing", ![w].outcome = o]
      PROVE  Goal
  <2>1. [c EXCEPT !.at = "finishing", !.outcome = o].at = "finishing"
        /\ [c EXCEPT !.at = "finishing", !.outcome = o].key = c.key
    BY <1>0 DEF P!CallRecord
  <2> QED
    BY <1>0, <1>4, <2>1 DEF InDispatch
<1> HIDE DEF Goal
<1>5. ASSUME D!Claim(w) \/ D!MarkRunning(w)
      PROVE  Goal
  <2>1. \/ D!Return(w) \/ \E at \in InDispatch : call' = [call EXCEPT ![w].at = at]
    BY <1>5 DEF D!Claim, D!MarkRunning, D!Swap, InDispatch
  <2> QED
    BY <1>1, <1>2, <2>1
<1>6. ASSUME D!BeginAttempt(w)
      PROVE  Goal
  <2>1. D!Return(w) \/ \E n : call' = [call EXCEPT ![w].at = "executing", ![w].attempt = n]
    BY <1>6 DEF D!BeginAttempt
  <2> QED
    BY <1>1, <1>3, <2>1
<1>7. ASSUME D!Execute(w)
      PROVE  Goal
  <2>1. D!Return(w) \/ \E o : call' = [call EXCEPT ![w].at = "finishing", ![w].outcome = o]
    BY <1>7 DEF D!Execute
  <2> QED
    BY <1>1, <1>4, <2>1
<1>8. D!Finish(w) => Goal
  BY <1>1 DEF D!Finish
<1> QED
  BY <1>5, <1>6, <1>7, <1>8

LEMMA CallsBody ==
    ASSUME QueueInv, CallsInv, NEW w \in Worker, Body(w) \/ DatabaseFails(w)
    PROVE  CallsInv'
<1> DEFINE l == loc[w]
           Goal == /\ Others(w) /\ \A v \in Worker \ {w} : call'[v] = call[v]
                   /\ CallOK(loc'[w], call'[w])
<1>0. /\ TypeInv /\ KeyOK(l) /\ CallOK(l, call[w]) /\ call \in [Worker -> P!CallRecord]
      /\ Working \subseteq Place /\ l.at \in Place
  BY LocalsAre, Sorts DEF QueueInv, KeysInv, CallsInv, P!TypeInv, P!CallsOK, TypeInv, WorkersOK, Locals_
<1>1. Others(w)
  BY <1>0, OthersStay DEF Others
<1> SUFFICES Goal
  BY CallsAct DEF Others
<1>2. ASSUME UNCHANGED call, loc'[w].at \notin Inside, l.at \notin Inside
      PROVE  Goal
  BY <1>0, <1>1, <1>2 DEF CallOK, Inside
<1>3. ASSUME D!Return(w), loc'[w].at \notin Inside
      PROVE  Goal
  BY <1>0, <1>1, <1>3 DEF CallOK, Inside, D!Return
<1>4. Fail(w) => loc'[w].at = "failing"
  BY <1>0, FailStumbles DEF Stumbles, Moves
<1>5. ASSUME NEW at \in Place, Goto(w, At(w, at))
      PROVE  loc'[w].at = at /\ loc'[w].key = l.key
  BY <1>0, <1>5, Edits DEF Steps, Moves
<1>6. CASE Create(w)
  <2>1. CASE D!LookUp(w, l.key, RequestOf(w)) /\ Goto(w, At(w, "inserting"))
    <3>1. loc'[w].at = "inserting" /\ loc'[w].key = l.key
      BY <1>0, <1>5, <2>1, Sorts
    <3>2. /\ call'[w].at = "creating" /\ call'[w].key = l.key
          /\ \A v \in Worker \ {w} : call'[v] = call[v]
      BY <1>0, <2>1 DEF D!LookUp, D!Idle
    <3> QED
      BY <1>1, <3>1, <3>2 DEF CallOK, Inside
  <2>2. CASE (Goto(w, At(w, "linking")) \/ Fail(w)) /\ DispatchIdle
    <3>1. loc'[w].at \in {"linking", "failing"}
      BY <1>0, <1>4, <1>5, <2>2, Sorts
    <3>2. UNCHANGED call /\ l.at = "creating"
      BY <1>6, <2>2 DEF Create, DispatchIdle, dispatchVars
    <3> HIDE DEF Goal
    <3> QED
      BY <1>2, <3>1, <3>2 DEF Inside
  <2> HIDE DEF Goal
  <2> QED
    BY <1>6, <2>1, <2>2 DEF Create
<1>7. CASE InsertDispatch(w) \/ DatabaseFails(w)
  <2>1. D!Return(w)
    BY <1>7 DEF InsertDispatch, DatabaseFails, D!Insert, D!InsertLost, D!Crash
  <2>2. loc'[w].at \in {"linking", "failing"}
    BY <1>0, <1>4, <1>5, <1>7, Sorts DEF InsertDispatch, DatabaseFails
  <2> HIDE DEF Goal
  <2> QED
    BY <1>3, <2>1, <2>2 DEF Inside
<1>8. CASE StartDispatch(w)
  <2>1. CASE D!ReadForDispatch(w, l.key) /\ Goto(w, At(w, "dispatching"))
    <3>1. loc'[w].at = "dispatching" /\ loc'[w].key = l.key
      BY <1>0, <1>5, <2>1, Sorts
    <3>2. /\ call'[w].at = "starting" /\ call'[w].key = l.key
          /\ \A v \in Worker \ {w} : call'[v] = call[v]
      BY <1>0, <2>1 DEF D!ReadForDispatch, D!Idle
    <3> QED
      BY <1>1, <3>1, <3>2 DEF CallOK, Inside, InDispatch
  <2>2. CASE Fail(w) /\ DispatchIdle
    <3>1. loc'[w].at = "failing"
      BY <1>4, <2>2
    <3>2. UNCHANGED call /\ l.at = "starting"
      BY <1>8, <2>2 DEF StartDispatch, DispatchIdle, dispatchVars
    <3> HIDE DEF Goal
    <3> QED
      BY <1>2, <3>1, <3>2 DEF Inside
  <2> HIDE DEF Goal
  <2> QED
    BY <1>8, <2>1, <2>2 DEF StartDispatch
<1>9. CASE RunDispatch(w)
  <2>1. /\ l.at = "dispatching"
        /\ D!Claim(w) \/ D!MarkRunning(w) \/ D!BeginAttempt(w) \/ D!Execute(w) \/ D!Finish(w)
        /\ \/ call'[w] # D!Idle /\ UNCHANGED loc
           \/ call'[w] = D!Idle /\ (Goto(w, At(w, "judging")) \/ Fail(w))
    BY <1>9 DEF RunDispatch
  <2>2. /\ \A v \in Worker \ {w} : call'[v] = call[v]
        /\ \/ call'[w] = D!Idle
           \/ call'[w].at \in InDispatch /\ call'[w].key = call[w].key
    BY <1>0, <2>1, CallRuns
  <2>3. CASE call'[w] # D!Idle /\ UNCHANGED loc
    BY <1>0, <1>1, <2>1, <2>2, <2>3 DEF CallOK, Inside
  <2>4. CASE call'[w] = D!Idle /\ (Goto(w, At(w, "judging")) \/ Fail(w))
    <3>1. loc'[w].at \in {"judging", "failing"}
      BY <1>0, <1>4, <1>5, <2>4, Sorts
    <3> QED
      BY <1>1, <2>2, <2>4, <3>1 DEF CallOK, Inside
  <2> HIDE DEF Goal
  <2> QED
    BY <2>1, <2>3, <2>4
<1>10. CASE ~(Create(w) \/ InsertDispatch(w) \/ StartDispatch(w) \/ RunDispatch(w) \/ DatabaseFails(w))
  <2>1. l.at \notin Inside /\ UNCHANGED call
    BY <1>10
    DEF Body, Begin, Link, Judge, AskApproval, NoteApproval, Reach, ReadJob, SwapJob, Retry,
        ScheduleRetry, ReadForFailure, RecordFinal, Release, Inspect, StopDispatch, DispatchIdle,
        dispatchVars, D!RequestApproval, D!Cancel, Inside
  <2>2. \/ Rests(w) \/ Stumbles(w)
        \/ \E at \in Place \ Inside : \E k, p, g, s, n : Moves(w, at, k, p, g, s, n)
    <3> DEFINE Some == \/ Rests(w) \/ Stumbles(w)
                       \/ \E at \in Place \ Inside : \E k, p, g, s, n : Moves(w, at, k, p, g, s, n)
    <3>1. ASSUME NEW at \in Place \ Inside, NEW k, NEW p, NEW g, NEW s, NEW n, Moves(w, at, k, p, g, s, n)
          PROVE  Some
      BY <3>1
    <3>2. {"creating", "asking", "linking", "starting", "noting", "reaching", "reading",
           "releasing", "scheduling", "failing", "recording", "swapping", "begin", "retrying", "stopping"} \subseteq Place \ Inside
      BY Sorts DEF Inside
    <3>3. ASSUME NEW at \in Place \ Inside, Steps(w, at)
          PROVE  Some
      BY <3>1, <3>3 DEF Steps
    <3>4. AfterResult(status[l.key]) \in Place \ Inside /\ AfterInspection(status[l.key]) \in Place \ Inside
      BY <3>2 DEF AfterResult, AfterInspection
    <3>5. Rests(w) \/ Stumbles(w) => Some
      OBVIOUS
    <3> HIDE DEF Some
    <3>6. Begin(w) => Some
      BY <1>0, <3>1, <3>2, <3>5, Turns
    <3>7. Link(w) \/ Judge(w) \/ AskApproval(w) \/ NoteApproval(w) \/ Inspect(w) \/ RecordFinal(w) => Some
      BY <1>0, <3>2, <3>3, <3>4, Turns
    <3>8. Reach(w) \/ StopDispatch(w) \/ Retry(w) => Some
      BY <1>0, <3>1, <3>2, <3>3, Turns
    <3>9. ReadForFailure(w) \/ ScheduleRetry(w) \/ Release(w) => Some
      BY <1>0, <3>1, <3>2, <3>5, Turns
    <3>10. ReadJob(w) \/ SwapJob(w) => Some
      BY <1>0, <3>1, <3>2, <3>3, <3>5, Swaps DEF QueueInv
    <3>11. Some
      BY <1>10, <3>6, <3>7, <3>8, <3>9, <3>10 DEF Body
    <3> QED
      BY <3>11 DEF Some
  <2>3. loc'[w].at \notin Inside
    BY <2>2 DEF Rests, IsResting, Stumbles, Moves, Inside
  <2> HIDE DEF Goal
  <2> QED
    BY <1>2, <2>1, <2>3
<1> HIDE DEF Goal
<1> QED
  BY <1>6, <1>7, <1>8, <1>9, <1>10 DEF Body


(* A worker's call moves as its tick does.                                 *)
LEMMA CallsStep ==
    ASSUME QueueInv, CallsInv, [Next]_vars
    PROVE  CallsInv'
<1>0. /\ TypeInv /\ call \in [Worker -> P!CallRecord]
      /\ \A w \in Worker : CallOK(loc[w], call[w])
  BY DEF QueueInv, CallsInv, P!TypeInv, P!CallsOK
<1>1. ASSUME UNCHANGED call, NEW w \in Worker, Others(w),
             loc[w].at \notin Inside, loc'[w].at \notin Inside
      PROVE  CallsInv'
  <2>1. CallOK(loc'[w], call'[w])
    BY <1>0, <1>1 DEF CallOK, Inside
  <2> QED
    BY <1>1, <2>1, CallsAct DEF Others
<1>2. ASSUME UNCHANGED <<loc, call>>
      PROVE  CallsInv'
  BY <1>2 DEF CallsInv, CallOK, D!Idle
<1>3. ASSUME NEW w \in Worker, NEW at \in Between, NEW phase, NEW todo, Goto(w, Resting(at, phase, todo))
      PROVE  Others(w) /\ loc'[w].at \notin Inside
  BY <1>0, <1>3, RestsThere DEF IsResting, Between, Inside
<1>4. ASSUME NEW w \in Worker, Loop(w)
      PROVE  CallsInv'
  <2>1. UNCHANGED call /\ loc[w].at \notin Inside
    BY <1>4 DEF Loop, Scan, ListStale, EndTick, RejectProhibited, ClaimJob, Recover, DispatchIdle,
                dispatchVars, Inside
  <2>2. ASSUME Skips(w) \/ \E at \in {"reading", "begin", "retrying", "inspecting"} : \E j, k, p, g :
                              Takes(w, at, j, k, p, g)
        PROVE  CallsInv'
    <3>1. Others(w) /\ loc'[w].at \notin Inside
      BY <2>1, <2>2 DEF Skips, Takes, Inside
    <3> QED
      BY <1>1, <2>1, <3>1
  <2>3. CASE Scan(w) \/ ListStale(w) \/ EndTick(w)
    <3>1. Others(w) /\ loc'[w].at \notin Inside
      BY <1>3, <2>3 DEF Scan, ListStale, EndTick, Between
    <3> QED
      BY <1>1, <2>1, <3>1
  <2>4. ASSUME NEW j \in Job, RejectProhibited(w, j)
        PROVE  CallsInv'
    <3>1. Goto(w, [At(w, "reading") EXCEPT !.job = j, !.path = "prohibit", !.goal = "rejected"])
      BY <2>4 DEF RejectProhibited
    <3>2. Takes(w, "reading", j, loc[w].key, "prohibit", "rejected")
      BY <1>0, <3>1, ListEdits, Sorts
    <3> QED
      BY <2>2, <3>2
  <2>5. ASSUME NEW j \in Job, ClaimJob(w, j)
        PROVE  CallsInv'
    BY <1>0, <2>2, <2>5, ClaimEffect
  <2>6. ASSUME NEW i \in loc[w].todo, Recover(w, i)
        PROVE  CallsInv'
    BY <1>0, <2>2, <2>6, RecoverEffect
  <2> QED
    BY <1>4, <2>3, <2>4, <2>5, <2>6 DEF Loop
<1>5. ASSUME NEW w \in Worker, Launch(w)
      PROVE  CallsInv'
  <2>1. Others(w) /\ loc'[w].at \notin Inside
    BY <1>3, <1>5 DEF Launch, Between
  <2>2. UNCHANGED call /\ loc[w].at \notin Inside
    BY <1>5 DEF Launch, DispatchIdle, dispatchVars, Inside
  <2> QED
    BY <1>1, <2>1, <2>2
<1>6. ASSUME NEW w \in Worker, Die(w)
      PROVE  CallsInv'
  <2>1. Others(w) /\ loc'[w].at \notin Inside
    BY <1>3, <1>6 DEF Die, Between
  <2>2. call'[w] = D!Idle /\ \A v \in Worker \ {w} : call'[v] = call[v]
    BY <1>0, <1>6 DEF Die, DispatchIdle, dispatchVars, D!Crash, D!Return
  <2>3. CallOK(loc'[w], call'[w])
    BY <2>1, <2>2 DEF CallOK, Inside
  <2> QED
    BY <2>1, <2>2, <2>3, CallsAct DEF Others
<1>7. ASSUME NEW w \in Worker, NEW j \in Job, CancelJob(w, j)
      PROVE  CallsInv'
  <2>1. Others(w) /\ loc'[w].at \notin Inside /\ loc[w].at \notin Inside
    BY <1>0, <1>7, CommandEffect DEF Inside
  <2>2. UNCHANGED call
    BY <1>7 DEF CancelJob, DispatchIdle, dispatchVars
  <2> QED
    BY <1>1, <2>1, <2>2
<1>8. ASSUME \/ \E k \in Attempt : CancelDispatch(k)
             \/ \E j \in Job : \E c, e : Enqueue(j, c, e)
             \/ \E j \in Job : ExpireLease(j) \/ PassBackoff(j) \/ \E c : Deploy(j, c)
             \/ ChangeMode \/ UNCHANGED vars
      PROVE  CallsInv'
  <2>1. UNCHANGED <<loc, call>>
    BY <1>8 DEF CancelDispatch, D!Cancel, Enqueue, ExpireLease, PassBackoff, Deploy, ChangeMode, vars,
                DispatchIdle, dispatchVars
  <2> QED
    BY <1>2, <2>1
<1> QED
  BY <1>4, <1>5, <1>6, <1>7, <1>8, CallsBody DEF Next

LEMMA CallsInit == Init => CallsInv
BY DEF Init, Resting, D!Init, CallsInv, CallOK, Inside

(* So an agent runs, and a dispatch succeeds, only under a worker that is  *)
(* inside dispatch() for it.                                               *)
LEMMA WorkHasItsWorker ==
    ASSUME QueueInv, CallsInv, [Next]_vars, NEW k \in Attempt,
           \/ executions'[k] # executions[k]
           \/ status'[k] = "succeeded" /\ status[k] # "succeeded"
    PROVE  \E w \in Worker : loc[w].at = "dispatching" /\ loc[w].key = k
<1>0. /\ executions \in [Attempt -> Nat] /\ status \in [Attempt -> P!DispatchStatus]
      /\ call \in [Worker -> P!CallRecord]
      /\ \A w \in Worker : CallOK(loc[w], call[w])
  BY DEF QueueInv, CallsInv, P!TypeInv, P!CallsOK, P!DispatchesOK, P!HistoryOK
<1>1. PICK w \in Worker : call[w].at \in {"executing", "finishing"} /\ call[w].key = k
  <2> DEFINE Goal == \E w \in Worker : call[w].at \in {"executing", "finishing"} /\ call[w].key = k
  <2> SUFFICES Goal
    OBVIOUS
  <2>1. DispatchMoves
    BY DispatchStep DEF QueueInv
  <2>2. ASSUME UNCHANGED <<status, executions>>
        PROVE  Goal
    BY <2>2
  <2>3. ASSUME UNCHANGED executions, NEW i, NEW s \in P!DispatchStatus \ {"succeeded"},
               status' = [status EXCEPT ![i] = s]
        PROVE  Goal
    BY <1>0, <2>3
  <2>4. ASSUME NEW w \in Worker, D!Execute(w)
        PROVE  Goal
    BY <1>0, <2>4 DEF D!Execute, D!rows
  <2>5. ASSUME NEW w \in Worker, D!Finish(w)
        PROVE  Goal
    BY <1>0, <2>5 DEF D!Finish
  <2> HIDE DEF Goal
  <2>6. ASSUME NEW w \in Worker,
               D!Insert(w) \/ D!InsertLost(w) \/ D!Claim(w) \/ D!MarkRunning(w) \/ D!BeginAttempt(w)
        PROVE  Goal
    <3>1. UNCHANGED executions
      BY <2>6 DEF D!Insert, D!InsertLost, D!Claim, D!MarkRunning, D!Swap, D!BeginAttempt
    <3>2. \/ UNCHANGED status
          \/ \E i : \E s \in {"awaiting_approval", "pending", "dispatching", "running"} :
                status' = [status EXCEPT ![i] = s]
      BY <2>6 DEF D!Insert, D!InsertLost, D!rows, D!Claim, D!MarkRunning, D!Swap, D!BeginAttempt
    <3>3. {"awaiting_approval", "pending", "dispatching", "running"}
             \subseteq P!DispatchStatus \ {"succeeded"}
      BY DEF P!DispatchStatus, P!Startable, P!Busy
    <3> QED
      BY <2>2, <2>3, <3>1, <3>2, <3>3
  <2>7. ASSUME NEW w \in Worker, D!Crash(w) \/ \E i \in Attempt : D!Enter(w, i)
        PROVE  Goal
    BY <2>2, <2>7 DEF D!Crash, D!Enter, D!ReadForDispatch, D!ReadForRetry, D!LookUp, D!rows
  <2>8. ASSUME NEW i \in Attempt, D!Cancel(i) \/ D!Synchronize(i)
        PROVE  Goal
    <3>1. ~D!Synchronize(i)
      BY <1>0 DEF D!Synchronize
    <3>2. UNCHANGED executions /\ status' = [status EXCEPT ![i] = "cancelled"]
      BY <2>8, <3>1 DEF D!Cancel
    <3>3. "cancelled" \in P!DispatchStatus \ {"succeeded"}
      BY DEF P!DispatchStatus, P!Closed
    <3> QED
      BY <2>3, <3>2, <3>3
  <2>9. ASSUME NEW i \in Attempt, NEW a \in ApprovalId, NEW d, D!RequestApproval(i, a, d)
        PROVE  Goal
    BY <2>2, <2>9 DEF D!RequestApproval
  <2>10. ASSUME NEW a \in ApprovalId, D!Decide(a)
         PROVE  Goal
    <3>1. UNCHANGED executions
      BY <2>10 DEF D!Decide, D!Approve, D!ApproveTooLate, D!Reject, D!ExpireOrClose, D!ReachDeadline
    <3>2. \/ UNCHANGED status
          \/ \E i : \E s \in {"approved", "rejected"} : status' = [status EXCEPT ![i] = s]
      BY <2>10 DEF D!Decide, D!Approve, D!ApproveTooLate, D!Reject, D!ExpireOrClose, D!ReachDeadline,
                   D!Move, D!rows
    <3>3. {"approved", "rejected"} \subseteq P!DispatchStatus \ {"succeeded"}
      BY DEF P!DispatchStatus, P!Startable, P!Closed
    <3> QED
      BY <2>2, <2>3, <3>1, <3>2, <3>3
  <2>11. DispatchIdle => Goal
    BY <2>2 DEF DispatchIdle, dispatchVars
  <2> QED
    BY <2>1, <2>4, <2>5, <2>6, <2>7, <2>8, <2>9, <2>10, <2>11 DEF DispatchMoves, D!Next, D!Proceed
<1>2. CallOK(loc[w], call[w]) /\ call[w].at # "idle" /\ call[w].at # "creating"
  BY <1>0, <1>1
<1> QED
  BY <1>1, <1>2 DEF CallOK, Inside, D!Idle


-----------------------------------------------------------------------------
(* What the only process knows of its job. No dispatch of a job succeeded  *)
(* that is to be retried:                                                  *)
NoSuccess(j) == \A k \in Attempt : k[1] = j => status[k] # "succeeded"

(* where the worker stands at a job, while it works with a key for some    *)
(* number of tries, the row says what it last read or wrote.               *)
Knows(at, path, key, tries, j) ==
    /\ at \in {"begin", "creating", "inserting", "linking", "starting", "dispatching"} =>
          job[j].status = "preparing"
    /\ at \in {"creating", "inserting", "linking", "starting", "dispatching"} => key[2] = job[j].attempt
    /\ at \in {"starting", "dispatching", "judging", "inspecting"} => key = job[j].link
    /\ at \in {"retrying", "scheduling"} \/ (at = "stopping" /\ path # "stop") => NoSuccess(j)
    /\ at = "failing" => tries = 0 \/ NoSuccess(j)
    /\ at = "recording" \/ (at \in {"reading", "swapping"} /\ path = "fail") =>
          tries = job[j].attempt \/ NoSuccess(j)

KnowsJob(l) == l.at \in Working => Knows(l.at, l.path, l.key, l.tries, l.job)

KnowsList(l) == l.phase = "recovery" => \A i \in l.todo : i.link = job[i.job].link

(* A dispatch that succeeded is the one of the attempt the row counts.     *)
LastOne ==
    \A k \in Attempt : status[k] = "succeeded" => job[k[1]].link = k /\ job[k[1]].attempt = k[2]

AloneInv ==
    /\ LastOne
    /\ \A w \in Worker : KnowsJob(loc[w]) /\ KnowsList(loc[w])

OnlyOne == \A v, w \in Worker : Alive(v) /\ Alive(w) => v = w

LEMMA NobodyElse == ASSUME Processes = 1, QueueInv PROVE OnlyOne
<1> SUFFICES ASSUME NEW v \in Worker, NEW w \in Worker, Alive(v), Alive(w), v # w
             PROVE  FALSE
  BY DEF OnlyOne
<1>1. IsFiniteSet(Living) /\ Cardinality(Living) <= 1
  BY DEF QueueInv, CountInv
<1>2. {v, w} \subseteq Living
  BY DEF Living
<1>3. IsFiniteSet({v, w}) /\ Cardinality({v, w}) <= Cardinality(Living)
  <2> DEFINE S == {v, w}
  <2> HIDE DEF S
  <2> QED
    BY <1>1, <1>2, FS_Subset DEF S
<1>4. Cardinality({v, w}) = 2
  <2>1. Cardinality({v}) = 1 /\ IsFiniteSet({v})
    BY FS_Singleton
  <2>2. Cardinality({v} \cup {w}) = Cardinality({v}) + 1
    BY <2>1, FS_AddElement
  <2>3. {v, w} = {v} \cup {w}
    OBVIOUS
  <2> QED
    BY <2>1, <2>2, <2>3
<1>5. Cardinality(Living) \in Nat
  BY <1>1, FS_CardinalityType
<1> QED
  BY <1>1, <1>3, <1>4, <1>5

(* The assumptions of the lemmas that follow.                              *)
Alone == QueueInv /\ CallsInv /\ AloneInv /\ OnlyOne

LEMMA AtWork ==
    ASSUME QueueInv, NEW w \in Worker, loc[w].at \in Working
    PROVE  Alive(w)
BY Sorts DEF Alive, Between

(* Who is not inside dispatch() is sure that nothing succeeds meanwhile.   *)
LEMMA NoSuccessStays ==
    ASSUME Alone, [Next]_vars, NEW w \in Worker, Alive(w), loc[w].at # "dispatching", NEW j, NoSuccess(j)
    PROVE  NoSuccess(j)'
<1> SUFFICES ASSUME NEW k \in Attempt, k[1] = j, status'[k] = "succeeded" PROVE FALSE
  BY DEF NoSuccess
<1>1. status[k] # "succeeded"
  BY DEF NoSuccess
<1>2. PICK v \in Worker : loc[v].at = "dispatching"
  BY <1>1, WorkHasItsWorker DEF Alone
<1> QED
  BY <1>2 DEF Alone, OnlyOne, Alive

LEMMA NewExecutions ==
    ASSUME Alone, [Next]_vars
    PROVE  \A k \in Attempt : Over(k) => executions'[k] = executions[k]
<1> SUFFICES ASSUME NEW k \in Attempt, Over(k), executions'[k] # executions[k] PROVE FALSE
  OBVIOUS
<1>1. PICK w \in Worker : loc[w].at = "dispatching" /\ loc[w].key = k
  BY WorkHasItsWorker DEF Alone
<1>2. loc[w].job = k[1] /\ loc[w].at \in Working
  BY <1>1, DispatchAssumed, Sorts DEF Alone, QueueInv, KeysInv, KeyOK, LinkOf
<1>3. job[k[1]].status = "preparing" /\ k[2] = job[k[1]].attempt
  BY <1>1, <1>2 DEF Alone, AloneInv, KnowsJob, Knows
<1>4. \A m \in Attempt : m[1] = k[1] /\ status[m] = "succeeded" => m[2] = k[2]
  BY <1>3 DEF Alone, AloneInv, LastOne
<1>5. k[2] \in Nat
  BY DEF Attempt, AttemptCount
<1> QED
  BY <1>3, <1>4, <1>5 DEF Over, Terminal

(* A new success is the one of the link and of the count of its row.       *)
LEMMA LastOneStep ==
    ASSUME Alone, [Next]_vars
    PROVE  LastOne'
<1> SUFFICES ASSUME NEW k \in Attempt, status'[k] = "succeeded"
             PROVE  job'[k[1]].link = k /\ job'[k[1]].attempt = k[2]
  BY DEF LastOne
<1> DEFINE j == k[1]
           Goal == job'[j].link = k /\ job'[j].attempt = k[2]
<1>0. j \in Job /\ TypeInv /\ KeysInv /\ LastOne
  BY DEF Attempt, Alone, QueueInv, AloneInv
<1>1. ASSUME NEW v \in Worker, loc[v].at \in Working
      PROVE  KnowsJob(loc[v]) /\ Alive(v)
  BY <1>1, AtWork DEF Alone, AloneInv
<1>2. CASE status[k] = "succeeded"
  <2>1. job[j].link = k /\ job[j].attempt = k[2]
    BY <1>0, <1>2 DEF LastOne
  <2>2. ASSUME NEW v \in Worker, Body(v) \/ DatabaseFails(v)
        PROVE  Goal
    <3> DEFINE l == loc[v]
               r == Row(v)
    <3>1. CASE UNCHANGED job
      BY <2>1, <3>1
    <3>2. ASSUME l.job # j, NEW s, NEW x, NEW n, NEW a, Sets(l.job, s, x, n, a)
          PROVE  Goal
      BY <1>0, <2>1, <3>2 DEF Sets
    <3>3. ASSUME l.job = j, NEW s, NEW a, Sets(l.job, s, r.link, r.attempt, a)
          PROVE  Goal
      BY <2>1, <3>3 DEF Sets, Row
    <3>4. CASE Link(v) /\ Sets(l.job, r.status, l.key, r.attempt, r.asked)
      <4>1. l.at = "linking" /\ l.at \in Working
        BY <3>4, Sorts DEF Link
      <4>2. l.key \in Attempt /\ l.key[1] = l.job
        BY <1>0, <4>1, DispatchAssumed DEF KeysInv, KeyOK, KeyPlaces, LinkOf
      <4>3. l.key[2] = r.attempt
        BY <1>1, <4>1 DEF KnowsJob, Knows, Row
      <4>4. l.job = j => l.key = k
        BY <2>1, <4>2, <4>3 DEF Attempt, Row
      <4> QED
        BY <2>1, <3>2, <3>4, <4>4 DEF Sets, Row
    <3>5. CASE (ScheduleRetry(v) \/ RecordFinal(v)) /\ Sets(l.job, r.status, r.link, l.tries, r.asked)
      <4>1. l.at \in {"scheduling", "recording"} /\ l.at \in Working
        BY <3>5, Sorts DEF ScheduleRetry, RecordFinal
      <4>2. l.tries = job[l.job].attempt \/ NoSuccess(l.job)
        BY <1>1, <4>1 DEF KnowsJob, Knows
      <4>3. l.job = j => l.tries = r.attempt
        BY <1>2, <4>2 DEF NoSuccess, Row
      <4> HIDE DEF Goal
      <4> QED
        BY <3>2, <3>3, <3>5, <4>3
    <3> HIDE DEF Goal
    <3> QED
      BY <1>0, <2>2, <3>1, <3>2, <3>3, <3>4, <3>5, RowWrites
  <2> HIDE DEF Goal
  <2>3. (job'[j].link = job[j].link /\ job'[j].attempt = job[j].attempt) => Goal
    BY <2>1 DEF Goal
  <2>4. Goal
    BY <1>0, <2>2, <2>3, RowsOtherwise
  <2> QED
    BY <2>4 DEF Goal
<1>3. CASE status[k] # "succeeded"
  <2>1. PICK w \in Worker : loc[w].at = "dispatching" /\ loc[w].key = k
    BY <1>3, WorkHasItsWorker DEF Alone
  <2>2. loc[w].job = j /\ loc[w].at \in Working
    BY <1>0, <2>1, DispatchAssumed, Sorts DEF KeysInv, KeyOK, LinkOf
  <2>3. job[j].link = k /\ job[j].attempt = k[2]
    BY <1>1, <2>1, <2>2 DEF KnowsJob, Knows
  <2>4. ASSUME NEW v \in Worker, Body(v) \/ DatabaseFails(v)
        PROVE  UNCHANGED job
    <3>1. loc[v].at \in Working
      BY <2>4, Sorts DEF Body, Begin, Create, InsertDispatch, Link, StartDispatch, RunDispatch, DatabaseFails,
         Judge, AskApproval, NoteApproval, Reach, ReadJob, SwapJob, Retry, ScheduleRetry, ReadForFailure,
         RecordFinal, Release, Inspect, StopDispatch
    <3>2. v = w
      BY <1>1, <2>1, <2>2, <3>1 DEF Alone, OnlyOne
    <3> QED
      BY <1>0, <2>1, <2>4, <3>2, RowWrites
      DEF Link, NoteApproval, SwapJob, ScheduleRetry, RecordFinal, Release
  <2>5. job'[j].link = job[j].link /\ job'[j].attempt = job[j].attempt
    BY <1>0, <2>4, RowsOtherwise
  <2> QED
    BY <2>3, <2>5
<1> QED
  BY <1>2, <1>3


LEMMA ListStays ==
    ASSUME Alone, [Next]_vars, NEW w \in Worker, Body(w) \/ DatabaseFails(w), loc[w].phase = "recovery",
           NEW i \in Job
    PROVE  job'[i].link = job[i].link
<1>1. ~Link(w)
  BY DEF Link, Alone, QueueInv, PathInv, PathOK, Calling
<1> QED
  BY <1>1, RowWrites DEF Alone, QueueInv, Sets, Row

(* A worker that acts on its job knows what it must afterwards.            *)
LEMMA KnowsBody ==
    ASSUME Alone, [Next]_vars, NEW w \in Worker, Body(w) \/ DatabaseFails(w)
    PROVE  KnowsJob(loc[w])' /\ KnowsList(loc[w])'
<1> DEFINE l == loc[w]
           r == Row(w)
           Goal == KnowsJob(loc[w])' /\ KnowsList(loc[w])'
<1> SUFFICES Goal
  OBVIOUS
<1>a. l.at \in Working
  BY Sorts DEF Body, Begin, Create, InsertDispatch, Link, StartDispatch, RunDispatch, DatabaseFails,
     Judge, AskApproval, NoteApproval, Reach, ReadJob, SwapJob, Retry, ScheduleRetry, ReadForFailure,
     RecordFinal, Release, Inspect, StopDispatch
<1>0. PICK j \in Job : j = l.job
  BY <1>a, LocalsAre DEF Alone, QueueInv
<1>b. /\ TypeInv /\ PathInv /\ PathOK(l) /\ KeyOK(l)
      /\ l.todo \subseteq Item_ /\ \A i \in Item_ : i.job \in Job
      /\ Alive(w) /\ r = job[j]
      /\ Knows(l.at, l.path, l.key, l.tries, j) /\ KnowsList(l) /\ LastOne
  BY <1>a, <1>0, AtWork, LocalsAre
  DEF Alone, QueueInv, PathInv, KeysInv, AloneInv, KnowsJob, Row
<1>e. PICK k0, p0, g0, s0, n0 :
         k0 = l.key /\ p0 = l.path /\ g0 = l.goal /\ s0 = l.seen /\ n0 = l.tries
  OBVIOUS
<1>c. l.at # "dispatching" /\ NoSuccess(j) => NoSuccess(j)'
  BY <1>b, NoSuccessStays
<1>d. l.phase = "recovery" => \A i \in l.todo : i.link = job'[i.job].link
  BY <1>b, ListStays DEF KnowsList
<1>1. ASSUME NEW at, NEW k, NEW p, NEW g, NEW s, NEW n, Moves(w, at, k, p, g, s, n),
             Knows(at, p, k, n, j)'
      PROVE  Goal
  <2>1. /\ loc'[w].at = at /\ loc'[w].key = k /\ loc'[w].path = p /\ loc'[w].tries = n
        /\ loc'[w].job = j /\ loc'[w].phase = l.phase /\ loc'[w].todo = l.todo
    BY <1>0, <1>1 DEF Moves
  <2>2. KnowsList(loc[w])'
    BY <1>d, <2>1 DEF KnowsList
  <2>3. KnowsJob(loc[w])'
    BY <1>1, <2>1 DEF KnowsJob, Knows, NoSuccess
  <2> QED
    BY <2>2, <2>3
<1>2. ASSUME Rests(w)
      PROVE  Goal
  <2>1. loc'[w].at \in Between /\ loc'[w].at \notin Working
    BY <1>2, Sorts DEF Rests, IsResting, Between
  <2>2. loc'[w].phase = "recovery" => l.phase = "recovery" /\ loc'[w].todo \subseteq l.todo
    BY <1>2 DEF Rests, IsResting
  <2> QED
    BY <1>d, <2>1, <2>2 DEF KnowsJob, KnowsList
<1> HIDE DEF Goal
<1>3. ASSUME NEW at \in {"asking", "noting", "reaching", "releasing"},
             NEW k, NEW p, NEW g, NEW s, NEW n, Moves(w, at, k, p, g, s, n)
      PROVE  Goal
  <2>1. Knows(at, p, k, n, j)'
    BY DEF Knows
  <2> QED
    BY <1>1, <1>3, <2>1
<1>4. ASSUME NEW at \in {"asking", "noting", "reaching", "releasing"}, Steps(w, at)
      PROVE  Goal
  BY <1>3, <1>4 DEF Steps
<1>5. ASSUME Stumbles(w)
      PROVE  Goal
  <2>1. Knows("failing", "fail", k0, 0, j)'
    BY DEF Knows
  <2>2. Moves(w, "failing", k0, "fail", g0, s0, 0)
    BY <1>e, <1>5 DEF Stumbles
  <2> QED
    BY <1>1, <2>1, <2>2
<1>6. ASSUME NEW p, p # "fail", NEW at \in {"reading", "swapping"}, NEW k, NEW g, NEW s, NEW n,
             Moves(w, at, k, p, g, s, n)
      PROVE  Goal
  <2>1. Knows(at, p, k, n, j)'
    BY <1>6 DEF Knows
  <2> QED
    BY <1>1, <1>6, <2>1
<1>7. ASSUME NEW at, Steps(w, at), Knows(at, p0, k0, n0, j)'
      PROVE  Goal
  <2>1. Moves(w, at, k0, p0, g0, s0, n0)
    BY <1>e, <1>7 DEF Steps
  <2> QED
    BY <1>1, <1>7, <2>1
<1>8. Knows(l.at, p0, k0, n0, j)
  BY <1>b, <1>e
<1>9. ASSUME UNCHANGED job
      PROVE  job'[j] = job[j]
  BY <1>9
<1>10. CASE Begin(w)
  <2> DEFINE key == <<l.job, r.attempt>>
             link == r.link
  <2>1. job'[j] = job[j] /\ l.at = "begin"
    BY <1>10 DEF Begin
  <2>2. PICK k : k = key
    OBVIOUS
  <2>3. k[2] = job[j].attempt
    BY <1>b, <2>2
  <2>4. job[j].status = "preparing"
    BY <1>8, <2>1 DEF Knows
  <2>5. ASSUME NEW p
        PROVE  Knows("creating", p, k, n0, j)'
    BY <2>1, <2>3, <2>4 DEF Knows
  <2>6. PICK m : m = link
    OBVIOUS
  <2>7. \/ Stumbles(w)
        \/ \E p : Moves(w, "creating", k, p, g0, s0, n0)
        \/ Moves(w, "asking", m, "defer", g0, s0, n0)
    BY <1>b, <1>e, <1>10, <2>2, <2>6, Turns
  <2> QED
    BY <1>1, <1>3, <1>5, <2>5, <2>7
<1>11. CASE Create(w) \/ InsertDispatch(w) \/ StartDispatch(w) \/ DatabaseFails(w)
  <2>1. job'[j] = job[j] /\ l.at \in {"creating", "inserting", "starting", "dispatching"}
    BY <1>11 DEF Create, InsertDispatch, StartDispatch, DatabaseFails
  <2>2. \/ Stumbles(w)
        \/ l.at \in {"creating", "inserting"} /\ \E at \in {"inserting", "linking"} : Steps(w, at)
        \/ l.at = "starting" /\ Steps(w, "dispatching")
    BY <1>b, <1>11, Turns DEF Create, InsertDispatch, StartDispatch
  <2>3. ASSUME NEW at \in {"inserting", "linking"}, l.at \in {"creating", "inserting"}
        PROVE  Knows(at, p0, k0, n0, j)'
    BY <1>8, <2>1, <2>3 DEF Knows
  <2>4. ASSUME l.at = "starting"
        PROVE  Knows("dispatching", p0, k0, n0, j)'
    BY <1>8, <2>1, <2>4 DEF Knows
  <2> QED
    BY <1>5, <1>7, <2>2, <2>3, <2>4
<1>12. CASE Link(w)
  <2>1. l.at = "linking" /\ SetRow(w, [Row(w) EXCEPT !.link = l.key])
    BY <1>12 DEF Link
  <2>2. Sets(l.job, r.status, l.key, r.attempt, r.asked)
    BY <1>a, <1>b, <2>1, RowEdits
  <2>3. job'[j].status = job[j].status /\ job'[j].link = k0 /\ job'[j].attempt = job[j].attempt
    BY <1>0, <1>b, <1>e, <2>2 DEF Sets
  <2>4. Knows("starting", p0, k0, n0, j)'
    BY <1>8, <2>1, <2>3 DEF Knows
  <2> QED
    BY <1>4, <1>7, <1>b, <1>12, <2>4, Turns
<1>13. CASE RunDispatch(w)
  <2>1. job'[j] = job[j] /\ l.at = "dispatching"
    BY <1>13 DEF RunDispatch
  <2>2. Knows("judging", p0, k0, n0, j)' /\ Knows("dispatching", p0, k0, n0, j)'
    BY <1>8, <2>1 DEF Knows
  <2>3. UNCHANGED loc => Steps(w, "dispatching")
    BY <2>1 DEF Steps, Moves, Others
  <2> QED
    BY <1>5, <1>7, <1>b, <1>13, <2>2, <2>3, Turns
<1>14. ASSUME l.at # "dispatching", NoSuccess(j),
              NEW at \in {"retrying", "stopping", "failing", "scheduling", "recording"},
              NEW p, NEW n
       PROVE  Knows(at, p, k0, n, j)'
  <2>1. NoSuccess(j)'
    BY <1>c, <1>14
  <2> QED
    BY <2>1 DEF Knows
<1>15. CASE Judge(w) \/ Inspect(w)
  <2>1. l.at \in {"judging", "inspecting"}
    BY <1>15 DEF Judge, Inspect
  <2>2. l.key = job[j].link
    BY <1>b, <2>1 DEF Knows
  <2>3. status[l.key] # "succeeded" => NoSuccess(j)
    BY <1>b, <2>2 DEF LastOne, NoSuccess
  <2>4. \/ \E at \in {"reaching", "releasing"} : Steps(w, at)
        \/ /\ status[l.key] # "succeeded"
           /\ \E at \in {"retrying", "stopping", "failing"} : Steps(w, at)
    <3> DEFINE s == status[l.key]
    <3>1. Steps(w, AfterResult(s)) \/ Steps(w, AfterInspection(s))
      BY <1>b, <1>15, Turns
    <3>2. /\ AfterResult(s) \in {"reaching", "releasing", "retrying", "stopping", "failing"}
          /\ AfterInspection(s) \in {"reaching", "releasing", "retrying", "stopping", "failing"}
      BY DEF AfterResult, AfterInspection
    <3>3. s = "succeeded" => AfterResult(s) = "reaching" /\ AfterInspection(s) = "reaching"
      BY DEF AfterResult, AfterInspection, D!Busy
    <3> HIDE DEF s
    <3>4. \/ \E at \in {"reaching", "releasing"} : Steps(w, at)
          \/ s # "succeeded" /\ \E at \in {"retrying", "stopping", "failing"} : Steps(w, at)
      BY <3>1, <3>2, <3>3
    <3> QED
      BY <3>4 DEF s
  <2>5. ASSUME NEW at \in {"retrying", "stopping", "failing"}, Steps(w, at), status[l.key] # "succeeded"
        PROVE  Goal
    <3>1. Knows(at, p0, k0, n0, j)'
      BY <1>14, <2>1, <2>3, <2>5
    <3> QED
      BY <1>7, <2>5, <3>1
  <2> QED
    BY <1>4, <2>4, <2>5
<1>16. CASE AskApproval(w) \/ NoteApproval(w) \/ RecordFinal(w)
  BY <1>4, <1>b, <1>16, Turns
<1>17. CASE ScheduleRetry(w) \/ Release(w)
  BY <1>2, <1>b, <1>17, Turns
<1>18. CASE Reach(w)
  <2>1. p0 # "fail"
    BY <1>b, <1>e, <1>18 DEF Reach, PathOK
  <2>2. \/ \E g : Moves(w, "reading", k0, p0, g, s0, n0)
        \/ Steps(w, "releasing")
    BY <1>b, <1>e, <1>18, Turns
  <2> QED
    BY <1>4, <1>6, <2>1, <2>2
<1>19. CASE Retry(w)
  <2>1. l.at = "retrying"
    BY <1>19 DEF Retry
  <2>2. NoSuccess(j)
    BY <1>b, <2>1 DEF Knows
  <2>3. PICK n : n = r.attempt + 1
    OBVIOUS
  <2>4. \E at \in {"scheduling", "failing"} : Moves(w, at, k0, "fail", g0, s0, n)
    BY <1>b, <1>e, <1>19, <2>3, Turns
  <2> QED
    BY <1>1, <1>14, <2>1, <2>2, <2>4
<1>20. CASE ReadForFailure(w)
  <2>1. l.at = "failing" /\ job'[j] = job[j]
    BY <1>20 DEF ReadForFailure
  <2>2. PICK n : /\ n = (IF l.tries = 0 THEN r.attempt ELSE l.tries)
                 /\ \/ Moves(w, "recording", k0, "fail", g0, s0, n)
                    \/ Moves(w, "reading", k0, "fail", "failed_safely", s0, n)
    BY <1>b, <1>e, <1>20, Turns
  <2>3. n = job[j].attempt \/ NoSuccess(j)
    BY <1>b, <2>1, <2>2 DEF Knows
  <2>4. n = job'[j].attempt \/ NoSuccess(j)'
    BY <1>c, <2>1, <2>3
  <2>5. Knows("recording", "fail", k0, n, j)' /\ Knows("reading", "fail", k0, n, j)'
    BY <2>4 DEF Knows
  <2> QED
    BY <1>1, <2>2, <2>5
<1>21. CASE StopDispatch(w)
  <2>1. l.at = "stopping"
    BY <1>21 DEF StopDispatch
  <2>2. \/ p0 = "stop" /\ Moves(w, "reading", k0, p0, "failed_safely", s0, n0)
        \/ p0 # "stop" /\ Steps(w, "retrying")
    BY <1>b, <1>e, <1>21, Turns
  <2>3. p0 # "stop" => NoSuccess(j)
    BY <1>8, <2>1 DEF Knows
  <2>4. p0 # "stop" => Knows("retrying", p0, k0, n0, j)'
    BY <1>14, <2>1, <2>3
  <2> QED
    BY <1>6, <1>7, <2>2, <2>4
<1>22. CASE ReadJob(w) \/ SwapJob(w)
  <2>0. l.at \in {"reading", "swapping"}
    BY <1>22 DEF ReadJob, SwapJob
  <2>1. \/ Rests(w) \/ Stumbles(w) \/ Steps(w, "releasing")
        \/ \E s : Moves(w, "swapping", k0, p0, g0, s, n0)
        \/ SwapJob(w) /\ job'[j].status = "preparing" /\ Steps(w, "begin")
        \/ p0 = "fail" /\ Steps(w, "recording")
        \/ p0 # "fail" /\ \E g : Moves(w, "reading", k0, p0, g, s0, n0)
    BY <1>0, <1>b, <1>e, <1>22, Swaps
  <2>2. job'[j].attempt = job[j].attempt
    <3>1. UNCHANGED job \/ Sets(l.job, l.goal, r.link, r.attempt, r.asked)
      BY <1>a, <1>b, <1>22, RowEdits DEF ReadJob, SwapJob
    <3> QED
      BY <1>0, <1>b, <3>1 DEF Sets
  <2>3. p0 = "fail" => n0 = job'[j].attempt \/ NoSuccess(j)'
    BY <1>8, <1>c, <2>0, <2>2 DEF Knows
  <2>4. Knows("swapping", p0, k0, n0, j)'
    BY <2>3 DEF Knows
  <2>5. p0 = "fail" => Knows("recording", p0, k0, n0, j)'
    BY <2>3 DEF Knows
  <2>6. job'[j].status = "preparing" => Knows("begin", p0, k0, n0, j)'
    BY DEF Knows
  <2> QED
    BY <1>1, <1>2, <1>4, <1>5, <1>6, <1>7, <2>1, <2>4, <2>5, <2>6
<1> QED
  BY <1>10, <1>11, <1>12, <1>13, <1>15, <1>16, <1>17, <1>18, <1>19, <1>20, <1>21, <1>22 DEF Body


(* Whoever does not act goes on knowing what it knew, as long as only the  *)
(* worker of a row moves it on.                                            *)
LEMMA KnowsStays ==
    ASSUME Alone, [Next]_vars, NEW w \in Worker, loc'[w] = loc[w],
           \A j \in Job : /\ job'[j].link = job[j].link /\ job'[j].attempt = job[j].attempt
                          /\ job[j].status = "preparing" => job'[j].status = "preparing"
    PROVE  KnowsJob(loc[w])' /\ KnowsList(loc[w])'
<1> DEFINE l == loc[w]
<1>1. /\ l.at \in Working => l.job \in Job /\ Alive(w)
      /\ \A i \in l.todo : i.job \in Job
      /\ KnowsJob(l) /\ KnowsList(l)
  BY LocalsAre, AtWork DEF Alone, QueueInv, AloneInv
<1>2. KnowsList(l)'
  BY <1>1 DEF KnowsList
<1>3. ASSUME l.at \in Working
      PROVE  Knows(l.at, l.path, l.key, l.tries, l.job)'
  <2>1. PICK at, p, k, n : at = l.at /\ p = l.path /\ k = l.key /\ n = l.tries
    OBVIOUS
  <2>2. PICK j \in Job : j = l.job
    BY <1>1, <1>3
  <2>3. Knows(at, p, k, n, j)
    BY <1>1, <1>3, <2>1, <2>2 DEF KnowsJob
  <2>4. at # "dispatching" /\ NoSuccess(j) => NoSuccess(j)'
    BY <1>1, <1>3, <2>1, NoSuccessStays
  <2>5. Knows(at, p, k, n, j)'
    BY <2>3, <2>4 DEF Knows
  <2>6. loc'[w].at = at /\ loc'[w].path = p /\ loc'[w].key = k /\ loc'[w].tries = n /\ loc'[w].job = j
    BY <2>1, <2>2
  <2> QED
    BY <2>5, <2>6 DEF Knows, NoSuccess
<1> QED
  BY <1>2, <1>3 DEF KnowsJob

LEMMA KnowsLoop ==
    ASSUME Alone, [Next]_vars, NEW w \in Worker, Loop(w)
    PROVE  Others(w) /\ KnowsJob(loc[w])' /\ KnowsList(loc[w])'
<1> DEFINE l == loc[w]
           Goal == Others(w) /\ KnowsJob(loc[w])' /\ KnowsList(loc[w])'
<1> SUFFICES Goal
  OBVIOUS
<1>0. /\ TypeInv /\ KnowsList(l) /\ LastOne /\ Alive(w) /\ l.at \in {"sweep", "idle"}
      /\ \A i \in l.todo : i.job \in Job
  BY LocalsAre DEF Alone, QueueInv, AloneInv, Loop, Scan, ListStale, EndTick, RejectProhibited, ClaimJob,
                   Recover, Alive
<1>1. ASSUME NEW at \in Between, NEW phase, NEW todo, Goto(w, Resting(at, phase, todo)),
             phase = "recovery" => \A i \in todo : i.link = job'[i.job].link
      PROVE  Goal
  <2>1. Others(w) /\ IsResting(loc'[w], at, phase, todo)
    BY <1>0, <1>1, RestsThere
  <2>2. loc'[w].at \notin Working
    BY <1>1, <2>1, Sorts DEF IsResting
  <2> QED
    BY <1>1, <2>1, <2>2 DEF IsResting, KnowsJob, KnowsList
<1>2. ASSUME NEW at, NEW j \in Job, NEW k, NEW p, NEW g, Takes(w, at, j, k, p, g),
             l.phase = "recovery" => UNCHANGED job, \A n : Knows(at, p, k, n, j)'
      PROVE  Goal
  <2>1. PICK n : n = l.tries
    OBVIOUS
  <2>2. /\ Others(w) /\ loc'[w].at = at /\ loc'[w].job = j /\ loc'[w].key = k /\ loc'[w].path = p
        /\ loc'[w].tries = n /\ loc'[w].phase = l.phase /\ loc'[w].todo = l.todo
    BY <1>2, <2>1 DEF Takes
  <2>3. Knows(at, p, k, n, j)'
    BY <1>2
  <2>4. KnowsJob(loc[w])'
    BY <2>2, <2>3 DEF KnowsJob, Knows, NoSuccess
  <2>5. KnowsList(loc[w])'
    BY <1>0, <1>2, <2>2 DEF KnowsList
  <2> QED
    BY <2>2, <2>4, <2>5
<1>3. ASSUME Skips(w), l.at = "sweep", l.phase = "recovery" => UNCHANGED job
      PROVE  Goal
  BY <1>0, <1>3, Sorts DEF Skips, KnowsJob, KnowsList, Between
<1> HIDE DEF Goal
<1>4. CASE Scan(w) \/ EndTick(w)
  BY <1>1, <1>4 DEF Scan, EndTick, Between
<1>5. CASE ListStale(w)
  <2> DEFINE S == {[job |-> j, link |-> job[j].link, stale |-> job[j].lease = "expired"] :
                      j \in {i \in Job : job[i].status = "preparing"}}
  <2>1. Goto(w, Resting("sweep", "recovery", S)) /\ UNCHANGED job /\ "sweep" \in Between
    BY <1>5 DEF ListStale, Between
  <2>2. \A i \in S : i.link = job[i.job].link
    OBVIOUS
  <2>3. \A i \in S : i.link = job'[i.job].link
    BY <2>1, <2>2
  <2> HIDE DEF S
  <2> QED
    BY <1>1, <2>1, <2>3
<1>6. ASSUME NEW j \in Job, RejectProhibited(w, j)
      PROVE  Goal
  <2>1. /\ UNCHANGED job
        /\ Goto(w, [At(w, "reading") EXCEPT !.job = j, !.path = "prohibit", !.goal = "rejected"])
    BY <1>6 DEF RejectProhibited
  <2>2. PICK k : k = l.key
    OBVIOUS
  <2>3. Takes(w, "reading", j, k, "prohibit", "rejected")
    BY <1>0, <2>1, <2>2, ListEdits, Sorts
  <2>4. \A n : Knows("reading", "prohibit", k, n, j)'
    BY DEF Knows
  <2> QED
    BY <1>2, <2>1, <2>3, <2>4
<1>7. ASSUME NEW j \in Job, ClaimJob(w, j)
      PROVE  Goal
  <2>1. PICK k, p, g : k = l.key /\ p = l.path /\ g = l.goal
    OBVIOUS
  <2>2. /\ l.at = "sweep" /\ l.phase = "claims" /\ job'[j].status = job[j].status
        /\ \/ Skips(w)
           \/ Takes(w, "reading", j, k, "claim", "preparing")
           \/ job[j].status = "preparing" /\ Takes(w, "begin", j, k, p, g)
    BY <1>0, <1>7, <2>1, ClaimEffect DEF Sets
  <2>3. \A n : Knows("reading", "claim", k, n, j)'
    BY DEF Knows
  <2>4. job[j].status = "preparing" => \A n : Knows("begin", p, k, n, j)'
    BY <2>2 DEF Knows
  <2> QED
    BY <1>2, <1>3, <2>2, <2>3, <2>4
<1>8. ASSUME NEW i \in l.todo, Recover(w, i)
      PROVE  Goal
  <2>1. PICK j \in Job : j = i.job
    BY <1>0
  <2>2. PICK k, p, g, m : k = l.key /\ p = l.path /\ g = l.goal /\ m = i.link
    OBVIOUS
  <2>3. /\ l.at = "sweep" /\ l.phase = "recovery" /\ UNCHANGED job
        /\ \/ Skips(w)
           \/ m = NoKey /\ Takes(w, "retrying", j, k, p, g)
           \/ Takes(w, "inspecting", j, m, "finish", g)
    BY <1>0, <1>8, <2>1, <2>2, RecoverEffect
  <2>4. m = job[j].link
    BY <1>0, <2>1, <2>2, <2>3 DEF KnowsList
  <2>5. m = NoKey => NoSuccess(j)
    <3>1. NoKey \notin Attempt
      BY DispatchAssumed
    <3>2. \A a \in Attempt : a[1] = j /\ status[a] = "succeeded" => m = a
      BY <1>0, <2>4 DEF LastOne
    <3> QED
      BY <3>1, <3>2 DEF NoSuccess
  <2>6. NoSuccess(j) => NoSuccess(j)'
    BY <1>0, <2>3, NoSuccessStays DEF Alive
  <2>7. m = NoKey => \A n : Knows("retrying", p, k, n, j)'
    BY <2>5, <2>6 DEF Knows
  <2>8. \A n : Knows("inspecting", "finish", m, n, j)'
    BY <2>3, <2>4 DEF Knows
  <2> QED
    BY <1>2, <1>3, <2>3, <2>7, <2>8
<1> QED
  BY <1>4, <1>5, <1>6, <1>7, <1>8 DEF Loop

LEMMA AloneStep ==
    ASSUME Alone, [Next]_vars
    PROVE  AloneInv'
<1>0. TypeInv /\ PathInv /\ OnlyOne
  BY DEF Alone, QueueInv
<1>1. ASSUME \A w \in Worker : KnowsJob(loc[w])' /\ KnowsList(loc[w])'
      PROVE  AloneInv'
  BY <1>1, LastOneStep DEF AloneInv
<1>2. ASSUME NEW w \in Worker, Body(w) \/ DatabaseFails(w)
      PROVE  AloneInv'
  <2>1. KnowsJob(loc[w])' /\ KnowsList(loc[w])'
    BY <1>2, KnowsBody
  <2>2. ASSUME NEW v \in Worker \ {w}
        PROVE  KnowsJob(loc[v])' /\ KnowsList(loc[v])'
    <3>1. Alive(w)
      BY <1>2 DEF Alive, Body, Begin, Create, InsertDispatch, Link, StartDispatch, RunDispatch,
         DatabaseFails, Judge, AskApproval, NoteApproval, Reach, ReadJob, SwapJob, Retry, ScheduleRetry,
         ReadForFailure, RecordFinal, Release, Inspect, StopDispatch
    <3>2. ~Alive(v)
      BY <1>0, <3>1 DEF OnlyOne
    <3>3. loc[v].at \in {"unborn", "dead"} /\ loc[v].phase = "none"
      BY <1>0, <3>2 DEF Alive, PathInv, PathOK
    <3>4. loc'[v] = loc[v] /\ loc[v].at \notin Working
      BY <1>0, <1>2, <3>3, OthersStay, Sorts
    <3> QED
      BY <3>3, <3>4 DEF KnowsJob, KnowsList
  <2> QED
    BY <1>1, <2>1, <2>2
<1>3. ASSUME ~\E w \in Worker : Body(w) \/ DatabaseFails(w),
             \A w \in Worker : loc'[w] = loc[w] \/ (KnowsJob(loc[w])' /\ KnowsList(loc[w])')
      PROVE  AloneInv'
  <2>1. \A j \in Job : /\ job'[j].link = job[j].link /\ job'[j].attempt = job[j].attempt
                       /\ job[j].status = "preparing" => job'[j].status = "preparing"
    BY <1>0, <1>3, RowsOtherwise
  <2>2. \A w \in Worker : loc'[w] = loc[w] => KnowsJob(loc[w])' /\ KnowsList(loc[w])'
    BY <2>1, KnowsStays
  <2> QED
    BY <1>1, <1>3, <2>2
<1>4. ASSUME NEW w \in Worker, Others(w), KnowsJob(loc[w])', KnowsList(loc[w])'
      PROVE  AloneInv'
  BY <1>2, <1>3, <1>4 DEF Others
<1>5. ASSUME NEW w \in Worker, Loop(w)
      PROVE  AloneInv'
  BY <1>4, <1>5, KnowsLoop
<1>6. ASSUME NEW w \in Worker, Launch(w) \/ Die(w)
      PROVE  AloneInv'
  <2>1. PICK at \in {"idle", "dead"} : Goto(w, Resting(at, "none", {}))
    BY <1>6 DEF Launch, Die
  <2>2. Others(w) /\ IsResting(loc'[w], at, "none", {})
    BY <1>0, <2>1, RestsThere
  <2>3. KnowsJob(loc[w])' /\ KnowsList(loc[w])'
    BY <2>2, Sorts DEF IsResting, KnowsJob, KnowsList, Between
  <2> QED
    BY <1>4, <2>2, <2>3
<1>7. ASSUME NEW w \in Worker, NEW j \in Job, CancelJob(w, j)
      PROVE  AloneInv'
  <2>1. /\ Others(w) /\ loc'[w].phase = "owner" /\ loc'[w].path = "stop"
        /\ loc'[w].at \in {"reading", "stopping"}
    BY <1>0, <1>7, CommandEffect
  <2>2. KnowsJob(loc[w])' /\ KnowsList(loc[w])'
    BY <2>1 DEF KnowsJob, KnowsList, Knows
  <2> QED
    BY <1>4, <2>1, <2>2
<1>8. ASSUME UNCHANGED loc
      PROVE  AloneInv'
  BY <1>2, <1>3, <1>8
<1> QED
  BY <1>2, <1>5, <1>6, <1>7, <1>8
  DEF Next, CancelDispatch, Enqueue, ExpireLease, PassBackoff, Deploy, ChangeMode, vars

LEMMA AloneInit == Init => AloneInv
BY Sorts DEF Init, NoRow, Resting, D!Init, AloneInv, LastOne, KnowsJob, KnowsList, Between

(* A single process, as the singleton lock allows it, runs no agent for a  *)
(* job that is over, nor once an earlier attempt of the job succeeded,     *)
(* however often it dies and is followed by another, whatever becomes of   *)
(* leases, modes, releases and transactions, and whatever the owner        *)
(* commands.                                                               *)
THEOREM TheEndIsTheEnd ==
    ASSUME Processes = 1
    PROVE  Spec => NoWorkAfterTheEnd
<1>1. QueueInv /\ CallsInv /\ AloneInv => Alone
  BY NobodyElse DEF Alone
<1>2. QueueInv /\ CallsInv /\ AloneInv /\ [Next]_vars => CallsInv' /\ AloneInv'
  BY <1>1, CallsStep, AloneStep
<1>3. QueueInv /\ CallsInv /\ AloneInv /\ [Next]_vars =>
         [\A k \in Attempt : Over(k) => executions'[k] = executions[k]]_vars
  BY <1>1, NewExecutions
<1> QED
  BY <1>2, <1>3, QueueAlways, CallsInit, AloneInit, PTL DEF Spec, NoWorkAfterTheEnd

=============================================================================
