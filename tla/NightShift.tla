----------------------------- MODULE NightShift -----------------------------
(***************************************************************************)
(* The Night Shift worker: the scheduler tick that claims overnight jobs   *)
(* under a lease, runs them through the dispatch services and recovers     *)
(* what a dead worker left behind (NightShiftWorker, NightShiftService,    *)
(* NightShiftRepository, _nightshift_tick).                                *)
(*                                                                         *)
(* The dispatches are those of module Dispatch: a worker inside            *)
(* create_dispatch, dispatch or cancel_dispatch takes that module's        *)
(* actions.  One action here is one transaction of the worker, or the read *)
(* of a row that a later compare-and-swap relies on.  A process runs a     *)
(* tick or a Telegram command to its end before it starts the next one.    *)
(***************************************************************************)
EXTENDS Integers, FiniteSets, Sequences

CONSTANTS
    Job,           \* rows of night_queue_jobs
    Worker,        \* worker ids: a restarted process has a new one (uuid4)
    ApprovalId,
    MaxAttempts,   \* NightShiftWorker.max_attempts
    Processes,     \* how many bot processes live at once: the singleton lock
                   \* allows one, scripts/run_local.sh starts without it
    NoWorker, NoKey, NoRequest,
    LeasesExpire, ModeChanges, Crashes, OwnerActs, DatabaseErrors, Deploys
                   \* which parts of the environment are switched on

ASSUME NightShiftAssumption ==
    /\ NoWorker \notin Worker /\ NoKey \notin Job \cup (Job \X Nat)
    /\ MaxAttempts \in Nat \ {0}
    /\ Processes \in Nat \ {0}
    /\ {LeasesExpire, ModeChanges, Crashes, OwnerActs, DatabaseErrors, Deploys} \subseteq BOOLEAN

VARIABLES
    job,     \* Job -> the row
    kind,    \* Job -> the classification of its type in the running release
    night,   \* is the runtime mode night_shift?
    loc,     \* Worker -> where its tick or command stands, and its locals
    status, request, attempts, approval, call, executions, told   \* as in Dispatch

dispatchVars == <<status, request, attempts, approval, call, executions, told>>
vars == <<job, kind, night, loc, dispatchVars>>

-----------------------------------------------------------------------------
(* attempt_count: a process that lost its lease may still add one.         *)
AttemptCount == 0..(MaxAttempts + Processes - 1)

(* The idempotency key is night_shift_job:<job_id>:dispatch:<attempt_count> *)
Attempt == Job \X AttemptCount

(* requested_by holds the worker's id, so two workers never send the same  *)
(* request.                                                                *)
RequestOf(w) == [gated |-> FALSE, registered |-> TRUE, max |-> 1, text |-> w]

ASSUME NoRequestAssumption == NoRequest \notin {RequestOf(w) : w \in Worker}

D == INSTANCE Dispatch WITH
        Key <- Attempt, Caller <- Worker, Requests <- {RequestOf(w) : w \in Worker},
        Syncs <- 0, Crashes <- TRUE

JobStatus == {"absent", "queued", "preparing", "validating", "draft_saved",
              "awaiting_approval", "completed", "rejected", "failed_safely"}

Terminal == {"completed", "rejected", "failed_safely"}   \* _TERMINAL_JOB_STATUSES

(* JOB_TRANSITIONS *)
JobTransitions ==
    [s \in JobStatus |->
        CASE s = "queued"      -> {"preparing", "awaiting_approval", "rejected", "failed_safely"}
          [] s = "preparing"   -> {"validating", "failed_safely"}
          [] s = "validating"  -> {"draft_saved", "failed_safely"}
          [] s = "draft_saved" -> {"awaiting_approval", "failed_safely"}
          [] s = "awaiting_approval" -> Terminal
          [] OTHER             -> {}]

(* overnight: approved_overnight with a route; unrouted: registered but    *)
(* absent from _JOB_TYPE_ROUTES; then deferred_until_morning and prohibited *)
Kind == {"overnight", "unrouted", "deferred", "prohibited"}

(* lease_expires_at: NULL, in the future, or passed.                       *)
Lease == {"free", "held", "expired"}

JobRow == [status : JobStatus, lease : Lease, holder : Worker \cup {NoWorker},
           link : Attempt \cup {NoKey}, attempt : AttemptCount,
           eligible : BOOLEAN, asked : BOOLEAN]

NoRow == [status |-> "absent", lease |-> "free", holder |-> NoWorker, link |-> NoKey,
          attempt |-> 0, eligible |-> TRUE, asked |-> FALSE]

Place == {"unborn", "dead", "idle", "sweep", "begin", "creating", "inserting", "linking",
          "starting", "dispatching", "judging", "asking", "noting", "reaching", "reading",
          "swapping", "retrying", "scheduling", "failing", "recording", "releasing",
          "inspecting", "stopping"}

(* What a run of worker code is for, which decides what follows a change   *)
(* of the job's status.                                                    *)
Path == {"none", "claim", "finish", "defer", "fail", "stop", "prohibit"}

(* A job on the list of the current loop, with the columns that the loop   *)
(* body reads from the list instead of the row.                            *)
Item == [job : Job, link : Attempt \cup {NoKey}, stale : BOOLEAN]

Locals == [at : Place, phase : {"none", "claims", "recovery", "owner"}, todo : SUBSET Item,
           job : Job \cup {NoKey}, key : Attempt \cup {NoKey}, path : Path,
           goal : JobStatus, seen : JobStatus, tries : AttemptCount]

Resting(place, phase, todo) ==
    [at |-> place, phase |-> phase, todo |-> todo, job |-> NoKey, key |-> NoKey,
     path |-> "none", goal |-> "absent", seen |-> "absent", tries |-> 0]

Alive(w) == loc[w].at \notin {"unborn", "dead"}

(* The worker goes on at place, with the given locals changed.             *)
Goto(w, new) == loc' = [loc EXCEPT ![w] = new]
At(w, place) == [loc[w] EXCEPT !.at = place]

(* The end of one job in a loop, or of the owner's command.                *)
Done(w) ==
    Goto(w, IF loc[w].phase = "owner"
            THEN Resting("idle", "none", {})
            ELSE Resting("sweep", loc[w].phase,
                         {i \in loc[w].todo : i.job # loc[w].job}))

Fail(w) == Goto(w, [At(w, "failing") EXCEPT !.path = "fail", !.tries = 0])

Row(w) == job[loc[w].job]
SetRow(w, row) == job' = [job EXCEPT ![loc[w].job] = row]

OnlyWorker == UNCHANGED <<kind, night>>
DispatchIdle == UNCHANGED dispatchVars

-----------------------------------------------------------------------------
Init ==
    /\ job = [j \in Job |-> NoRow]
    /\ kind = [j \in Job |-> "overnight"]
    /\ night = TRUE
    /\ loc = [w \in Worker |-> Resting("unborn", "none", {})]
    /\ D!Init

(* enqueue_night_job                                                       *)
Enqueue(j, c, eligible) ==
    /\ job[j].status = "absent"
    /\ job' = [job EXCEPT ![j].status = IF c = "deferred" THEN "awaiting_approval" ELSE "queued",
                          ![j].eligible = eligible]
    /\ kind' = [kind EXCEPT ![j] = c]
    /\ UNCHANGED <<night, loc>> /\ DispatchIdle

-----------------------------------------------------------------------------
(* The statuses list_eligible_jobs lists and claim_lease accepts.  With    *)
(* one less, a job that is to be retried never is.                         *)
ClaimableOnce(j) == job[j].status = "queued"

Claimable(j) == job[j].status \in {"queued", "preparing"}

Eligible(j) ==
    /\ Claimable(j)
    /\ kind[j] # "prohibited"
    /\ job[j].eligible
    /\ job[j].attempt < MaxAttempts
    /\ job[j].lease # "held"

Prohibited(j) == Claimable(j) /\ kind[j] = "prohibited"

(* list_eligible_jobs: the ids are all that the loop uses of the list.     *)
Scan(w) ==
    /\ loc[w].at = "idle"
    /\ Goto(w, Resting("sweep", "claims",
            {[job |-> j, link |-> NoKey, stale |-> FALSE] :
                j \in {i \in Job : night /\ (Eligible(i) \/ Prohibited(i))}}))
    /\ UNCHANGED job /\ OnlyWorker /\ DispatchIdle

(* _reject_prohibited, of every prohibited job found before any is claimed. *)
RejectProhibited(w, j) ==
    /\ loc[w].at = "sweep" /\ loc[w].phase = "claims"
    /\ j \in {i.job : i \in loc[w].todo}
    /\ kind[j] = "prohibited"
    /\ Goto(w, [At(w, "reading") EXCEPT !.job = j, !.path = "prohibit", !.goal = "rejected"])
    /\ UNCHANGED job /\ OnlyWorker /\ DispatchIdle

(* claim_lease without its lease condition.                                *)
ClaimAnyway(w, j) ==
    /\ loc[w].at = "sweep" /\ loc[w].phase = "claims"
    /\ j \in {i.job : i \in loc[w].todo}
    /\ Claimable(j)
    /\ job' = [job EXCEPT ![j].lease = "held", ![j].holder = w]
    /\ Goto(w, IF job[j].status = "queued"
               THEN [At(w, "reading") EXCEPT !.job = j, !.path = "claim", !.goal = "preparing"]
               ELSE [At(w, "begin") EXCEPT !.job = j])
    /\ OnlyWorker /\ DispatchIdle

(* claim_job: the lease by compare-and-swap, then queued -> preparing.  A  *)
(* miss raises NightJobAlreadyClaimedError and the loop goes on.           *)
ClaimJob(w, j) ==
    /\ loc[w].at = "sweep" /\ loc[w].phase = "claims"
    /\ j \in {i.job : i \in loc[w].todo}
    /\ \A i \in loc[w].todo : kind[i.job] # "prohibited"
    /\ \/ /\ Claimable(j) /\ job[j].lease # "held"
          /\ job' = [job EXCEPT ![j].lease = "held", ![j].holder = w]
          /\ Goto(w, IF job[j].status = "queued"
                     THEN [At(w, "reading") EXCEPT !.job = j, !.path = "claim", !.goal = "preparing"]
                     ELSE [At(w, "begin") EXCEPT !.job = j])
       \/ /\ ~(Claimable(j) /\ job[j].lease # "held")
          /\ Goto(w, [loc[w] EXCEPT !.todo = {i \in @ : i.job # j}])
          /\ UNCHANGED job
    /\ OnlyWorker /\ DispatchIdle

(* claim_job's last read of the row, and execute_via_dispatch up to its    *)
(* first call: which attempt this is, and whether it may run unattended.   *)
Begin(w) ==
    LET key == <<loc[w].job, Row(w).attempt>>
    IN  /\ loc[w].at = "begin"
        /\ \/ /\ kind[loc[w].job] = "overnight"
              /\ Goto(w, [At(w, "creating") EXCEPT !.key = key, !.path = "finish"])
           \/ /\ kind[loc[w].job] = "unrouted"
              /\ Fail(w)
           \/ /\ kind[loc[w].job] = "deferred"
              /\ Goto(w, IF Row(w).link = NoKey
                         THEN [At(w, "creating") EXCEPT !.key = key, !.path = "defer"]
                         ELSE [At(w, "asking") EXCEPT !.key = Row(w).link, !.path = "defer"])
        /\ UNCHANGED job /\ OnlyWorker /\ DispatchIdle

-----------------------------------------------------------------------------
(* create_dispatch: a new row, the same request again, or                  *)
(* DuplicateDispatchError, which is not retryable.                         *)
Create(w) ==
    LET k == loc[w].key
    IN  /\ loc[w].at = "creating"
        /\ \/ D!LookUp(w, k, RequestOf(w)) /\ Goto(w, At(w, "inserting"))
           \/ status[k] # "absent" /\ request[k] = RequestOf(w)
                 /\ Goto(w, At(w, "linking")) /\ DispatchIdle
           \/ status[k] # "absent" /\ request[k] # RequestOf(w)
                 /\ Fail(w) /\ DispatchIdle
        /\ UNCHANGED job /\ OnlyWorker

(* Its insert; losing it raises sqlite3.IntegrityError, an internal error. *)
InsertDispatch(w) ==
    /\ loc[w].at = "inserting"
    /\ \/ D!Insert(w) /\ Goto(w, At(w, "linking"))
       \/ D!InsertLost(w) /\ Fail(w)
    /\ UNCHANGED job /\ OnlyWorker

(* set_dispatch_id                                                         *)
Link(w) ==
    /\ loc[w].at = "linking"
    /\ SetRow(w, [Row(w) EXCEPT !.link = loc[w].key])
    /\ Goto(w, At(w, IF loc[w].path = "defer" THEN "asking" ELSE "starting"))
    /\ OnlyWorker /\ DispatchIdle

(* dispatch(): entered only for a row that is ready to run, and refused    *)
(* with an error that is not retryable otherwise.                          *)
StartDispatch(w) ==
    /\ loc[w].at = "starting"
    /\ \/ D!ReadForDispatch(w, loc[w].key) /\ Goto(w, At(w, "dispatching"))
       \/ status[loc[w].key] \notin D!Startable /\ Fail(w) /\ DispatchIdle
    /\ UNCHANGED job /\ OnlyWorker

(* The rest of dispatch().  It returns the row after a finished attempt;   *)
(* any other end is StaleUpdateError, which is not retryable.              *)
RunDispatch(w) ==
    /\ loc[w].at = "dispatching"
    /\ \/ D!Claim(w) \/ D!MarkRunning(w) \/ D!BeginAttempt(w) \/ D!Execute(w) \/ D!Finish(w)
    /\ \/ call'[w] # D!Idle /\ UNCHANGED loc
       \/ /\ call'[w] = D!Idle
          /\ IF call[w].at = "finishing" /\ status[loc[w].key] = "running"
             THEN Goto(w, At(w, "judging"))
             ELSE Fail(w)
    /\ UNCHANGED job /\ OnlyWorker

(* A transaction of create_dispatch or dispatch() fails: the worker        *)
(* catches it as an internal error and goes on.                            *)
DatabaseFails(w) ==
    /\ DatabaseErrors
    /\ loc[w].at \in {"inserting", "dispatching"}
    /\ D!Crash(w)
    /\ Fail(w)
    /\ UNCHANGED job /\ OnlyWorker

(* What the worker does with the status of a dispatch it gets back.        *)
AfterResult(s) ==
    CASE s = "succeeded" -> "reaching"
      [] s = "cancelled" -> "failing"
      [] OTHER           -> "retrying"

(* A result that is judged by whether the dispatch is over.                *)
JudgeByEnd(w) ==
    /\ loc[w].at = "judging"
    /\ Goto(w, At(w, "reaching"))
    /\ UNCHANGED job /\ OnlyWorker /\ DispatchIdle

(* The record dispatch() returns, read after its last transaction.         *)
Judge(w) ==
    /\ loc[w].at = "judging"
    /\ Goto(w, At(w, AfterResult(status[loc[w].key])))
    /\ UNCHANGED job /\ OnlyWorker /\ DispatchIdle

-----------------------------------------------------------------------------
(* defer_for_approval: request_approval, then set_approval_id.             *)
AskApproval(w) ==
    /\ loc[w].at = "asking"
    /\ \/ \E a \in ApprovalId : D!RequestApproval(loc[w].key, a, "none")
       \/ D!Open(loc[w].key) # {} /\ DispatchIdle
    /\ Goto(w, At(w, "noting"))
    /\ UNCHANGED job /\ OnlyWorker

NoteApproval(w) ==
    /\ loc[w].at = "noting"
    /\ SetRow(w, [Row(w) EXCEPT !.asked = TRUE])
    /\ Goto(w, At(w, "reaching"))
    /\ OnlyWorker /\ DispatchIdle

(* _reach_draft_saved, its first read of the row: preparing and validating *)
(* are moved on; for any other status it returns without a complaint.      *)
Reach(w) ==
    LET s == Row(w).status
    IN  /\ loc[w].at = "reaching"
        /\ Goto(w,
              IF s \in {"preparing", "validating"}
              THEN [At(w, "reading") EXCEPT
                       !.goal = IF s = "preparing" THEN "validating" ELSE "draft_saved"]
              ELSE IF loc[w].path = "defer"
              THEN [At(w, "reading") EXCEPT !.goal = "awaiting_approval"]
              ELSE At(w, "releasing"))
        /\ UNCHANGED job /\ OnlyWorker /\ DispatchIdle

(* What follows a transition that was made.                                *)
Moved(w) ==
    LET goal == loc[w].goal
        path == loc[w].path
        again(g) == Goto(w, [At(w, "reading") EXCEPT !.goal = g])
    IN  CASE path = "claim"       -> Goto(w, At(w, "begin"))
          [] path = "prohibit"    -> Done(w)
          [] path = "fail"        -> Goto(w, At(w, "recording"))
          [] goal = "validating"  -> again("draft_saved")
          [] goal = "draft_saved" /\ path = "defer" -> again("awaiting_approval")
          [] OTHER                -> Goto(w, At(w, "releasing"))

(* What follows InvalidNightJobTransitionError.                            *)
Refused(w) ==
    CASE loc[w].path = "claim" -> Goto(w, At(w, "releasing"))
      [] loc[w].path \in {"prohibit", "stop"} -> Done(w)
      [] loc[w].path = "fail"  -> Goto(w, At(w, "recording"))
      [] OTHER                 -> Fail(w)

(* transition_night_job: the read and the check against JOB_TRANSITIONS,   *)
ReadJob(w) ==
    LET s == Row(w).status
    IN  /\ loc[w].at = "reading"
        /\ IF loc[w].goal \in JobTransitions[s]
           THEN Goto(w, [At(w, "swapping") EXCEPT !.seen = s])
           ELSE Refused(w)
        /\ UNCHANGED job /\ OnlyWorker /\ DispatchIdle

(* The update without its WHERE status = expected.                         *)
BlindSwapJob(w) ==
    /\ loc[w].at = "swapping"
    /\ SetRow(w, [Row(w) EXCEPT !.status = loc[w].goal])
    /\ Moved(w)
    /\ OnlyWorker /\ DispatchIdle

(* and transition_job, the compare-and-swap.                               *)
SwapJob(w) ==
    /\ loc[w].at = "swapping"
    /\ IF Row(w).status = loc[w].seen
       THEN SetRow(w, [Row(w) EXCEPT !.status = loc[w].goal]) /\ Moved(w)
       ELSE Refused(w) /\ UNCHANGED job
    /\ OnlyWorker /\ DispatchIdle

-----------------------------------------------------------------------------
(* _retry_or_fail: the attempt count of the row, read before it is         *)
(* written.                                                                *)
Retry(w) ==
    LET n == Row(w).attempt + 1
    IN  /\ loc[w].at = "retrying"
        /\ Goto(w, [At(w, IF n < MaxAttempts THEN "scheduling" ELSE "failing") EXCEPT
                       !.path = "fail", !.tries = n])
        /\ UNCHANGED job /\ OnlyWorker /\ DispatchIdle

(* schedule_retry: no condition on the row, status untouched.              *)
ScheduleRetry(w) ==
    /\ loc[w].at = "scheduling"
    /\ SetRow(w, [Row(w) EXCEPT !.attempt = loc[w].tries, !.eligible = FALSE,
                                !.lease = "free", !.holder = NoWorker])
    /\ Done(w)
    /\ OnlyWorker /\ DispatchIdle

(* _fail_terminally, its read of the row.                                  *)
ReadForFailure(w) ==
    LET tries == IF loc[w].tries = 0 THEN Row(w).attempt ELSE loc[w].tries
    IN  /\ loc[w].at = "failing"
        /\ Goto(w, IF Row(w).status \in Terminal
                   THEN [At(w, "recording") EXCEPT !.path = "fail", !.tries = tries]
                   ELSE [At(w, "reading") EXCEPT !.path = "fail", !.tries = tries,
                                                 !.goal = "failed_safely"])
        /\ UNCHANGED job /\ OnlyWorker /\ DispatchIdle

(* record_final_attempt                                                    *)
RecordFinal(w) ==
    /\ loc[w].at = "recording"
    /\ SetRow(w, [Row(w) EXCEPT !.attempt = loc[w].tries])
    /\ Goto(w, At(w, "releasing"))
    /\ OnlyWorker /\ DispatchIdle

(* release_lease: whoever holds it.                                        *)
Release(w) ==
    /\ loc[w].at = "releasing"
    /\ SetRow(w, [Row(w) EXCEPT !.lease = "free", !.holder = NoWorker])
    /\ Done(w)
    /\ OnlyWorker /\ DispatchIdle

-----------------------------------------------------------------------------
(* A recovery that runs in the night only, as the claims do.               *)
ListStaleAtNight(w) ==
    /\ loc[w].at = "sweep" /\ loc[w].phase = "claims" /\ loc[w].todo = {}
    /\ Goto(w, Resting("sweep", "recovery",
            {[job |-> j, link |-> job[j].link, stale |-> job[j].lease = "expired"] :
                j \in {i \in Job : night /\ job[i].status = "preparing"}}))
    /\ UNCHANGED job /\ OnlyWorker /\ DispatchIdle

(* The second loop of the tick, over the jobs that are preparing now,      *)
(* whatever the mode: the columns tested below are those of this list.     *)
ListStale(w) ==
    /\ loc[w].at = "sweep" /\ loc[w].phase = "claims" /\ loc[w].todo = {}
    /\ Goto(w, Resting("sweep", "recovery",
            {[job |-> j, link |-> job[j].link, stale |-> job[j].lease = "expired"] :
                j \in {i \in Job : job[i].status = "preparing"}}))
    /\ UNCHANGED job /\ OnlyWorker /\ DispatchIdle

EndTick(w) ==
    /\ loc[w].at = "sweep" /\ loc[w].phase = "recovery" /\ loc[w].todo = {}
    /\ Goto(w, Resting("idle", "none", {}))
    /\ UNCHANGED job /\ OnlyWorker /\ DispatchIdle

(* recover_stale_job: an active lease, or none, is left alone.             *)
Recover(w, i) ==
    /\ loc[w].at = "sweep" /\ loc[w].phase = "recovery"
    /\ i \in loc[w].todo
    /\ Goto(w, IF ~i.stale THEN [loc[w] EXCEPT !.todo = @ \ {i}]
               ELSE IF i.link = NoKey THEN [At(w, "retrying") EXCEPT !.job = i.job]
               ELSE [At(w, "inspecting") EXCEPT !.job = i.job, !.key = i.link, !.path = "finish"])
    /\ UNCHANGED job /\ OnlyWorker /\ DispatchIdle

AfterInspection(s) ==
    CASE s = "succeeded"                  -> "reaching"
      [] s \in {"cancelled", "rejected"} -> "failing"
      [] s = "awaiting_approval"          -> "releasing"
      [] s \in D!Busy                    -> "stopping"
      [] OTHER                            -> "retrying"

(* A recovery that cancels and retries without looking.                    *)
InspectNothing(w) ==
    /\ loc[w].at = "inspecting"
    /\ Goto(w, At(w, "stopping"))
    /\ UNCHANGED job /\ OnlyWorker /\ DispatchIdle

(* It looks at the dispatch before it decides,                             *)
Inspect(w) ==
    /\ loc[w].at = "inspecting"
    /\ Goto(w, At(w, AfterInspection(status[loc[w].key])))
    /\ UNCHANGED job /\ OnlyWorker /\ DispatchIdle

(* and cancels one that is in flight; a refusal is ignored.                *)
StopDispatch(w) ==
    /\ loc[w].at = "stopping"
    /\ \/ D!Cancel(loc[w].key)
       \/ status[loc[w].key] \in D!Closed /\ DispatchIdle
    /\ Goto(w, IF loc[w].path = "stop"
               THEN [At(w, "reading") EXCEPT !.goal = "failed_safely"]
               ELSE At(w, "retrying"))
    /\ UNCHANGED job /\ OnlyWorker

-----------------------------------------------------------------------------
(* cancel_job, on the owner's command: its read of the row.                *)
CancelJob(w, j) ==
    /\ OwnerActs
    /\ loc[w].at = "idle"
    /\ job[j].status \notin Terminal \cup {"absent"}
    /\ LET l == [Resting("reading", "owner", {}) EXCEPT
                     !.job = j, !.path = "stop", !.goal = "failed_safely"]
       IN  Goto(w, IF job[j].link = NoKey THEN l
                   ELSE [l EXCEPT !.at = "stopping", !.key = job[j].link, !.goal = "absent"])
    /\ UNCHANGED job /\ OnlyWorker /\ DispatchIdle

(* The owner's /canceldispatch of a night-shift dispatch.                  *)
CancelDispatch(k) ==
    /\ OwnerActs
    /\ \E w \in Worker : loc[w].at = "idle"
    /\ D!Cancel(k)
    /\ UNCHANGED <<job, loc>> /\ OnlyWorker

(* The runtime mode, by schedule or by command.                            *)
ChangeMode ==
    /\ ModeChanges
    /\ night' = ~night
    /\ UNCHANGED <<job, kind, loc>> /\ DispatchIdle

(* lease_expires_at passes,                                                *)
ExpireLease(j) ==
    /\ LeasesExpire
    /\ job[j].lease = "held"
    /\ job' = [job EXCEPT ![j].lease = "expired"]
    /\ UNCHANGED <<kind, night, loc>> /\ DispatchIdle

(* and so does eligible_after.                                             *)
PassBackoff(j) ==
    /\ ~job[j].eligible
    /\ job' = [job EXCEPT ![j].eligible = TRUE]
    /\ UNCHANGED <<kind, night, loc>> /\ DispatchIdle

(* A process starts,                                                       *)
Launch(w) ==
    /\ loc[w].at = "unborn"
    /\ Cardinality({v \in Worker : Alive(v)}) < Processes
    /\ Goto(w, Resting("idle", "none", {}))
    /\ UNCHANGED job /\ OnlyWorker /\ DispatchIdle

(* and dies, with its locals.                                              *)
Die(w) ==
    /\ Crashes
    /\ Alive(w)
    /\ Goto(w, Resting("dead", "none", {}))
    /\ IF call[w] = D!Idle THEN DispatchIdle ELSE D!Crash(w)
    /\ UNCHANGED job /\ OnlyWorker

(* A release that classifies the type of a job differently is installed.   *)
Deploy(j, c) ==
    /\ Deploys
    /\ \A w \in Worker : ~Alive(w)
    /\ kind' = [kind EXCEPT ![j] = c]
    /\ UNCHANGED <<job, night, loc>> /\ DispatchIdle

-----------------------------------------------------------------------------
Loop(w) ==
    \/ Scan(w) \/ ListStale(w) \/ EndTick(w)
    \/ \E j \in Job : RejectProhibited(w, j) \/ ClaimJob(w, j)
    \/ \E i \in loc[w].todo : Recover(w, i)

Body(w) ==
    \/ Begin(w) \/ Create(w) \/ InsertDispatch(w) \/ Link(w) \/ StartDispatch(w)
    \/ RunDispatch(w) \/ Judge(w) \/ AskApproval(w) \/ NoteApproval(w)
    \/ Reach(w) \/ ReadJob(w) \/ SwapJob(w)
    \/ Retry(w) \/ ScheduleRetry(w) \/ ReadForFailure(w) \/ RecordFinal(w) \/ Release(w)
    \/ Inspect(w) \/ StopDispatch(w)

Next ==
    \/ \E w \in Worker : Loop(w) \/ Body(w) \/ DatabaseFails(w) \/ Launch(w) \/ Die(w)
    \/ \E w \in Worker, j \in Job : CancelJob(w, j)
    \/ \E k \in Attempt : CancelDispatch(k)
    \/ \E j \in Job, c \in Kind \ {"prohibited"}, e \in BOOLEAN : Enqueue(j, c, e)
    \/ \E j \in Job : ExpireLease(j) \/ PassBackoff(j) \/ \E c \in Kind : Deploy(j, c)
    \/ ChangeMode

Spec == Init /\ [][Next]_vars

(* The job queue fires the tick every 300 seconds and the tick runs to its *)
(* end, time passes, and the service manager restarts a process that died. *)
FairSpec ==
    /\ Spec
    /\ \A w \in Worker : WF_vars(Loop(w) \/ Body(w)) /\ WF_vars(Launch(w))
    /\ \A j \in Job : WF_vars(ExpireLease(j)) /\ WF_vars(PassBackoff(j))

-----------------------------------------------------------------------------
(* Every variable has its type.                                            *)
TypeOK ==
    /\ job \in [Job -> JobRow]
    /\ kind \in [Job -> Kind]
    /\ night \in BOOLEAN
    /\ loc \in [Worker -> Locals]
    /\ D!TypeOK

Executions(j) == {k \in Attempt : k[1] = j /\ executions[k] > 0}

(* A job is presented as a ready draft only if some dispatch of it         *)
(* succeeded, or if it was deferred to the owner's decision: a crash, a    *)
(* retry or a recovery never turns unfinished work into a draft.           *)
DraftsAreEarned ==
    \A j \in Job :
        job[j].status \in {"validating", "draft_saved"} /\ ~job[j].asked =>
            \E k \in Attempt : k[1] = j /\ status[k] = "succeeded"

(* A job runs no agent any more once it is over, or once an earlier        *)
(* attempt succeeded - although the tick that ran that one may have died   *)
(* before it told the job row (docs/SPRINT_5F: reconciled without being    *)
(* retried).                                                               *)
Over(k) == \/ job[k[1]].status \in Terminal
           \/ \E m \in Attempt : m[1] = k[1] /\ m[2] < k[2] /\ status[m] = "succeeded"

NoWorkAfterTheEnd ==
    [][\A k \in Attempt : Over(k) => executions'[k] = executions[k]]_vars

(* A job that is over stays over, whichever ticks and commands still hold  *)
(* an older view of its row.                                               *)
TerminalStays ==
    [][\A j \in Job : job[j].status \in Terminal => job'[j].status = job[j].status]_vars

(* While no lease runs out, no two workers are at work on one job          *)
(* (WAVE_3_INTEGRATION_CONTRACT: duplicate worker pickup).                 *)
OneWorkerPerJob ==
    \A v, w \in Worker :
        loc[v].job = loc[w].job /\ loc[v].job # NoKey
            /\ loc[v].phase = "claims" /\ loc[w].phase = "claims" => v = w

(* Without crashes every job of a night settles: a draft, an approval to   *)
(* give or a final status, whatever its attempts end with.                 *)
Settled == {"draft_saved", "awaiting_approval"} \cup Terminal
JobsSettle ==
    \A j \in Job : job[j].status # "absent" ~> job[j].status \in Settled

(* A job whose worker died under its lease is dealt with by a later tick,  *)
(* by day as well as by night, if only some process lives on.              *)
SomebodyLives == <>[](\E w \in Worker : Alive(w))
Orphaned(j) == job[j].status = "preparing" /\ job[j].lease = "expired"
OrphansAreRecovered ==
    SomebodyLives => \A j \in Job : Orphaned(j) ~> ~Orphaned(j)

-----------------------------------------------------------------------------
(* What the documents say and the code does not do.                        *)

(* docs/SPRINT_5F: a dispatch that actually succeeded is reconciled        *)
(* without being retried or discarded, so its job does not fail.           *)
SucceededNeverDiscarded ==
    \A j \in Job :
        job[j].status = "failed_safely" /\ job[j].link # NoKey => status[job[j].link] # "succeeded"

=============================================================================
