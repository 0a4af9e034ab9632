---------------------------- MODULE Assignment ----------------------------
(***************************************************************************)
(* Agent assignments: who is to do a work item, from the proposal to the   *)
(* end, and the dispatch that does it (AgentAssignmentService over         *)
(* DispatchService and ApprovalService, with the owner's /approve,         *)
(* /reject, /canceldispatch and /retrydispatch of such a dispatch).        *)
(*                                                                         *)
(* Every assignment is identified with its row and, since the idempotency  *)
(* key of its dispatch is made from the assignment id, with its dispatch.  *)
(* One action is one transaction, or reads that a later transaction relies *)
(* on; the transactions of the dispatch are those of module Dispatch.      *)
(***************************************************************************)
EXTENDS AssignmentRequest, FiniteSets, Sequences

CONSTANTS
    ApprovalId,
    Caller         \* threads or processes that serve a call each

VARIABLES
    row,       \* Assignment -> the row
    loc,       \* Caller -> where its method stands, and its locals
    retries,   \* Assignment -> the retry_started events of its dispatch
    status, request, attempts, approval, call, executions, told   \* as in Dispatch

dispatchVars == <<status, request, attempts, approval, call, executions, told>>
vars == <<row, loc, retries, dispatchVars>>

-----------------------------------------------------------------------------
D == INSTANCE Dispatch WITH
        Key <- Assignment, NoKey <- NoAssignment, Requests <- Asks, NoRequest <- NoAsk,
        Syncs <- 0, Crashes <- TRUE

Ended  == {"completed", "cancelled", "reassigned"}
AssignmentStatus == {"absent", "proposed", "accepted", "in_progress"} \cup Ended

(* _TRANSITIONS *)
Transitions == [s \in AssignmentStatus |->
    CASE s = "proposed"    -> {"accepted", "cancelled"}
      [] s = "accepted"    -> {"in_progress", "cancelled", "reassigned"}
      [] s = "in_progress" -> {"completed", "reassigned"}
      [] OTHER             -> {}]

Row == [status : AssignmentStatus, work : Work, linked : BOOLEAN,
        replaces : Assignment \cup {NoAssignment}]

Place == {"idle", "swapping", "replacing", "creating", "inserting", "asking", "starting",
          "dispatching", "linking"}

(* starts: start_execution goes on after its dispatch, /approve does not.  *)
Idle == [at |-> "idle", as |-> NoAssignment, seen |-> "absent", goal |-> "absent",
         ask |-> NoAsk, starts |-> FALSE]

Locals == [at : Place, as : Assignment \cup {NoAssignment}, seen : AssignmentStatus,
           goal : AssignmentStatus, ask : {NoAsk} \cup Asks, starts : BOOLEAN]

Goto(p, new) == loc' = [loc EXCEPT ![p] = new]
At(p, place) == [loc[p] EXCEPT !.at = place]
Return(p)    == Goto(p, Idle)
DispatchIdle == UNCHANGED <<dispatchVars, retries>>

-----------------------------------------------------------------------------
Absent == [status |-> "absent", work |-> [gated |-> FALSE, registered |-> TRUE],
           linked |-> FALSE, replaces |-> NoAssignment]

Init ==
    /\ row = [i \in Assignment |-> Absent]
    /\ loc = [p \in Caller |-> Idle]
    /\ retries = [i \in Assignment |-> 0]
    /\ D!Init

(* propose_assignment, of an agent that is registered for the capability.  *)
Propose(i, w) ==
    /\ row[i] = Absent
    /\ row' = [row EXCEPT ![i] = [Absent EXCEPT !.status = "proposed", !.work = w]]
    /\ UNCHANGED loc /\ DispatchIdle

(* accept_assignment, complete_assignment, cancel_assignment: the read of  *)
(* the row and the check against _TRANSITIONS,                             *)
Ask(p, i, goal) ==
    /\ loc[p] = Idle
    /\ goal \in Transitions[row[i].status] \ {"in_progress", "reassigned"}
    /\ Goto(p, [Idle EXCEPT !.at = "swapping", !.as = i, !.seen = row[i].status, !.goal = goal])
    /\ UNCHANGED row /\ DispatchIdle

(* and transition_in: a compare-and-swap, or AssignmentStaleUpdateError.   *)
Swap(p) ==
    LET i == loc[p].as
    IN  /\ loc[p].at = "swapping"
        /\ row' = IF row[i].status = loc[p].seen
                  THEN [row EXCEPT ![i].status = loc[p].goal] ELSE row
        /\ Return(p) /\ DispatchIdle

(* reassign, its read of the row and the check of the new agent,           *)
OpenReassign(p, i) ==
    /\ loc[p] = Idle
    /\ "reassigned" \in Transitions[row[i].status]
    /\ Goto(p, [Idle EXCEPT !.at = "replacing", !.as = i, !.seen = row[i].status])
    /\ UNCHANGED row /\ DispatchIdle

Replacement(i, w) == [Absent EXCEPT !.status = "proposed", !.work = w, !.replaces = i]

(* and its transaction: the old row is closed and the new one proposed,    *)
(* with the same capability and another agent.                             *)
Replace(p) ==
    LET i == loc[p].as
    IN  /\ loc[p].at = "replacing"
        /\ \/ /\ row[i].status = loc[p].seen
              /\ \E j \in Assignment, w \in Work :
                    /\ row[j] = Absent /\ w.gated = row[i].work.gated
                    /\ row' = [row EXCEPT ![i].status = "reassigned", ![j] = Replacement(i, w)]
           \/ row[i].status # loc[p].seen /\ UNCHANGED row
        /\ Return(p) /\ DispatchIdle

-----------------------------------------------------------------------------
(* A start that does not look at the status of the assignment.             *)
StartAny(p, i, o) ==
    /\ loc[p] = Idle
    /\ row[i].status # "absent"
    /\ Goto(p, [Idle EXCEPT !.at = "creating", !.as = i, !.ask = RequestOf(row[i].work, o),
                            !.starts = TRUE])
    /\ UNCHANGED row /\ DispatchIdle

(* start_execution, its read of the row: only accepted leads to            *)
(* in_progress.                                                            *)
Start(p, i, o) ==
    /\ loc[p] = Idle
    /\ row[i].status = "accepted"
    /\ Goto(p, [Idle EXCEPT !.at = "creating", !.as = i, !.ask = RequestOf(row[i].work, o),
                            !.starts = TRUE])
    /\ UNCHANGED row /\ DispatchIdle

(* What follows create_dispatch, by capability.                            *)
Created(p) == Goto(p, At(p, IF loc[p].ask.gated THEN "asking" ELSE "starting"))

(* create_dispatch: a new row, the row of an earlier start by the same     *)
(* actor, or DuplicateDispatchError for another actor's.                   *)
Create(p) ==
    LET k == loc[p].as
    IN  /\ loc[p].at = "creating"
        /\ \/ D!LookUp(p, k, loc[p].ask) /\ Goto(p, At(p, "inserting")) /\ UNCHANGED retries
           \/ status[k] # "absent" /\ request[k] = loc[p].ask /\ Created(p) /\ DispatchIdle
           \/ status[k] # "absent" /\ request[k] # loc[p].ask /\ Return(p) /\ DispatchIdle
        /\ UNCHANGED row

(* Its insert, with an approval that never expires; losing it raises.      *)
InsertDispatch(p) ==
    /\ loc[p].at = "inserting"
    /\ \/ /\ D!Insert(p)
          /\ \A a \in ApprovalId : approval'[a].deadline = "none"
          /\ Created(p)
       \/ D!InsertLost(p) /\ Return(p)
    /\ UNCHANGED <<row, retries>>

(* request_approval, whatever the status of the dispatch is by now.        *)
AskApproval(p) ==
    LET k == loc[p].as
    IN  /\ loc[p].at = "asking"
        /\ \/ \E a \in ApprovalId : D!RequestApproval(k, a, "none") /\ UNCHANGED retries
           \/ D!Open(k) # {} /\ DispatchIdle
        /\ Goto(p, At(p, "linking"))
        /\ UNCHANGED row

(* dispatch(), entered for a row that is ready to run and refused with     *)
(* StaleUpdateError otherwise, which start_execution lets through.         *)
StartDispatch(p) ==
    /\ loc[p].at = "starting"
    /\ \/ D!ReadForDispatch(p, loc[p].as) /\ Goto(p, At(p, "dispatching")) /\ UNCHANGED retries
       \/ status[loc[p].as] \notin D!Startable /\ Return(p) /\ DispatchIdle
    /\ UNCHANGED row

(* A retry that was claimed is an event of the row.                        *)
CountRetry(p) ==
    retries' = IF call[p].retry /\ call[p].at = "starting" /\ call'[p].at = "claimed"
               THEN [retries EXCEPT ![loc[p].as] = @ + 1] ELSE retries

(* A dispatch() whose errors are swallowed.                                *)
RunAnyway(p) ==
    /\ loc[p].at = "dispatching"
    /\ \/ D!Claim(p) \/ D!MarkRunning(p) \/ D!BeginAttempt(p) \/ D!Execute(p) \/ D!Finish(p)
    /\ CountRetry(p)
    /\ IF call'[p] # D!Idle THEN UNCHANGED loc
       ELSE IF loc[p].starts THEN Goto(p, At(p, "linking")) ELSE Return(p)
    /\ UNCHANGED row

(* The rest of dispatch(), or of retry_dispatch(): it returns the row      *)
(* after an attempt that was recorded, whatever its outcome; any other end *)
(* raises.                                                                 *)
RunDispatch(p) ==
    LET recorded == call[p].at = "finishing" /\ status[loc[p].as] = "running"
    IN  /\ loc[p].at = "dispatching"
        /\ \/ D!Claim(p) \/ D!MarkRunning(p) \/ D!BeginAttempt(p) \/ D!Execute(p) \/ D!Finish(p)
        /\ CountRetry(p)
        /\ IF call'[p] # D!Idle THEN UNCHANGED loc
           ELSE IF recorded /\ loc[p].starts THEN Goto(p, At(p, "linking")) ELSE Return(p)
        /\ UNCHANGED row

(* accepted -> in_progress with the dispatch id, or a stale update.        *)
Link(p) ==
    LET i == loc[p].as
    IN  /\ loc[p].at = "linking"
        /\ row' = IF row[i].status = "accepted" /\ ~row[i].linked
                  THEN [row EXCEPT ![i].status = "in_progress", ![i].linked = TRUE] ELSE row
        /\ Return(p) /\ DispatchIdle

-----------------------------------------------------------------------------
(* /approve: the approval, and then dispatch() of what was approved.       *)
ApproveCommand(p, a) ==
    /\ loc[p] = Idle
    /\ D!Approve(a)
    /\ Goto(p, [Idle EXCEPT !.at = "starting", !.as = approval[a].key])
    /\ UNCHANGED <<row, retries>>

(* /retrydispatch: the owner has the agent called again, while attempts    *)
(* are left, whatever the assignment is by then.                           *)
RetryCommand(p, i) ==
    /\ loc[p] = Idle
    /\ D!ReadForRetry(p, i)
    /\ Goto(p, [Idle EXCEPT !.at = "dispatching", !.as = i])
    /\ UNCHANGED <<row, retries>>

(* /reject and /canceldispatch.                                            *)
RejectCommand(a) == D!Reject(a) /\ UNCHANGED <<row, loc, retries>>
CancelDispatch(k) == D!Cancel(k) /\ UNCHANGED <<row, loc, retries>>

(* The process dies, or a transaction fails and raises.                    *)
Die(p) ==
    /\ loc[p] # Idle
    /\ Return(p)
    /\ IF call[p] = D!Idle THEN DispatchIdle ELSE D!Crash(p) /\ UNCHANGED retries
    /\ UNCHANGED row

Proceed(p) ==
    \/ Swap(p) \/ Replace(p) \/ Create(p) \/ InsertDispatch(p) \/ AskApproval(p)
    \/ StartDispatch(p) \/ RunDispatch(p) \/ Link(p)

Next ==
    \/ \E i \in Assignment : CancelDispatch(i) \/ \E w \in Work : Propose(i, w)
    \/ \E p \in Caller, i \in Assignment :
          \/ OpenReassign(p, i) \/ RetryCommand(p, i)
          \/ \E goal \in Ended \cup {"accepted"} : Ask(p, i, goal)
          \/ \E o \in Actor : Start(p, i, o)
    \/ \E p \in Caller : Proceed(p) \/ Die(p)
    \/ \E a \in ApprovalId : RejectCommand(a) \/ \E p \in Caller : ApproveCommand(p, a)

Spec == Init /\ [][Next]_vars

-----------------------------------------------------------------------------
(* Every variable has its type.                                            *)
TypeOK ==
    /\ row \in [Assignment -> Row]
    /\ loc \in [Caller -> Locals]
    /\ retries \in [Assignment -> Nat]
    /\ D!TypeOK

(* An assignment that is shown as being worked on, or as completed, has a  *)
(* dispatch that was really tried or put before the owner: starts that     *)
(* were refused, cancelled or cut short do not get that far.               *)
ProgressIsBacked ==
    \A i \in Assignment :
        /\ row[i].status \in {"in_progress", "completed"} => row[i].linked
        /\ row[i].linked =>
              IF row[i].work.gated THEN \E a \in ApprovalId : approval[a].key = i
                                   ELSE executions[i] > 0

(* The agent is called for accepted assignments only, and once, and once   *)
(* more for every retry the owner asked for: a second start, by whomever,  *)
(* one after a crash, or an approval of work that ran does not repeat it,  *)
(* and a retry that loses its claim to another calls nobody. Nobody is on  *)
(* his way to the agent of work that succeeded. And exactly what is        *)
(* reassigned has a replacement, a single one (start_execution, dispatch,  *)
(* retry_dispatch, reassign).                                              *)
WorkIsDoneOnce ==
    \A i \in Assignment :
        /\ executions[i] <= 1 + retries[i]
        /\ executions[i] > 0 => row[i].status \notin {"absent", "proposed"}
        /\ status[i] = "succeeded" =>
              \A p \in Caller : call[p].key = i => call[p].at \notin {"claimed", "numbering", "executing"}
        /\ Cardinality({j \in Assignment : row[j].replaces = i}) =
              IF row[i].status = "reassigned" THEN 1 ELSE 0
=============================================================================
