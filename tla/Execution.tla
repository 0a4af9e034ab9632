---------------------------- MODULE Execution ----------------------------
(***************************************************************************)
(* Executions of /run: the row, the audit log and the local adapter        *)
(* (ExecutionService over ExecutionRepository, with /run, /runapprove and  *)
(* /cancelrun).  One action is one transaction, or a read on which a later *)
(* one relies.  A handler runs without interruption in its process, so a   *)
(* process is in one method at a time; but two processes may share the     *)
(* database, a process may die anywhere, and a failing transaction raises. *)
(***************************************************************************)
EXTENDS Naturals, Sequences

CONSTANTS
    Execution,    \* rows of executions
    NoExecution,
    Process,      \* bot processes
    Errors        \* may a transaction fail?

VARIABLES
    state,      \* Execution -> executions.state, or "absent"
    gated,      \* Execution -> was the risk such that approval is REQUIRED?
    approved,   \* Execution -> is approved_by set?
    log,        \* Execution -> its events in execution_audit_log
    runs,       \* Execution -> how often the adapter was entered
    at          \* Process -> where it stands, and its locals

vars == <<state, gated, approved, log, runs, at>>

-----------------------------------------------------------------------------
Terminal == {"completed", "failed"}
Waiting  == {"awaiting_approval", "queued"}
State    == {"absent", "running"} \cup Waiting \cup Terminal

(* What ends an execution in the log; "reconciled" is the event "failed"   *)
(* of the actor system.                                                    *)
Ending == Terminal \cup {"cancelled"}
Event  == Ending \cup {"created", "approved", "running", "reconciled"}

Starting == {"down", "sweeping", "reconciling"}
Place == Starting \cup {"idle", "noting", "approving", "cancelling",
                       "dispatching", "calling", "finishing"}

(* seen: the state that was read, or that is to be written; event: what    *)
(* is to be noted; left: what a start found running and has not noted.     *)
Down == [place |-> "down", row |-> NoExecution, seen |-> "absent", event |-> "created", left |-> {}]
Idle == [Down EXCEPT !.place = "idle"]

Locals == [place : Place, row : Execution \cup {NoExecution}, seen : State, event : Event,
           left : SUBSET Execution]

Goto(p, new) == at' = [at EXCEPT ![p] = new]
In(p, place) == at[p].place = place
Note(p, event) == Goto(p, [at[p] EXCEPT !.place = "noting", !.event = event])

(* transition_state: a compare-and-swap that raises when it is lost.       *)
Swap(p, i, seen, new, event) ==
    IF state[i] = seen
    THEN state' = [state EXCEPT ![i] = new] /\ Note(p, event)
    ELSE Goto(p, Idle) /\ UNCHANGED state

-----------------------------------------------------------------------------
Init ==
    /\ state = [i \in Execution |-> "absent"]
    /\ gated = [i \in Execution |-> FALSE]
    /\ approved = [i \in Execution |-> FALSE]
    /\ log = [i \in Execution |-> <<>>]
    /\ runs = [i \in Execution |-> 0]
    /\ at = [p \in Process |-> Down]

(* A start that reconciles nothing.                                        *)
CarelessStart(p) ==
    /\ In(p, "down")
    /\ Goto(p, Idle)
    /\ UNCHANGED <<state, gated, approved, log, runs>>

(* A process starts: initialize reads which executions are running (a      *)
(* SELECT outside of any transaction),                                     *)
Start(p) ==
    LET orphans == {i \in Execution : state[i] = "running"}
    IN  /\ In(p, "down")
        /\ Goto(p, IF orphans = {} THEN Idle ELSE [Down EXCEPT !.place = "sweeping", !.left = orphans])
        /\ UNCHANGED <<state, gated, approved, log, runs>>

(* fails whatever is running by then,                                      *)
Sweep(p) ==
    /\ In(p, "sweeping")
    /\ state' = [i \in Execution |-> IF state[i] = "running" THEN "failed" ELSE state[i]]
    /\ Goto(p, [at[p] EXCEPT !.place = "reconciling"])
    /\ UNCHANGED <<gated, approved, log, runs>>

(* and adds an audit entry for each it read, also for one that another     *)
(* process ended in between; that one cannot be written is only logged.    *)
NoteReconciled(p) ==
    /\ In(p, "reconciling")
    /\ \E i \in at[p].left :
          /\ Goto(p, IF at[p].left = {i} THEN Idle ELSE [at[p] EXCEPT !.left = @ \ {i}])
          /\ \/ log' = [log EXCEPT ![i] = Append(@, "reconciled")]
             \/ Errors /\ UNCHANGED log
    /\ UNCHANGED <<state, gated, approved, runs>>

(* submit: the risk of the instruction decides about the first state.      *)
Submit(p, i, risky) ==
    LET first == IF risky THEN "awaiting_approval" ELSE "queued"
    IN  /\ In(p, "idle")
        /\ state[i] = "absent"
        /\ state' = [state EXCEPT ![i] = first]
        /\ gated' = [gated EXCEPT ![i] = risky]
        /\ Goto(p, [Idle EXCEPT !.place = "noting", !.row = i, !.seen = first, !.event = "created"])
        /\ UNCHANGED <<approved, log, runs>>

(* approve, by the owner: the read of the row,                             *)
OpenApprove(p, i) ==
    /\ In(p, "idle")
    /\ state[i] = "awaiting_approval"
    /\ Goto(p, [Idle EXCEPT !.place = "approving", !.row = i])
    /\ UNCHANGED <<state, gated, approved, log, runs>>

(* An approval that trusts this read.                                      *)
BlindApproval(p) ==
    /\ In(p, "approving")
    /\ state' = [state EXCEPT ![at[p].row] = "queued"]
    /\ approved' = [approved EXCEPT ![at[p].row] = TRUE]
    /\ Note(p, "approved")
    /\ UNCHANGED <<gated, log, runs>>

(* and record_approval, in which the state is compared again.              *)
RecordApproval(p) ==
    /\ In(p, "approving")
    /\ Swap(p, at[p].row, "awaiting_approval", "queued", "approved")
    /\ approved' = [approved EXCEPT ![at[p].row] = @ \/ state[at[p].row] = "awaiting_approval"]
    /\ UNCHANGED <<gated, log, runs>>

(* cancel: the read, and the swap from what was read.                      *)
OpenCancel(p, i) ==
    /\ In(p, "idle")
    /\ state[i] \notin Terminal \cup {"absent"}
    /\ Goto(p, [Idle EXCEPT !.place = "cancelling", !.row = i, !.seen = state[i]])
    /\ UNCHANGED <<state, gated, approved, log, runs>>

Cancel(p) ==
    /\ In(p, "cancelling")
    /\ Swap(p, at[p].row, at[p].seen, "failed", "cancelled")
    /\ UNCHANGED <<gated, approved, log, runs>>

(* _dispatch: queued -> running, or the current row is returned.           *)
Dispatch(p) ==
    /\ In(p, "dispatching")
    /\ Swap(p, at[p].row, "queued", "running", "running")
    /\ UNCHANGED <<gated, approved, log, runs>>

(* add_audit_entry, and what follows it in submit, approve and _dispatch.  *)
AddAuditEntry(p) ==
    LET l == at[p]
        next == CASE l.event = "created"  -> IF l.seen = "queued" THEN "dispatching" ELSE "idle"
                  [] l.event = "approved" -> "dispatching"
                  [] l.event = "running"  -> "calling"
                  [] OTHER                -> "idle"
    IN  /\ In(p, "noting")
        /\ log' = [log EXCEPT ![l.row] = Append(@, l.event)]
        /\ Goto(p, IF next = "idle" THEN Idle ELSE [l EXCEPT !.place = next])
        /\ UNCHANGED <<state, gated, approved, runs>>

(* The adapter, and the limits on its time and output: what is too slow or *)
(* too large has failed.                                                   *)
RunAdapter(p) ==
    /\ In(p, "calling")
    /\ runs' = [runs EXCEPT ![at[p].row] = @ + 1]
    /\ \E outcome \in Terminal : Goto(p, [at[p] EXCEPT !.place = "finishing", !.seen = outcome])
    /\ UNCHANGED <<state, gated, approved, log>>

(* An outcome that is written whatever became of the row.                  *)
BlindFinish(p) ==
    /\ In(p, "finishing")
    /\ state' = [state EXCEPT ![at[p].row] = at[p].seen]
    /\ Note(p, at[p].seen)
    /\ UNCHANGED <<gated, approved, log, runs>>

Finish(p) ==
    /\ In(p, "finishing")
    /\ Swap(p, at[p].row, "running", at[p].seen, at[p].seen)
    /\ UNCHANGED <<gated, approved, log, runs>>

(* The process dies, or a transaction fails and the method raises.         *)
Die(p) ==
    /\ ~In(p, "down")
    /\ Goto(p, Down)
    /\ UNCHANGED <<state, gated, approved, log, runs>>

Raise(p) ==
    /\ Errors
    /\ at[p].place \notin Starting \cup {"idle"}
    /\ Goto(p, Idle)
    /\ UNCHANGED <<state, gated, approved, log, runs>>

Step(p) ==
    \/ Sweep(p) \/ NoteReconciled(p) \/ RecordApproval(p) \/ Cancel(p) \/ Dispatch(p)
    \/ AddAuditEntry(p) \/ RunAdapter(p) \/ Finish(p)

Next ==
    \E p \in Process :
       \/ Start(p) \/ Step(p) \/ Die(p) \/ Raise(p)
       \/ \E i \in Execution :
             OpenApprove(p, i) \/ OpenCancel(p, i) \/ \E risky \in BOOLEAN : Submit(p, i, risky)

(* The fairness of Start, Sweep and Step is stated where the module is     *)
(* checked (MCOffice).                                                     *)
Spec == Init /\ [][Next]_vars

-----------------------------------------------------------------------------
(* Every variable has its type.                                            *)
TypeOK ==
    /\ state \in [Execution -> State]
    /\ gated \in [Execution -> BOOLEAN]
    /\ approved \in [Execution -> BOOLEAN]
    /\ log \in [Execution -> Seq(Event)]
    /\ runs \in [Execution -> Nat]
    /\ at \in [Process -> Locals]

(* An instruction is run at most once, whoever dispatches it, and one that *)
(* needs the owner only after the approval (duplicate-dispatch prevention). *)
RunsOnceApproved ==
    \A i \in Execution :
        /\ runs[i] <= 1
        /\ runs[i] = 1 /\ gated[i] => approved[i]

(* The log of i has at most one entry of the kinds K.                      *)
Once(i, K) == \A a, b \in DOMAIN log[i] : log[i][a] \in K /\ log[i][b] \in K => a = b

(* The audit log against the rows: those who finish or cancel note at most *)
(* one ending, and it is the one the row has; there is at most one         *)
(* approval; only completed work was run.  A start notes what it found     *)
(* running, but never of a row that is not over: whether it or another     *)
(* process ended the row its entry does not tell.                          *)
LogIsTrue ==
    \A i \in Execution :
        /\ Once(i, Ending) /\ Once(i, {"approved"})
        /\ \A a \in DOMAIN log[i] :
              /\ log[i][a] \in Ending => state[i] = IF log[i][a] = "completed" THEN "completed" ELSE "failed"
              /\ log[i][a] = "approved" => approved[i]
              /\ log[i][a] = "reconciled" => state[i] \in Terminal
        /\ state[i] = "completed" => runs[i] = 1

(* No execution shows as running for ever, if processes go on being        *)
(* restarted (restart reconciliation).                                     *)
RunningEnds ==
    []<>(\E p \in Process : In(p, "down"))
        => \A i \in Execution : (state[i] = "running") ~> (state[i] \in Terminal)
=============================================================================
