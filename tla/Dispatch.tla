------------------------------ MODULE Dispatch ------------------------------
(***************************************************************************)
(* The controlled dispatch of agent work and the approvals that gate it:   *)
(* DispatchService, ApprovalService and DispatchRepository.                *)
(*                                                                         *)
(* One action is one database transaction (every service method runs on    *)
(* MemoryDatabase.connection(), which commits at the end of its block and  *)
(* rolls back when the block raises) or one call of the agent adapter.  A  *)
(* method of several transactions is a sequence of actions of one Caller,  *)
(* whose local variables are call[p]; other callers, a cancellation or a   *)
(* crash may come between any two of them.  A step that raises before it   *)
(* writes, or after its writes are rolled back, changes only call.         *)
(*                                                                         *)
(* A dispatch row is identified with its UNIQUE(source_type, source_id,    *)
(* idempotency_key) triple, here a Key.                                    *)
(***************************************************************************)
EXTENDS Integers, Sequences, FiniteSets

CONSTANTS
    Key,          \* idempotency triples, one dispatch row each
    ApprovalId,   \* identifiers of approval rows; bounds how many are made
    Caller,       \* threads or processes inside a DispatchService method
    Requests,     \* the requests callers may submit
    NoKey, NoRequest,
    Syncs,        \* synchronize_status is used on a dispatch while it has fewer
                  \* than this many executions: a bound, and 0 for not at all
    Crashes       \* may a process die between two transactions?

(* A request is what _same_request compares.  gated: the capability is in  *)
(* _APPROVAL_REQUIRED; registered: the agent's adapter is in _ADAPTERS;    *)
(* max: max_attempts; text: everything else.                               *)
ASSUME DispatchAssumption ==
    /\ NoKey \notin Key
    /\ NoRequest \notin Requests
    /\ \A r \in Requests : /\ r.gated \in BOOLEAN
                           /\ r.registered \in BOOLEAN
                           /\ r.max \in 1..10
    /\ Syncs \in Nat
    /\ Crashes \in BOOLEAN

VARIABLES
    status,      \* Key -> dispatches.status, or "absent"
    request,     \* Key -> the request columns of the row
    attempts,    \* Key -> dispatch_attempts.status by attempt number; its
                 \*        length is dispatches.attempt_count
    approval,    \* ApprovalId -> the approvals row
    call,        \* Caller -> where its method stands, and its locals
    executions,  \* Key -> how many times adapter.execute was entered
    told         \* approvals whose owner got "Approval has expired."

vars == <<status, request, attempts, approval, call, executions, told>>
rows == <<status, request, attempts, approval>>

-----------------------------------------------------------------------------
Outcomes == {"succeeded", "failed", "timed_out"}
Closed   == {"succeeded", "cancelled", "rejected"}       \* _TERMINAL
Busy     == {"dispatching", "running"}
Retryable == {"failed", "timed_out"}
Startable == {"pending", "approved"}
DispatchStatus ==
    {"absent", "awaiting_approval"} \cup Startable \cup Busy \cup Outcomes \cup Closed

ApprovalStatus == {"absent", "requested", "approved", "rejected", "cancelled", "expired"}

(* expires_at against the clock: "passed" once expires_at <= now.          *)
Deadline == {"none", "ahead", "passed"}

CallStep == {"idle", "creating", "starting", "claimed", "numbering", "executing", "finishing"}

Idle == [at |-> "idle", key |-> NoKey, ask |-> NoRequest, retry |-> FALSE,
         seen |-> "absent", attempt |-> 0, outcome |-> "absent"]

CallRecord == [at : CallStep, key : Key \cup {NoKey}, ask : Requests \cup {NoRequest},
               retry : BOOLEAN, seen : DispatchStatus, attempt : Int,
               outcome : Outcomes \cup {"absent"}]

(* _TRANSITIONS *)
Transitions ==
    [s \in DispatchStatus |->
        CASE s = "pending"           -> {"dispatching", "awaiting_approval", "cancelled"}
          [] s = "awaiting_approval" -> {"approved", "rejected", "cancelled"}
          [] s = "approved"          -> {"dispatching", "cancelled"}
          [] s = "dispatching"       -> {"running", "failed", "cancelled"}
          [] s = "running"           -> Outcomes \cup {"cancelled"}
          [] s \in Retryable         -> {"dispatching"}
          [] OTHER                   -> {}]

Gated(k)   == status[k] # "absent" /\ request[k].gated
Open(k)    == {a \in ApprovalId : approval[a].key = k /\ approval[a].status = "requested"}
Granted(k) == \E a \in ApprovalId : approval[a].key = k /\ approval[a].status = "approved"
Fresh(a)   == approval[a].status = "absent"

InsertApproval(a, k, deadline) ==
    approval' = [approval EXCEPT ![a] = [status |-> "requested", key |-> k, deadline |-> deadline]]

Return(p) == call' = [call EXCEPT ![p] = Idle]

-----------------------------------------------------------------------------
Init ==
    /\ status = [k \in Key |-> "absent"]
    /\ request = [k \in Key |-> NoRequest]
    /\ attempts = [k \in Key |-> <<>>]
    /\ approval = [a \in ApprovalId |-> [status |-> "absent", key |-> NoKey, deadline |-> "none"]]
    /\ call = [p \in Caller |-> Idle]
    /\ executions = [k \in Key |-> 0]
    /\ told = {}

(* create_dispatch, its idempotency lookup.  Finding a row ends the call   *)
(* with that row or with DuplicateDispatchError and writes nothing.        *)
LookUp(p, k, r) ==
    /\ call[p] = Idle
    /\ status[k] = "absent"
    /\ call' = [call EXCEPT ![p] = [Idle EXCEPT !.at = "creating", !.key = k, !.ask = r]]
    /\ UNCHANGED <<rows, executions, told>>

(* An insert that takes the approval-free branch for every capability.     *)
UngatedInsert(p) ==
    /\ call[p].at = "creating"
    /\ status[call[p].key] = "absent"
    /\ request' = [request EXCEPT ![call[p].key] = call[p].ask]
    /\ status' = [status EXCEPT ![call[p].key] = "pending"]
    /\ Return(p)
    /\ UNCHANGED <<attempts, approval, executions, told>>

(* create_dispatch, its insert: the row and, for an approval-required      *)
(* capability, the approval of the same transaction.                       *)
Insert(p) ==
    LET k == call[p].key
        r == call[p].ask
    IN  /\ call[p].at = "creating"
        /\ status[k] = "absent"
        /\ request' = [request EXCEPT ![k] = r]
        /\ \/ /\ r.gated
              /\ status' = [status EXCEPT ![k] = "awaiting_approval"]
              /\ \E a \in ApprovalId, d \in {"none", "ahead"} :
                    Fresh(a) /\ InsertApproval(a, k, d)
           \/ /\ ~r.gated
              /\ status' = [status EXCEPT ![k] = "pending"]
              /\ UNCHANGED approval
        /\ Return(p)
        /\ UNCHANGED <<attempts, executions, told>>

(* The insert of a caller that lost the race: the UNIQUE constraint raises. *)
InsertLost(p) ==
    /\ call[p].at = "creating"
    /\ status[call[p].key] # "absent"
    /\ Return(p)
    /\ UNCHANGED <<rows, executions, told>>

-----------------------------------------------------------------------------
(* dispatch(), the read of the row and the checks on it.                   *)
ReadForDispatch(p, k) ==
    /\ call[p] = Idle
    /\ status[k] \in Startable
    /\ call' = [call EXCEPT ![p] = [Idle EXCEPT !.at = "starting", !.key = k, !.seen = status[k]]]
    /\ UNCHANGED <<rows, executions, told>>

(* A retry that counts the attempts made so far with <=.                   *)
GenerousReadForRetry(p, k) ==
    /\ call[p] = Idle
    /\ status[k] \in Retryable
    /\ Len(attempts[k]) <= request[k].max
    /\ call' = [call EXCEPT ![p] = [Idle EXCEPT !.at = "starting", !.key = k,
                                                !.retry = TRUE, !.seen = status[k]]]
    /\ UNCHANGED <<rows, executions, told>>

(* retry_dispatch(), the read of the row and the checks on it.             *)
ReadForRetry(p, k) ==
    /\ call[p] = Idle
    /\ status[k] \in Retryable
    /\ Len(attempts[k]) < request[k].max
    /\ call' = [call EXCEPT ![p] = [Idle EXCEPT !.at = "starting", !.key = k,
                                                !.retry = TRUE, !.seen = status[k]]]
    /\ UNCHANGED <<rows, executions, told>>

(* _transition: a compare-and-swap on the row, and StaleUpdateError when   *)
(* the row has moved.                                                      *)
Swap(p, expected, target, next) ==
    LET k == call[p].key
    IN  /\ target \in Transitions[expected]
        /\ IF status[k] = expected
           THEN /\ status' = [status EXCEPT ![k] = target]
                /\ call' = [call EXCEPT ![p].at = next]
           ELSE Return(p) /\ UNCHANGED status
        /\ UNCHANGED <<request, attempts, approval, executions, told>>

(* The swap without its WHERE status = expected.                           *)
BlindClaim(p) ==
    /\ call[p].at = "starting"
    /\ status' = [status EXCEPT ![call[p].key] = "dispatching"]
    /\ call' = [call EXCEPT ![p].at = "claimed"]
    /\ UNCHANGED <<request, attempts, approval, executions, told>>

(* Both methods: pending, approved, failed or timed_out -> dispatching.    *)
Claim(p) ==
    /\ call[p].at = "starting"
    /\ Swap(p, call[p].seen, "dispatching", "claimed")

(* Both methods: dispatching -> running.                                   *)
MarkRunning(p) ==
    /\ call[p].at = "claimed"
    /\ Swap(p, "dispatching", "running", "numbering")

(* increment_attempt_in: dispatch() raises StaleUpdateError on the -1 it   *)
(* returns for a row that is no longer running; retry_dispatch() does not  *)
(* look at it and goes on.                                                 *)
BeginAttempt(p) ==
    LET k == call[p].key
    IN  /\ call[p].at = "numbering"
        /\ \/ /\ status[k] = "running"
              /\ attempts' = [attempts EXCEPT ![k] = Append(@, "running")]
              /\ call' = [call EXCEPT ![p].at = "executing", ![p].attempt = Len(attempts[k]) + 1]
           \/ /\ status[k] # "running"
              /\ call[p].retry
              /\ call' = [call EXCEPT ![p].at = "executing", ![p].attempt = -1]
              /\ UNCHANGED attempts
           \/ /\ status[k] # "running"
              /\ ~call[p].retry
              /\ Return(p)
              /\ UNCHANGED attempts
        /\ UNCHANGED <<status, request, approval, executions, told>>

(* An adapter call whose exceptions leave the method.                      *)
EscapingExecute(p) ==
    /\ call[p].at = "executing"
    /\ executions' = [executions EXCEPT ![call[p].key] = @ + 1]
    /\ \/ call' = [call EXCEPT ![p].at = "finishing", ![p].outcome = "succeeded"]
       \/ Return(p)
    /\ UNCHANGED <<rows, told>>

(* The adapter call; a timeout, a reported failure and any exception are   *)
(* outcomes.  retry_dispatch() resolves the adapter inside its try block,  *)
(* dispatch() outside it.                                                  *)
Execute(p) ==
    LET k == call[p].key
    IN  /\ call[p].at = "executing"
        /\ \/ /\ request[k].registered
              /\ executions' = [executions EXCEPT ![k] = @ + 1]
              /\ \E o \in Outcomes :
                    call' = [call EXCEPT ![p].at = "finishing", ![p].outcome = o]
           \/ /\ ~request[k].registered
              /\ call[p].retry
              /\ call' = [call EXCEPT ![p].at = "finishing", ![p].outcome = "failed"]
              /\ UNCHANGED executions
           \/ /\ ~request[k].registered
              /\ ~call[p].retry
              /\ Return(p)
              /\ UNCHANGED executions
        /\ UNCHANGED <<rows, told>>

(* The end of an attempt without the compare-and-swap: the outcome is      *)
(* written whatever became of the row meanwhile.                           *)
BlindFinish(p) ==
    LET k == call[p].key
        n == call[p].attempt
    IN  /\ call[p].at = "finishing"
        /\ status' = [status EXCEPT ![k] = call[p].outcome]
        /\ attempts' = IF n \in DOMAIN attempts[k]
                       THEN [attempts EXCEPT ![k][n] = call[p].outcome]
                       ELSE attempts
        /\ Return(p)
        /\ UNCHANGED <<request, approval, executions, told>>

(* The end of an attempt that forgets finish_attempt_in.                   *)
ForgetfulFinish(p) ==
    LET k == call[p].key
    IN  /\ call[p].at = "finishing"
        /\ \/ status[k] = "running" /\ status' = [status EXCEPT ![k] = call[p].outcome]
           \/ status[k] # "running" /\ UNCHANGED status
        /\ Return(p)
        /\ UNCHANGED <<request, attempts, approval, executions, told>>

(* finish_attempt_in and the swap running -> outcome, in one transaction:  *)
(* a stale row rolls both back.                                            *)
Finish(p) ==
    LET k == call[p].key
        n == call[p].attempt
    IN  /\ call[p].at = "finishing"
        /\ \/ /\ status[k] = "running"
              /\ status' = [status EXCEPT ![k] = call[p].outcome]
              /\ attempts' = IF n \in DOMAIN attempts[k]
                             THEN [attempts EXCEPT ![k][n] = call[p].outcome]
                             ELSE attempts
           \/ /\ status[k] # "running"
              /\ UNCHANGED <<status, attempts>>
        /\ Return(p)
        /\ UNCHANGED <<request, approval, executions, told>>

-----------------------------------------------------------------------------
(* cancel_dispatch: from every non-terminal status, failed and timed_out   *)
(* included, closing the open approval.                                    *)
Cancel(k) ==
    /\ status[k] \notin Closed \cup {"absent"}
    /\ status' = [status EXCEPT ![k] = "cancelled"]
    /\ approval' = [a \in ApprovalId |->
                       IF a \in Open(k) THEN [approval[a] EXCEPT !.status = "cancelled"]
                                        ELSE approval[a]]
    /\ UNCHANGED <<request, attempts, call, executions, told>>

(* synchronize_status: a compare-and-swap along _TRANSITIONS, to one of    *)
(* the statuses it has an alias for.  It touches nothing but the row.      *)
Synchronize(k) ==
    /\ executions[k] < Syncs
    /\ \E observed \in Transitions[status[k]] \cap (Outcomes \cup {"pending", "running", "cancelled"}) :
          status' = [status EXCEPT ![k] = observed]
    /\ UNCHANGED <<request, attempts, approval, call, executions, told>>

-----------------------------------------------------------------------------
(* A request for approval that does not look for an open one.              *)
RequestAnyway(k, a, deadline) ==
    /\ status[k] # "absent"
    /\ Fresh(a)
    /\ InsertApproval(a, k, deadline)
    /\ UNCHANGED <<status, request, attempts, call, executions, told>>

(* request_approval: an open approval of the dispatch is returned as it    *)
(* is; otherwise one is inserted, whatever the status of the dispatch.     *)
RequestApproval(k, a, deadline) ==
    /\ status[k] # "absent"
    /\ Open(k) = {}
    /\ Fresh(a)
    /\ InsertApproval(a, k, deadline)
    /\ UNCHANGED <<status, request, attempts, call, executions, told>>

Pending(a) == /\ approval[a].status = "requested"
              /\ status[approval[a].key] = "awaiting_approval"

Resolve(a, verdict) == approval' = [approval EXCEPT ![a].status = verdict]

Move(a, target) == status' = [status EXCEPT ![approval[a].key] = target]

(* An approve() that checks the approval but not the dispatch.             *)
ApproveAnyDispatch(a) ==
    /\ approval[a].status = "requested"
    /\ approval[a].deadline # "passed"
    /\ Resolve(a, "approved")
    /\ Move(a, "approved")
    /\ UNCHANGED <<request, attempts, call, executions, told>>

(* approve: by the one authorized user, before the deadline.               *)
Approve(a) ==
    /\ Pending(a)
    /\ approval[a].deadline # "passed"
    /\ Resolve(a, "approved")
    /\ Move(a, "approved")
    /\ UNCHANGED <<request, attempts, call, executions, told>>

(* approve after the deadline: approval -> expired and dispatch ->         *)
(* rejected are written, then StaleUpdateError("Approval has expired.") is *)
(* raised inside the connection block, which rolls both writes back.       *)
ApproveTooLate(a) ==
    /\ Pending(a)
    /\ approval[a].deadline = "passed"
    /\ told' = told \cup {a}
    /\ UNCHANGED <<rows, call, executions>>

(* A rejection that leaves the dispatch alone.                             *)
RejectApprovalOnly(a) ==
    /\ Pending(a)
    /\ Resolve(a, "rejected")
    /\ UNCHANGED <<status, request, attempts, call, executions, told>>

(* reject *)
Reject(a) ==
    /\ Pending(a)
    /\ Resolve(a, "rejected")
    /\ Move(a, "rejected")
    /\ UNCHANGED <<request, attempts, call, executions, told>>

(* An expiry that writes its verdict on the dispatch too.                  *)
ExpireBoth(a) ==
    /\ approval[a].status = "requested"
    /\ approval[a].deadline = "passed"
    /\ Resolve(a, "expired")
    /\ Move(a, "expired")
    /\ UNCHANGED <<request, attempts, call, executions, told>>

(* expire_or_close *)
ExpireOrClose(a) ==
    /\ approval[a].status = "requested"
    /\ \/ /\ status[approval[a].key] = "cancelled"
          /\ Resolve(a, "cancelled")
       \/ /\ status[approval[a].key] # "cancelled"
          /\ approval[a].deadline = "passed"
          /\ Resolve(a, "expired")
    /\ UNCHANGED <<status, request, attempts, call, executions, told>>

(* The wall clock passes an expires_at.                                    *)
ReachDeadline(a) ==
    /\ approval[a].deadline = "ahead"
    /\ approval' = [approval EXCEPT ![a].deadline = "passed"]
    /\ UNCHANGED <<status, request, attempts, call, executions, told>>

(* The process dies, or a transaction of the method fails and raises: the  *)
(* locals are lost and the row stays as it is.                             *)
Crash(p) ==
    /\ Crashes
    /\ call[p] # Idle
    /\ Return(p)
    /\ UNCHANGED <<rows, executions, told>>

-----------------------------------------------------------------------------
(* What a method does on its own once entered.                             *)
Proceed(p) == \/ Insert(p) \/ InsertLost(p)
              \/ Claim(p) \/ MarkRunning(p) \/ BeginAttempt(p) \/ Execute(p) \/ Finish(p)

Enter(p, k) == ReadForDispatch(p, k) \/ ReadForRetry(p, k) \/ \E r \in Requests : LookUp(p, k, r)

Decide(a) == Approve(a) \/ ApproveTooLate(a) \/ Reject(a) \/ ExpireOrClose(a) \/ ReachDeadline(a)

Next ==
    \/ \E p \in Caller : Proceed(p) \/ Crash(p) \/ \E k \in Key : Enter(p, k)
    \/ \E k \in Key : Cancel(k) \/ Synchronize(k)
    \/ \E k \in Key, a \in ApprovalId, d \in {"none", "ahead"} : RequestApproval(k, a, d)
    \/ \E a \in ApprovalId : Decide(a)

Spec == Init /\ [][Next]_vars

-----------------------------------------------------------------------------
(* Every variable has its type.                                            *)
TypeOK ==
    /\ status \in [Key -> DispatchStatus]
    /\ request \in [Key -> Requests \cup {NoRequest}]
    /\ attempts \in [Key -> Seq({"running"} \cup Outcomes)]
    /\ approval \in [ApprovalId -> [status : ApprovalStatus, key : Key \cup {NoKey},
                                    deadline : Deadline]]
    /\ call \in [Caller -> CallRecord]
    /\ executions \in [Key -> Nat]
    /\ told \subseteq ApprovalId

(* No agent is ever called for approval-required work that its owner has   *)
(* not approved, whichever callers, cancellations, retries and crashes     *)
(* come between the approval, the claim and the call (SPRINT_5B.1: no      *)
(* execution without an explicit approval).                                *)
ExecutionNeedsApproval ==
    \A k \in Key : executions[k] > 0 /\ Gated(k) => Granted(k)

(* The approvals and the dispatch they decide about, written in different  *)
(* tables, tell one story: an approved dispatch was never also rejected, a *)
(* rejected approval means a rejected dispatch, and no two approvals of    *)
(* one dispatch were granted.                                              *)
DecisionsAgree ==
    \A a \in ApprovalId :
        /\ approval[a].status = "rejected" => status[approval[a].key] = "rejected"
        /\ approval[a].status = "approved" =>
              /\ status[approval[a].key] \notin {"absent", "pending", "awaiting_approval", "rejected"}
              /\ \A b \in ApprovalId \ {a} :
                    approval[b].key = approval[a].key =>
                        approval[b].status \notin {"approved", "rejected"}

(* A dispatch has at most one approval waiting for the owner, although     *)
(* create_dispatch, Night Shift and agent assignments all ask for one.     *)
OneOpenApproval ==
    \A a, b \in ApprovalId :
        approval[a].status = "requested" /\ approval[b].status = "requested"
            /\ approval[a].key = approval[b].key => a = b

(* A dispatch that succeeded, was cancelled or was rejected is never       *)
(* touched again: not by a late adapter result, a stale retry, a decision  *)
(* on an approval or a synchronisation.                                    *)
ClosedStaysClosed ==
    [][\A k \in Key : status[k] \in Closed =>
          status'[k] = status[k] /\ attempts'[k] = attempts[k]]_vars

(* The calls between a successful claim and their end.                     *)
InFlight(k) == {p \in Caller : call[p].key = k
                   /\ call[p].at \in {"claimed", "numbering", "executing", "finishing"}}

(* Two callers never work on one dispatch at the same time, so its agent   *)
(* is not called twice at once.  True of every status change the services  *)
(* make themselves (Syncs = 0): synchronize_status, which nothing in the   *)
(* application calls yet, can free a row under a live caller.              *)
OneCallInFlight ==
    \A k \in Key : \A p, q \in InFlight(k) : p = q

(* The outcome on the dispatch is the outcome of its last attempt row: the *)
(* owner reads one, the audit of attempts shows the other (Syncs = 0).     *)
OutcomeIsRecorded ==
    \A k \in Key : status[k] \in Outcomes =>
        attempts[k] # <<>> /\ attempts[k][Len(attempts[k])] = status[k]

(* Stale reads let retries overrun max_attempts, but by no more than one   *)
(* attempt for every other caller.                                         *)
OverrunIsBounded ==
    \A k \in Key : status[k] # "absent" =>
        Len(attempts[k]) < request[k].max + Cardinality(Caller)

(* The dispatches and approvals implement the owner's contract.            *)
PhaseOf(s) ==
    CASE s = "absent"            -> "none"
      [] s = "awaiting_approval" -> "waiting"
      [] s \in Startable         -> "ready"
      [] s \in Busy              -> "busy"
      [] s \in Retryable         -> "faulted"
      [] s = "succeeded"         -> "done"
      [] OTHER                   -> "closed"

Gate == INSTANCE ApprovalGate WITH
    Work    <- Key,
    phase   <- [k \in Key |-> PhaseOf(status[k])],
    guarded <- {k \in Key : Gated(k)},
    granted <- {k \in Key : Granted(k)},
    runs    <- executions

ImplementsGate == Gate!Spec

(* A dispatch that was claimed does not stay in flight: without a crash    *)
(* its caller brings it to an outcome, or somebody cancels it.  Not so one *)
(* of an agent without adapter: dispatch() looks for the adapter after the *)
(* claim and outside of its try block, and what that leaves running nobody *)
(* takes up again.                                                         *)
EveryRunEnds ==
    \A k \in Key : status[k] \in Busy /\ request[k].registered ~> status[k] \notin Busy

-----------------------------------------------------------------------------
(* What the documents say and the code does not do.                        *)

(* ApprovalService.approve writes approval -> expired and dispatch ->      *)
(* rejected before it answers "Approval has expired.".                     *)
RefusedApprovalIsExpired ==
    \A a \in told : approval[a].status = "expired" /\ status[approval[a].key] = "rejected"

=============================================================================
