-------------------------- MODULE WorkspaceAction --------------------------
(***************************************************************************)
(* The one external write of the system: a local draft becomes, after the  *)
(* owner's approval, a private Google document (WorkspaceActionService,    *)
(* DraftingService, DocsWriteService and the /approve and /reject          *)
(* handlers).                                                              *)
(*                                                                         *)
(* The dispatch of an action and its approval are those of module          *)
(* Dispatch; the dispatch is a record only, the write itself is claimed on *)
(* the action's row.  One action here is one transaction, one run of reads *)
(* that a later transaction relies on, or the call of Google.  A workspace *)
(* action is identified with its idempotency key, a draft with its row.    *)
(***************************************************************************)
EXTENDS Integers, FiniteSets, Sequences

CONSTANTS
    Action,        \* idempotency keys of workspace_actions rows
    Draft,         \* rows of prepared_workspace_actions (docs memos)
    ApprovalId,
    Caller,        \* threads or processes that serve a command each
    NoAction, NoApproval, NoDraft, NoRequest,
    Crashes        \* may a caller die between two transactions?

ASSUME WorkspaceActionAssumption ==
    /\ NoAction \notin Action
    /\ NoDraft \notin Draft
    /\ NoApproval \notin ApprovalId
    /\ Crashes \in BOOLEAN

VARIABLES
    draft,      \* Draft -> the row
    action,     \* Action -> the row
    loc,        \* Caller -> where its command stands, and its locals
    writes,     \* Action -> calls of create_private_document
    documents,  \* Action -> documents that exist at Google
    status, request, attempts, approval, call, executions, told   \* as in Dispatch

dispatchVars == <<status, request, attempts, approval, call, executions, told>>
vars == <<draft, action, loc, writes, documents, dispatchVars>>

-----------------------------------------------------------------------------
(* workspace_write needs an approval and has no dispatch adapter.          *)
DocsRequest == [gated |-> TRUE, registered |-> FALSE, max |-> 1, text |-> "workspace_write"]

ASSUME NoRequestAssumption == NoRequest # DocsRequest

D == INSTANCE Dispatch WITH
        Key <- Action, NoKey <- NoAction, Requests <- {DocsRequest}, Syncs <- 0

Final == {"succeeded", "failed", "rejected", "cancelled", "outcome_unknown"}
ActionStatus == {"absent", "prepared", "awaiting_approval", "approved", "executing"} \cup Final

ActionRow == [status : ActionStatus, draft : Draft \cup {NoDraft},
              approval : ApprovalId \cup {NoApproval}]

DraftRow == [status : {"absent", "prepared", "ready_for_action", "superseded"},
             follows : Draft \cup {NoDraft}]

Place == {"idle", "readying", "revising", "inserting", "creating", "recording", "finding",
          "linking", "observing", "settling", "checking", "claiming", "rechecking",
          "writing", "finishing", "generic", "dispatching"}

Idle == [at |-> "idle", act |-> NoAction, draft |-> NoDraft, ref |-> NoApproval,
         executes |-> FALSE, goal |-> "absent"]

Locals == [at : Place, act : Action \cup {NoAction}, draft : Draft \cup {NoDraft},
           ref : ApprovalId \cup {NoApproval}, executes : BOOLEAN, goal : ActionStatus]

Goto(p, new)  == loc' = [loc EXCEPT ![p] = new]
At(p, place)  == [loc[p] EXCEPT !.at = place]
Return(p)     == Goto(p, Idle)
Row(p)        == action[loc[p].act]
SetStatus(p, s) == action' = [action EXCEPT ![loc[p].act].status = s]

DispatchIdle == UNCHANGED dispatchVars
GoogleIdle   == UNCHANGED <<writes, documents>>
DraftsOnly   == UNCHANGED action /\ GoogleIdle /\ DispatchIdle
ActionOnly   == UNCHANGED draft /\ GoogleIdle /\ DispatchIdle
NoRows       == UNCHANGED <<draft, action>> /\ GoogleIdle /\ DispatchIdle
RecordsOnly  == UNCHANGED <<draft, action>> /\ GoogleIdle

-----------------------------------------------------------------------------
Init ==
    /\ draft = [d \in Draft |-> [status |-> "absent", follows |-> NoDraft]]
    /\ action = [w \in Action |-> [status |-> "absent", draft |-> NoDraft, approval |-> NoApproval]]
    /\ loc = [p \in Caller |-> Idle]
    /\ writes = [w \in Action |-> 0]
    /\ documents = [w \in Action |-> 0]
    /\ D!Init

(* get_current_ready_action                                                *)
Current(d) == /\ draft[d].status = "ready_for_action"
              /\ \A e \in Draft : draft[e].follows # d

(* prepare_docs_memo                                                       *)
Prepare(d) ==
    /\ draft[d].status = "absent"
    /\ draft' = [draft EXCEPT ![d].status = "prepared"]
    /\ UNCHANGED loc /\ DraftsOnly

(* revise and mark_ready_for_action, their read of the draft;              *)
OpenDraft(p, d) ==
    /\ loc[p] = Idle
    /\ draft[d].status = "prepared"
    /\ \E place \in {"readying", "revising"} :
          Goto(p, [Idle EXCEPT !.at = place, !.draft = d])
    /\ NoRows

(* mark_ready_for_action: the compare-and-swap,                            *)
MarkReady(p) ==
    LET d == loc[p].draft
    IN  /\ loc[p].at = "readying"
        /\ \/ draft[d].status = "prepared"
                 /\ draft' = [draft EXCEPT ![d].status = "ready_for_action"]
           \/ draft[d].status # "prepared" /\ UNCHANGED draft
        /\ Return(p) /\ DraftsOnly

(* A revision that inserts its replacement whatever the swap returned.     *)
CarelessRevise(p) ==
    LET d == loc[p].draft
    IN  /\ loc[p].at = "revising"
        /\ \E e \in Draft :
              /\ draft[e].status = "absent"
              /\ draft' = [draft EXCEPT
                    ![d].status = IF @ = "prepared" THEN "superseded" ELSE @,
                    ![e] = [status |-> "prepared", follows |-> d]]
        /\ Return(p) /\ DraftsOnly

(* and revise: prepared -> superseded and the replacement, together.       *)
Revise(p) ==
    LET d == loc[p].draft
    IN  /\ loc[p].at = "revising"
        /\ \/ /\ draft[d].status = "prepared"
              /\ \E e \in Draft :
                    /\ draft[e].status = "absent"
                    /\ draft' = [draft EXCEPT
                          ![d].status = "superseded",
                          ![e] = [status |-> "prepared", follows |-> d]]
           \/ draft[d].status # "prepared" /\ UNCHANGED draft
        /\ Return(p) /\ DraftsOnly

(* A ready draft is superseded: no code path does that, but SPRINT_8E does *)
(* not rely on it and its tests do it in SQL. Not a step of Next: MCOffice *)
(* adds it.                                                                *)
SupersedeReady(d, e) ==
    /\ draft[d].status = "ready_for_action" /\ draft[e].status = "absent"
    /\ draft' = [draft EXCEPT ![d].status = "superseded",
                              ![e] = [status |-> "ready_for_action", follows |-> d]]
    /\ UNCHANGED loc /\ DraftsOnly

-----------------------------------------------------------------------------
(* request_create_docs_file (/createdoc), its reads: a draft that may be   *)
(* executed and a key that is new.  A known key ends the call.             *)
Request(p, w, d) ==
    /\ loc[p] = Idle
    /\ Current(d)
    /\ action[w].status = "absent"
    /\ Goto(p, [Idle EXCEPT !.at = "inserting", !.act = w, !.draft = d])
    /\ NoRows

(* insert_in; the UNIQUE idempotency key lets one of two requests through. *)
InsertAction(p) ==
    /\ loc[p].at = "inserting"
    /\ \/ /\ Row(p).status = "absent"
          /\ action' = [action EXCEPT ![loc[p].act] =
                [status |-> "prepared", draft |-> loc[p].draft, approval |-> NoApproval]]
          /\ Goto(p, At(p, "creating"))
       \/ Row(p).status # "absent" /\ Return(p) /\ UNCHANGED action
    /\ ActionOnly

(* create_dispatch, which makes the approval too, with its 15 minutes.     *)
CreateDispatch(p) ==
    \/ /\ loc[p].at = "creating"
       /\ D!LookUp(p, loc[p].act, DocsRequest)
       /\ Goto(p, At(p, "recording"))
       /\ RecordsOnly
    \/ /\ loc[p].at = "recording"
       /\ D!Insert(p)
       /\ \A b \in ApprovalId : approval'[b].key = loc[p].act => approval'[b].deadline = "ahead"
       /\ Goto(p, At(p, "finding"))
       /\ RecordsOnly

(* list_pending: the approval may have been decided already.               *)
FindApproval(p) ==
    /\ loc[p].at = "finding"
    /\ \/ \E b \in D!Open(loc[p].act) : Goto(p, [At(p, "linking") EXCEPT !.ref = b])
       \/ D!Open(loc[p].act) = {} /\ Return(p)
    /\ NoRows

(* The linkage.  Nothing else moves a row that is prepared, so the         *)
(* compare-and-swap does not fail.                                         *)
Link(p) ==
    /\ loc[p].at = "linking"
    /\ Row(p).status = "prepared"
    /\ action' = [action EXCEPT ![loc[p].act].status = "awaiting_approval",
                                ![loc[p].act].approval = loc[p].ref]
    /\ Return(p)
    /\ ActionOnly

-----------------------------------------------------------------------------
Bound(b) == {w \in Action : action[w].approval = b}

(* /approve: approve_and_execute for the approval of an action, and the    *)
(* generic approve-then-dispatch for any other.                            *)
ApproveCommand(p, b) ==
    /\ loc[p] = Idle
    /\ \/ D!Approve(b) /\
             \/ \E w \in Bound(b) :
                   Goto(p, [Idle EXCEPT !.at = "observing", !.act = w, !.executes = TRUE])
             \/ /\ Bound(b) = {}
                /\ Goto(p, [Idle EXCEPT !.at = "generic", !.act = approval[b].key])
       \/ D!ApproveTooLate(b) /\ UNCHANGED loc
    /\ RecordsOnly

(* /reject                                                                 *)
RejectCommand(p, b) ==
    /\ loc[p] = Idle
    /\ D!Reject(b)
    /\ \/ \E w \in Bound(b) : Goto(p, [Idle EXCEPT !.at = "observing", !.act = w])
       \/ Bound(b) = {} /\ UNCHANGED loc
    /\ RecordsOnly

(* /canceldispatch, and the clock.                                         *)
CancelDispatch(w) == D!Cancel(w) /\ UNCHANGED loc /\ RecordsOnly
ReachDeadline(b)  == D!ReachDeadline(b) /\ UNCHANGED loc /\ RecordsOnly

(* dispatch() of the generic /approve: the row is claimed and set running  *)
(* before the missing adapter raises.                                      *)
Generic(p) ==
    \/ /\ loc[p].at = "generic"
       /\ \/ D!ReadForDispatch(p, loc[p].act) /\ Goto(p, At(p, "dispatching"))
          \/ status[loc[p].act] \notin D!Startable /\ Return(p) /\ DispatchIdle
       /\ RecordsOnly
    \/ /\ loc[p].at = "dispatching"
       /\ D!Claim(p) \/ D!MarkRunning(p) \/ D!BeginAttempt(p) \/ D!Execute(p)
       /\ IF call'[p] = D!Idle THEN Return(p) ELSE UNCHANGED loc
       /\ RecordsOnly

-----------------------------------------------------------------------------
(* execute(), called directly as the concurrency test does.                *)
ExecuteCall(p, w) ==
    /\ loc[p] = Idle
    /\ action[w].approval # NoApproval
    /\ Goto(p, [Idle EXCEPT !.at = "observing", !.act = w, !.executes = TRUE])
    /\ NoRows

(* What an approval that has this status means for its action.             *)
Target(s) ==
    CASE s = "approved"                             -> "approved"
      [] s \in {"rejected", "cancelled", "expired"} -> "rejected"
      [] OTHER                                      -> "absent"

(* After observe_approval has returned a row with status s.                *)
Observed(p, s) ==
    Goto(p, IF loc[p].executes /\ s = "approved" THEN At(p, "checking") ELSE Idle)

(* An observer that takes every decision for a yes.                        *)
ObserveYes(p) ==
    /\ loc[p].at = "observing"
    /\ IF Target(approval[Row(p).approval].status) # "absent" /\ Row(p).status = "awaiting_approval"
       THEN Goto(p, [At(p, "settling") EXCEPT !.goal = "approved"])
       ELSE Observed(p, Row(p).status)
    /\ NoRows

(* observe_approval, its reads of the action and of the approval,          *)
Observe(p) ==
    LET target == Target(approval[Row(p).approval].status)
    IN  /\ loc[p].at = "observing"
        /\ IF target # "absent" /\ Row(p).status = "awaiting_approval"
           THEN Goto(p, [At(p, "settling") EXCEPT !.goal = target])
           ELSE Observed(p, Row(p).status)
        /\ NoRows

(* and its compare-and-swap; either way it returns the row as it is then.  *)
Settle(p) ==
    /\ loc[p].at = "settling"
    /\ IF Row(p).status = "awaiting_approval"
       THEN SetStatus(p, loc[p].goal) /\ Observed(p, loc[p].goal)
       ELSE UNCHANGED action /\ Observed(p, Row(p).status)
    /\ ActionOnly

(* execute(): is the draft still the one that was approved?  Its text is   *)
(* immutable, so the fingerprint changes only with the row's status.       *)
Check(p) ==
    /\ loc[p].at = "checking"
    /\ \/ Current(Row(p).draft) /\ Goto(p, At(p, "claiming"))
       \/ ~Current(Row(p).draft) /\ Goto(p, [At(p, "finishing") EXCEPT !.goal = "cancelled"])
    /\ NoRows

(* A claim that does not look at the status it read.                       *)
ClaimBlindly(p) ==
    /\ loc[p].at = "claiming"
    /\ SetStatus(p, "executing") /\ Goto(p, At(p, "rechecking"))
    /\ ActionOnly

(* The claim approved -> executing.                                        *)
Claim(p) ==
    /\ loc[p].at = "claiming"
    /\ IF Row(p).status = "approved"
       THEN SetStatus(p, "executing") /\ Goto(p, At(p, "rechecking"))
       ELSE UNCHANGED action /\ Return(p)
    /\ ActionOnly

(* No second check.                                                        *)
TrustCheck(p) ==
    /\ loc[p].at = "rechecking"
    /\ Goto(p, At(p, "writing"))
    /\ NoRows

(* A second check that gives up without recording it.                      *)
DropCheck(p) ==
    /\ loc[p].at = "rechecking"
    /\ \/ Current(Row(p).draft) /\ Goto(p, At(p, "writing"))
       \/ ~Current(Row(p).draft) /\ Return(p)
    /\ NoRows

(* The same check again, now that the write is claimed.                    *)
Recheck(p) ==
    /\ loc[p].at = "rechecking"
    /\ \/ Current(Row(p).draft) /\ Goto(p, At(p, "writing"))
       \/ ~Current(Row(p).draft) /\ Goto(p, [At(p, "finishing") EXCEPT !.goal = "failed"])
    /\ NoRows

(* What create_private_document reports, and how many documents there are: *)
(* a definite refusal is a failure; a lost answer to the creation, or a    *)
(* failure after it, is an unknown outcome.  A server error (5xx) and an   *)
(* answer without a document id are failures too (DocsProviderError),      *)
(* although the document may have been made.                               *)
Reports == {<<"succeeded", 1>>, <<"failed", 0>>, <<"failed", 1>>,
            <<"outcome_unknown", 0>>, <<"outcome_unknown", 1>>}

Report(p, outcomes) ==
    /\ loc[p].at = "writing"
    /\ writes' = [writes EXCEPT ![loc[p].act] = @ + 1]
    /\ \E o \in outcomes :
          /\ documents' = [documents EXCEPT ![loc[p].act] = @ + o[2]]
          /\ Goto(p, [At(p, "finishing") EXCEPT !.goal = o[1]])
    /\ UNCHANGED <<draft, action>> /\ DispatchIdle

Write(p) == Report(p, Reports)

(* _finalize: a result is recorded only while the row is executing, a      *)
(* cancellation whatever the row is by now.                                *)
Finish(p) ==
    /\ loc[p].at = "finishing"
    /\ IF Row(p).status = "executing" \/ loc[p].goal = "cancelled"
       THEN SetStatus(p, loc[p].goal)
       ELSE UNCHANGED action
    /\ Return(p)
    /\ ActionOnly

(* The caller dies, with its locals.                                       *)
Die(p) ==
    /\ Crashes
    /\ loc[p] # Idle
    /\ Return(p)
    /\ IF call[p] = D!Idle THEN DispatchIdle ELSE D!Crash(p)
    /\ RecordsOnly

-----------------------------------------------------------------------------
(* What a command does on its own once it was given.                       *)
Proceed(p) ==
    \/ MarkReady(p) \/ Revise(p)
    \/ InsertAction(p) \/ CreateDispatch(p) \/ FindApproval(p) \/ Link(p) \/ Generic(p)
    \/ Observe(p) \/ Settle(p) \/ Check(p) \/ Claim(p) \/ Recheck(p) \/ Write(p) \/ Finish(p)

Command(p) ==
    \/ \E d \in Draft : OpenDraft(p, d) \/ \E w \in Action : Request(p, w, d)
    \/ \E b \in ApprovalId : ApproveCommand(p, b) \/ RejectCommand(p, b)
    \/ \E w \in Action : ExecuteCall(p, w)

Next ==
    \/ \E p \in Caller : Proceed(p) \/ Command(p) \/ Die(p)
    \/ \E d \in Draft : Prepare(d)
    \/ \E w \in Action : CancelDispatch(w)
    \/ \E b \in ApprovalId : ReachDeadline(b)

Spec == Init /\ [][Next]_vars

(* The fairness of Proceed is stated where the module is checked for       *)
(* progress (MCOffice).                                                    *)
-----------------------------------------------------------------------------
(* Every variable has its type.                                            *)
TypeOK ==
    /\ draft \in [Draft -> DraftRow]
    /\ action \in [Action -> ActionRow]
    /\ loc \in [Caller -> Locals]
    /\ writes \in [Action -> Nat]
    /\ documents \in [Action -> Nat]
    /\ D!TypeOK

(* However many callers execute an action, and whichever of them die,      *)
(* Google is called once at most (SPRINT_8E: duplicate execution makes     *)
(* exactly one provider call, outcome_unknown never retries); and the row  *)
(* agrees with what exists there: a recorded success means the document, a *)
(* document means that the row says an attempt was made, so that nothing   *)
(* cancelled, rejected or still to be approved has one.                    *)
OutcomeIsTrue ==
    \A w \in Action :
        /\ writes[w] <= 1
        /\ action[w].status = "succeeded" => documents[w] = 1
        /\ documents[w] > 0 => action[w].status \in {"executing", "succeeded", "failed", "outcome_unknown"}
        /\ action[w].status = "outcome_unknown" => writes[w] = 1

(* A draft that may be executed has no later revision, although it is made *)
(* ready and revised by commands that read it before they write.           *)
ReadyIsLatest ==
    \A d, e \in Draft : draft[d].status = "ready_for_action" => draft[e].follows # d

(* The actions implement the owner's contract: a document is written only  *)
(* of an action whose own approval was granted and then observed, and an   *)
(* action that is over has no further life (SPRINT_8E: no valid approval,  *)
(* no Google write).                                                       *)
PhaseOf(s) ==
    CASE s \in {"absent", "prepared"} -> "none"
      [] s = "awaiting_approval"      -> "waiting"
      [] s = "approved"               -> "ready"
      [] s = "executing"              -> "busy"
      [] s = "succeeded"              -> "done"
      [] OTHER                        -> "closed"

Gate == INSTANCE ApprovalGate WITH
    Work    <- Action,
    phase   <- [w \in Action |-> PhaseOf(action[w].status)],
    guarded <- {w \in Action : action[w].approval # NoApproval},
    granted <- {w \in Action :
                   /\ PhaseOf(action[w].status) \notin {"none", "waiting"}
                   /\ approval[action[w].approval].status = "approved"
                   /\ approval[action[w].approval].key = w},
    runs    <- writes

ImplementsGate == Gate!Spec

(* A draft that is superseded before its write was claimed is not written, *)
(* even if a caller had found it current (SPRINT_8E: approval of revision  *)
(* N never executes after N+1 supersedes it).                              *)
Open == {"prepared", "awaiting_approval", "approved"}
Superseded(w) == action[w].status \in Open /\ ~Current(action[w].draft)
SupersededNeverWritten ==
    \A w \in Action : [](Superseded(w) => [](writes[w] = 0))

(* An approved action does not stay half done: while no caller dies, its   *)
(* claim is followed by an outcome.                                        *)
ClaimedIsFinished ==
    \A w \in Action : action[w].status = "executing" ~> action[w].status \in Final

-----------------------------------------------------------------------------
(* What the documents say and the code does not do.                        *)

(* SPRINT_8E: failed is permitted only before the submission or when the   *)
(* provider's non-execution is known; so a failed action has no document.  *)
FailedLeavesNothing ==
    \A w \in Action : action[w].status = "failed" => documents[w] = 0
=============================================================================
