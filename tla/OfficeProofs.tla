---------------------------- MODULE OfficeProofs ----------------------------
(***************************************************************************)
(* What is proved about the components of MCOffice: each follows its own   *)
(* specification, so what its proofs say of a step holds here.             *)
(***************************************************************************)
EXTENDS MCOffice, Sequences, TLAPS

(* The same instances as E, G, W and D, with what is proved about them.    *)
XE == INSTANCE ExecutionProofs

XG == INSTANCE ProviderGatewayProofs WITH
        Request <- Question, Task <- {"coding", "other"},
        Specialist <- ("coding" :> "k1"),
        Combo <- ("generic" :> <<"k2", "k1", "k3">>),
        Eligible <- ("coding" :> Route @@ "other" :> {"k2", "k3"}),
        MaxLive <- 2, Threshold <- 2

XW == INSTANCE WorkspaceActionProofs WITH Crashes <- FALSE

XD == INSTANCE DispatchProofs WITH
        Key <- Action, NoKey <- NoAction, Crashes <- FALSE, Syncs <- 0,
        Requests <- DispatchRequests

-----------------------------------------------------------------------------
(* Execution.                                                              *)
LEMMA SameRuns ==
    /\ E!Init <=> XE!Init
    /\ E!Next <=> XE!Next
    /\ E!RunsOnceApproved <=> XE!RunsOnceApproved
    /\ E!LogIsTrue <=> XE!LogIsTrue
BY DEF E!Init, E!Next, E!Start, E!Step, E!Die, E!Raise, E!OpenApprove, E!OpenCancel, E!Submit,
       E!Sweep, E!NoteReconciled, E!RecordApproval, E!Cancel, E!Dispatch, E!AddAuditEntry, E!RunAdapter, E!Finish,
       E!Goto, E!In, E!Note, E!Swap, E!Down, E!Idle, E!Terminal, E!RunsOnceApproved, E!LogIsTrue, E!Once,
       E!Ending, E!Starting,
       XE!Init, XE!Next, XE!Start, XE!Step, XE!Die, XE!Raise, XE!OpenApprove, XE!OpenCancel, XE!Submit,
       XE!Sweep, XE!NoteReconciled, XE!RecordApproval, XE!Cancel, XE!Dispatch, XE!AddAuditEntry, XE!RunAdapter,
       XE!Finish, XE!Goto, XE!In, XE!Note, XE!Swap, XE!Down, XE!Idle, XE!Terminal, XE!RunsOnceApproved,
       XE!LogIsTrue, XE!Once, XE!Ending, XE!Starting

(* Either its component is followed, or its tables stand still.            *)
LEMMA RunStep == [Next]_vars => [XE!Next]_(XE!vars)
BY SameRuns DEF Next, vars, runVars, XE!vars

RunInv == XE!Inv /\ XE!LogInv

LEMMA RunInvAlways == Spec => []RunInv
<1>1. Init => RunInv
  BY SameRuns, XE!InitInv, XE!LogInvInit DEF Init, RunInv
<1>2. RunInv /\ [Next]_vars => RunInv'
  BY RunStep, XE!NextInv, XE!LogInvStep DEF RunInv
<1> QED
  BY <1>1, <1>2, PTL DEF Spec

(* An execution runs at most once, and gated work after its approval.      *)
THEOREM RunsAreApproved == Spec => []RunsOnceApproved
<1>1. RunInv => RunsOnceApproved
  BY SameRuns, XE!InvImplies DEF RunInv, RunsOnceApproved
<1> QED
  BY <1>1, RunInvAlways, PTL

(* The audit log of an execution agrees with its row, although the entry   *)
(* is written after the row, in a transaction of its own; a start's entry  *)
(* is of a row that is over.                                               *)
THEOREM AuditLogIsTrue == Spec => []LogIsTrue
<1>1. RunInv => LogIsTrue
  BY SameRuns, XE!LogInvImplies DEF RunInv, LogIsTrue
<1> QED
  BY <1>1, RunInvAlways, PTL

-----------------------------------------------------------------------------
(* ProviderGateway.                                                        *)
LEMMA SameChains ==
    /\ \A task \in {"coding", "other"} : G!ChainOf(task) = XG!ChainOf(task)
    /\ G!Configured <=> XG!Configured
<1>1. \A task \in {"coding", "other"} : G!ChainOf(task) = XG!ChainOf(task)
  BY DEF G!ChainOf, XG!ChainOf, G!ToSet, XG!ToSet
<1> QED
  BY <1>1 DEF G!Configured, XG!Configured, G!IsInjective, XG!IsInjective

LEMMA SameLive == \A tries : G!Live(tries) = XG!Live(tries)
BY DEF G!Live, XG!Live, G!Cardinality, XG!Cardinality

LEMMA SameGateway ==
    /\ G!Init <=> XG!Init
    /\ G!Next <=> XG!Next
    /\ G!TriesAreJustified <=> XG!TriesAreJustified
<1>1. G!Init <=> XG!Init
  BY DEF G!Init, G!Closed, G!Idle, XG!Init, XG!Closed, XG!Idle
<1>2. \A r, chain, tries, circuits : G!Advance(r, chain, tries, circuits) <=> XG!Advance(r, chain, tries, circuits)
  <2>1. /\ \A c : (G!Allowed(c) <=> XG!Allowed(c)) /\ G!Admit(c) = XG!Admit(c)
        /\ \A n : G!Skips(n) = XG!Skips(n)
    BY DEF G!Allowed, G!Admit, G!Skips, XG!Allowed, XG!Admit, XG!Skips
  <2> SUFFICES ASSUME NEW r, NEW chain, NEW tries, NEW circuits
               PROVE  G!Advance(r, chain, tries, circuits) <=> XG!Advance(r, chain, tries, circuits)
    OBVIOUS
  <2>2. \A up : {j \in (Len(tries) + 1)..Len(chain) : chain[j] \in up /\ G!Allowed(circuits[chain[j]])}
               = {j \in (Len(tries) + 1)..Len(chain) : chain[j] \in up /\ XG!Allowed(circuits[chain[j]])}
    BY <2>1
  <2>3. G!Live(tries) = XG!Live(tries)
    BY SameLive
  <2> QED
    BY <2>1, <2>2, <2>3 DEF G!Advance, XG!Advance
<1>3. \A r, verdict : G!Answer(r, verdict) <=> XG!Answer(r, verdict)
  BY <1>2 DEF G!Answer, G!Called, G!RecordSuccess, G!RecordFailure, G!Closed,
              XG!Answer, XG!Called, XG!RecordSuccess, XG!RecordFailure, XG!Closed
<1>4. \A r : \A task \in {"coding", "other"} : G!Ask(r, task) <=> XG!Ask(r, task)
  BY <1>2, SameChains DEF G!Ask, G!Idle, XG!Ask, XG!Idle
<1>5. G!Next <=> XG!Next
  BY <1>3, <1>4 DEF G!Next, G!Return, G!Cool, G!Restart, G!Closed, G!Idle, G!Verdict,
                    XG!Next, XG!Return, XG!Cool, XG!Restart, XG!Closed, XG!Idle, XG!Verdict
<1>6. G!TriesAreJustified <=> XG!TriesAreJustified
  BY SameLive DEF G!TriesAreJustified, XG!TriesAreJustified, G!Last, XG!Last
<1> QED
  BY <1>1, <1>5, <1>6

LEMMA GatewayStep == [Next]_vars => [XG!Next]_(XG!vars)
BY SameGateway DEF Next, vars, gatewayVars, XG!vars

LEMMA GatewayInvAlways == Spec => []XG!Inv
<1>1. Init => XG!Inv
  BY SameGateway, SameChains, OfficeAssumption, XG!InvInit DEF Init
<1>2. XG!Inv /\ [Next]_vars => XG!Inv'
  BY GatewayStep, SameChains, OfficeAssumption, XG!InvStep
<1> QED
  BY <1>1, <1>2, PTL DEF Spec

(* The fallback loop keeps its limit and leaves a route only for a reason. *)
THEOREM FallbackIsJustified == Spec => []TriesAreJustified
<1>1. XG!Inv => TriesAreJustified
  BY SameGateway, XG!InvImplies DEF TriesAreJustified
<1> QED
  BY <1>1, GatewayInvAlways, PTL

(* A route whose circuit is open is not called before the reset timeout.   *)
THEOREM OpenCircuitsAreSpared == Spec => FailingRoutesAreSpared
<1>1. XG!Inv /\ [Next]_vars => [XG!SparedStep]_(XG!vars)
  BY GatewayStep, SameChains, OfficeAssumption, XG!InvStep
<1>2. [XG!SparedStep]_(XG!vars) <=> [\A r \in Question :
          ask'[r].place = "calling" /\ ask'[r] # ask[r] =>
              LET c == breaker'[ask'[r].chain[Len(ask'[r].tries) + 1]]
              IN  c.failures < 2 \/ c.cooled]_(G!vars)
  BY DEF XG!SparedStep, XG!vars, G!vars
<1> QED
  BY <1>1, <1>2, GatewayInvAlways, PTL DEF Spec, FailingRoutesAreSpared, G!FailingRoutesAreSpared

-----------------------------------------------------------------------------
(* Dispatch.                                                               *)
LEMMA SameDispatch ==
    /\ D!Init <=> XD!Init
    /\ D!Next <=> XD!Next
BY DEF XD!Init, XD!Next, XD!Proceed, XD!Enter, XD!Decide, XD!LookUp, XD!Insert, XD!InsertLost,
       XD!ReadForDispatch, XD!ReadForRetry, XD!Claim, XD!MarkRunning, XD!Swap, XD!BeginAttempt,
       XD!Execute, XD!Finish, XD!Crash, XD!Cancel, XD!Synchronize, XD!RequestApproval,
       XD!Approve, XD!ApproveTooLate, XD!Reject, XD!ExpireOrClose, XD!ReachDeadline, XD!rows,
       XD!Idle, XD!Open, XD!Fresh, XD!InsertApproval, XD!Return, XD!Transitions, XD!Pending,
       XD!Resolve, XD!Move, XD!Outcomes, XD!Closed, XD!Retryable, XD!Startable,
       XD!DispatchStatus, XD!Busy, D!Init, D!Next, D!Proceed, D!Enter, D!Decide, D!LookUp,
       D!Insert, D!InsertLost, D!ReadForDispatch, D!ReadForRetry, D!Claim, D!MarkRunning,
       D!Swap, D!BeginAttempt, D!Execute, D!Finish, D!Crash, D!Cancel, D!Synchronize,
       D!RequestApproval, D!Approve, D!ApproveTooLate, D!Reject, D!ExpireOrClose,
       D!ReachDeadline, D!rows, D!Idle, D!Open, D!Fresh, D!InsertApproval, D!Return,
       D!Transitions, D!Pending, D!Resolve, D!Move, D!Outcomes, D!Closed, D!Retryable,
       D!Startable, D!DispatchStatus, D!Busy

LEMMA DispatchAssumed ==
    /\ NoAction \notin Action
    /\ NoRequest \notin DispatchRequests
    /\ \A r \in DispatchRequests : r.gated \in BOOLEAN /\ r.registered \in BOOLEAN /\ r.max \in 1..10
    /\ 0 \in Nat
    /\ FALSE \in BOOLEAN
BY OfficeAssumption DEF DispatchRequests

LEMMA DispatchStep == part = "dispatch" /\ [Next]_vars => [XD!Next]_(XD!vars) /\ UNCHANGED part
BY SameDispatch DEF Next, vars, actionVars, dispatchVars, XD!vars

DispatchInv == part = "dispatch" => XD!TypeInv /\ XD!FlightInv /\ XD!RecordInv

LEMMA DispatchInvAlways == Spec => []DispatchInv
<1>1. Init => DispatchInv
  <2>1. Init => XD!Init
    BY SameDispatch DEF Init, W!Init, W!D!Init, D!Init, W!D!Idle, D!Idle
  <2> QED
    BY <2>1, DispatchAssumed, XD!TypeInvInit, XD!FlightInvInit, XD!RecordInvInit DEF DispatchInv
<1>2. DispatchInv /\ [Next]_vars => DispatchInv'
  <2> SUFFICES ASSUME DispatchInv, [Next]_vars, part' = "dispatch" PROVE DispatchInv'
    BY DEF DispatchInv
  <2>1. part = "dispatch"
    BY DEF Next, vars
  <2>2. [XD!Next]_(XD!vars)
    BY <2>1, DispatchStep
  <2>3. XD!TypeInv /\ XD!FlightInv /\ XD!RecordInv
    BY <2>1 DEF DispatchInv
  <2>4. XD!TypeInv'
    BY <2>2, <2>3, DispatchAssumed, XD!TypeInvStep
  <2>5. XD!FlightInv'
    BY <2>2, <2>3, DispatchAssumed, XD!FlightInvStep
  <2>6. XD!RecordInv'
    BY <2>2, <2>3, DispatchAssumed, XD!RecordInvStep
  <2> QED
    BY <2>4, <2>5, <2>6 DEF DispatchInv
<1> QED
  BY <1>1, <1>2, PTL DEF Spec

(* Two callers are never at work on one dispatch, as long as nobody calls  *)
(* synchronize_status.                                                     *)
THEOREM CallsAreExclusive == Spec => []OneCallInFlight
<1>1. DispatchInv => OneCallInFlight
  BY DEF DispatchInv, OneCallInFlight, XD!FlightInv, XD!OneCallInFlight, D!OneCallInFlight,
         XD!InFlight, D!InFlight
<1> QED
  BY <1>1, DispatchInvAlways, PTL

(* The outcome of a dispatch is that of its last attempt.                  *)
THEOREM OutcomesAreRecorded == Spec => []OutcomeIsRecorded
<1>1. DispatchInv => OutcomeIsRecorded
  BY DEF DispatchInv, OutcomeIsRecorded, XD!RecordInv, XD!OutcomeIsRecorded, D!OutcomeIsRecorded,
         XD!Outcomes, D!Outcomes
<1> QED
  BY <1>1, DispatchInvAlways, PTL

-----------------------------------------------------------------------------
(* WorkspaceAction.                                                        *)
LEMMA SameActions ==
    /\ W!Init <=> XW!Init
    /\ W!Next <=> XW!Next
    /\ (\E d, e \in Draft : W!SupersedeReady(d, e)) <=> XW!Superseding
BY DEF W!Init, W!Next, W!Proceed, W!Command, W!MarkReady, W!Revise, W!InsertAction,
       W!CreateDispatch, W!FindApproval, W!Link, W!Generic, W!Observe, W!Settle, W!Check,
       W!Claim, W!Recheck, W!Write, W!Report, W!Finish, W!OpenDraft, W!Request,
       W!ApproveCommand, W!RejectCommand, W!ExecuteCall, W!Prepare, W!CancelDispatch,
       W!ReachDeadline, W!Die, W!SupersedeReady, W!DraftsOnly, W!ActionOnly, W!NoRows,
       W!RecordsOnly, W!GoogleIdle, W!DispatchIdle, W!dispatchVars, W!Current, W!Row, W!Goto,
       W!At, W!Return, W!SetStatus, W!Idle, W!Bound, W!Observed, W!Target, W!Reports,
       W!DocsRequest, XW!Init, XW!Next, XW!Proceed, XW!Command, XW!MarkReady, XW!Revise,
       XW!InsertAction, XW!CreateDispatch, XW!FindApproval, XW!Link, XW!Generic, XW!Observe,
       XW!Settle, XW!Check, XW!Claim, XW!Recheck, XW!Write, XW!Report, XW!Finish, XW!OpenDraft,
       XW!Request, XW!ApproveCommand, XW!RejectCommand, XW!ExecuteCall, XW!Prepare,
       XW!CancelDispatch, XW!ReachDeadline, XW!Die, XW!SupersedeReady, XW!DraftsOnly,
       XW!ActionOnly, XW!NoRows, XW!RecordsOnly, XW!GoogleIdle, XW!DispatchIdle,
       XW!dispatchVars, XW!Current, XW!Row, XW!Goto, XW!At, XW!Return, XW!SetStatus, XW!Idle,
       XW!Bound, XW!Observed, XW!Target, XW!Reports, XW!DocsRequest, W!D!Init, W!D!Next,
       W!D!Proceed, W!D!Enter, W!D!Decide, W!D!LookUp, W!D!Insert, W!D!InsertLost,
       W!D!ReadForDispatch, W!D!ReadForRetry, W!D!Claim, W!D!MarkRunning, W!D!Swap,
       W!D!BeginAttempt, W!D!Execute, W!D!Finish, W!D!Crash, W!D!Cancel, W!D!Synchronize,
       W!D!RequestApproval, W!D!Approve, W!D!ApproveTooLate, W!D!Reject, W!D!ExpireOrClose,
       W!D!ReachDeadline, W!D!rows, W!D!Idle, W!D!Open, W!D!Fresh, W!D!InsertApproval,
       W!D!Return, W!D!Transitions, W!D!Pending, W!D!Resolve, W!D!Move, W!D!Outcomes,
       W!D!Closed, W!D!Retryable, W!D!Startable, W!D!DispatchStatus, W!D!Busy, XW!D!Init,
       XW!D!Next, XW!D!Proceed, XW!D!Enter, XW!D!Decide, XW!D!LookUp, XW!D!Insert,
       XW!D!InsertLost, XW!D!ReadForDispatch, XW!D!ReadForRetry, XW!D!Claim, XW!D!MarkRunning,
       XW!D!Swap, XW!D!BeginAttempt, XW!D!Execute, XW!D!Finish, XW!D!Crash, XW!D!Cancel,
       XW!D!Synchronize, XW!D!RequestApproval, XW!D!Approve, XW!D!ApproveTooLate, XW!D!Reject,
       XW!D!ExpireOrClose, XW!D!ReachDeadline, XW!D!rows, XW!D!Idle, XW!D!Open, XW!D!Fresh,
       XW!D!InsertApproval, XW!D!Return, XW!D!Transitions, XW!D!Pending, XW!D!Resolve,
       XW!D!Move, XW!D!Outcomes, XW!D!Closed, XW!D!Retryable, XW!D!Startable,
       XW!D!DispatchStatus, XW!D!Busy,
       XW!Superseding


LEMMA ActionsAssumed ==
    /\ NoAction \notin Action /\ NoDraft \notin Draft /\ NoApproval \notin ApprovalId
    /\ FALSE \in BOOLEAN
    /\ NoRequest # XW!DocsRequest
BY OfficeAssumption DEF W!DocsRequest, XW!DocsRequest

LEMMA ActionStep == part = "action" /\ [Next]_vars => [XW!Next \/ XW!Superseding]_(XW!vars) /\ UNCHANGED part
BY SameActions
DEF Next, vars, actionVars, documentVars, dispatchVars, XW!vars, XW!dispatchVars

(* Where another component is followed, no action ever gets a row.         *)
ActionInv ==
    IF part = "action" THEN XW!Inv ELSE \A w \in Action : action[w].status = "absent"

LEMMA ActionInvInit == Init => ActionInv
<1>1. Init => XW!Init
  BY SameActions DEF Init
<1>2. XW!Init => XW!Inv
  BY ActionsAssumed, XW!InvInit
<1>3. XW!Init => \A w \in Action : action[w].status = "absent"
  BY DEF XW!Init
<1> QED
  BY <1>1, <1>2, <1>3 DEF ActionInv

LEMMA ActionInvStep == ActionInv /\ [Next]_vars => ActionInv'
<1> SUFFICES ASSUME ActionInv, [Next]_vars PROVE ActionInv'
  OBVIOUS
<1>1. CASE part = "action"
  <2>1. XW!Inv'
    BY <1>1, ActionStep, ActionsAssumed, XW!InvStep DEF ActionInv
  <2> QED
    BY <1>1, <2>1, ActionStep DEF ActionInv
<1>2. CASE part # "action"
  <2>1. UNCHANGED <<part, action>>
    BY <1>2 DEF Next, vars, actionVars, documentVars
  <2> QED
    BY <1>2, <2>1 DEF ActionInv
<1> QED
  BY <1>1, <1>2

(* A superseded draft is not written, whoever found it current before.     *)
THEOREM SupersededIsNeverWritten == Spec => SupersededNeverWritten
<1> SUFFICES ASSUME NEW w \in Action
             PROVE  Spec => [](W!Superseded(w) => [](writes[w] = 0))
  BY DEF SupersededNeverWritten, W!SupersededNeverWritten
<1> DEFINE Lost == part = "action" /\ XW!Doomed(w)
<1>1. ActionInv /\ W!Superseded(w) => Lost
  <2> SUFFICES ASSUME ActionInv, W!Superseded(w) PROVE Lost
    OBVIOUS
  <2>1. part = "action" /\ XW!Inv
    BY DEF ActionInv, W!Superseded, W!Open
  <2>2. XW!Superseded(w)
    BY DEF W!Superseded, W!Open, W!Current, XW!Superseded, XW!Open, XW!Current
  <2> QED
    BY <2>1, <2>2, ActionsAssumed, XW!SupersededIsDoomed
<1>2. ActionInv /\ Lost /\ [Next]_vars => Lost'
  <2> SUFFICES ASSUME ActionInv, Lost, [Next]_vars PROVE Lost'
    OBVIOUS
  <2>1. [XW!Next \/ XW!Superseding]_(XW!vars) /\ part' = "action" /\ XW!Inv
    BY ActionStep DEF ActionInv
  <2>2. XW!Doomed(w)'
    BY <2>1, ActionsAssumed, XW!DoomedStays
  <2> QED
    BY <2>1, <2>2
<1>3. Lost => writes[w] = 0
  BY DEF XW!Doomed
<1> HIDE DEF Lost
<1> QED
  BY <1>1, <1>2, <1>3, ActionInvInit, ActionInvStep, PTL DEF Spec
=============================================================================
