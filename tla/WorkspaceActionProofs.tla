----------------------- MODULE WorkspaceActionProofs -----------------------
(***************************************************************************)
(* What is proved about WorkspaceAction for every set of actions, drafts,  *)
(* approvals and callers: its dispatches are those of Dispatch, a ready    *)
(* draft is the latest, the recorded outcome is true, and the actions      *)
(* implement the owner's contract (ApprovalGate).                          *)
(***************************************************************************)
EXTENDS WorkspaceAction, TLAPS

(* The same instance of Dispatch as D, with what is proved about it.       *)
P == INSTANCE DispatchProofs WITH
        Key <- Action, NoKey <- NoAction, Requests <- {DocsRequest}, Syncs <- 0

(* What DispatchAssumption says of this instance.                          *)
LEMMA DispatchAssumed ==
    /\ NoAction \notin Action
    /\ NoRequest \notin {DocsRequest}
    /\ \A r \in {DocsRequest} : r.gated \in BOOLEAN /\ r.registered \in BOOLEAN /\ r.max \in 1..10
    /\ 0 \in Nat
    /\ Crashes \in BOOLEAN
BY WorkspaceActionAssumption, NoRequestAssumption DEF DocsRequest

LEMMA SameInit == D!Init <=> P!Init
BY DEF D!Init, P!Init, D!Idle, P!Idle

LEMMA SameNext == D!Next <=> P!Next
BY DEF D!Next, D!Proceed, D!Enter, D!Decide, D!LookUp, D!Insert, D!InsertLost, D!ReadForDispatch,
       D!ReadForRetry, D!Claim, D!MarkRunning, D!Swap, D!BeginAttempt, D!Execute, D!Finish, D!Crash,
       D!Cancel, D!Synchronize, D!RequestApproval, D!Approve, D!ApproveTooLate, D!Reject,
       D!ExpireOrClose, D!ReachDeadline, D!rows, D!Idle, D!Open, D!Fresh, D!InsertApproval, D!Return,
       D!Transitions, D!Pending, D!Resolve, D!Move, D!Outcomes, D!Closed, D!Retryable, D!Startable,
       D!DispatchStatus, D!Busy,
       P!Next, P!Proceed, P!Enter, P!Decide, P!LookUp, P!Insert, P!InsertLost, P!ReadForDispatch,
       P!ReadForRetry, P!Claim, P!MarkRunning, P!Swap, P!BeginAttempt, P!Execute, P!Finish, P!Crash,
       P!Cancel, P!Synchronize, P!RequestApproval, P!Approve, P!ApproveTooLate, P!Reject,
       P!ExpireOrClose, P!ReachDeadline, P!rows, P!Idle, P!Open, P!Fresh, P!InsertApproval, P!Return,
       P!Transitions, P!Pending, P!Resolve, P!Move, P!Outcomes, P!Closed, P!Retryable, P!Startable,
       P!DispatchStatus, P!Busy

-----------------------------------------------------------------------------
(* The locals of a command.                                                *)
LocalsOK(l) ==
    /\ l \in Locals
    /\ l.at \notin {"idle", "readying", "revising"} => l.act \in Action
    /\ l.at \in {"readying", "revising", "inserting"} => l.draft \in Draft
    /\ l.at = "linking" => l.ref \in ApprovalId
    /\ l.at = "settling" => l.goal \in {"approved", "rejected"}
    /\ l.at = "finishing" => l.goal # "absent"

CommandsOK == loc \in [Caller -> Locals] /\ \A p \in Caller : LocalsOK(loc[p])

TablesOK ==
    /\ draft \in [Draft -> DraftRow]
    /\ action \in [Action -> ActionRow]
    /\ writes \in [Action -> Nat] /\ documents \in [Action -> Nat]

TypeInv == CommandsOK /\ TablesOK /\ P!TypeInv

LEMMA IdleOK == LocalsOK(Idle) /\ Idle.at = "idle"
BY DEF LocalsOK, Idle, Locals, Place, ActionStatus

LEMMA Goes ==
    ASSUME CommandsOK, NEW p \in Caller, NEW l, LocalsOK(l), Goto(p, l)
    PROVE  CommandsOK'
BY DEF CommandsOK, LocalsOK, Goto

(* Whatever a step does, it is a step of Dispatch or leaves it alone.      *)
LEMMA DispatchStep ==
    ASSUME TypeInv, [Next]_vars
    PROVE  [D!Next]_dispatchVars
<1> USE DEF D!Next, D!Proceed, D!Enter, D!Decide
<1>1. ASSUME NEW p \in Caller, CreateDispatch(p)
      PROVE  D!Next
  <2>1. loc[p].at = "creating" => loc[p].act \in Action
    BY DEF TypeInv, CommandsOK, LocalsOK
  <2> QED
    BY <1>1, <2>1 DEF CreateDispatch
<1>2. ASSUME NEW p \in Caller, Generic(p)
      PROVE  [D!Next]_dispatchVars
  <2>1. loc[p].at = "generic" => loc[p].act \in Action
    BY DEF TypeInv, CommandsOK, LocalsOK
  <2>2. CASE loc[p].at = "generic"
    BY <1>2, <2>1, <2>2 DEF Generic, DispatchIdle
  <2>3. CASE loc[p].at = "dispatching"
    BY <1>2, <2>3 DEF Generic
  <2> QED
    BY <1>2, <2>2, <2>3 DEF Generic
<1>3. ASSUME NEW p \in Caller, NEW b \in ApprovalId, ApproveCommand(p, b) \/ RejectCommand(p, b)
      PROVE  D!Next
  BY <1>3 DEF ApproveCommand, RejectCommand
<1>4. ASSUME NEW w \in Action, CancelDispatch(w)
      PROVE  D!Next
  BY <1>4 DEF CancelDispatch
<1>5. ASSUME NEW b \in ApprovalId, ReachDeadline(b)
      PROVE  D!Next
  BY <1>5 DEF ReachDeadline
<1>6. ASSUME NEW p \in Caller, Die(p)
      PROVE  [D!Next]_dispatchVars
  BY <1>6 DEF Die, DispatchIdle
<1>7. CASE DispatchIdle
  BY <1>7 DEF DispatchIdle
<1> QED
  BY <1>1, <1>2, <1>3, <1>4, <1>5, <1>6, <1>7
  DEF Next, Proceed, Command, MarkReady, Revise, InsertAction, FindApproval, Link, Observe, Settle,
      Check, Claim, Recheck, Write, Report, Finish, OpenDraft, Request, ExecuteCall, Prepare,
      DraftsOnly, ActionOnly, NoRows, DispatchIdle, vars

LEMMA DispatchTypes ==
    ASSUME TypeInv, [Next]_vars
    PROVE  /\ [P!Next]_(P!vars)
           /\ P!TypeInv'
<1>1. [P!Next]_(P!vars)
  BY DispatchStep, SameNext DEF dispatchVars, P!vars
<1> QED
  BY <1>1, DispatchAssumed, P!TypeInvStep DEF TypeInv

-----------------------------------------------------------------------------
(* The places a command goes to from where its action is known.            *)
LEMMA Advance ==
    ASSUME CommandsOK, NEW p \in Caller, loc[p].at \notin {"idle", "readying", "revising"},
           NEW place \in {"creating", "recording", "finding", "dispatching", "checking", "claiming",
                          "rechecking", "writing"},
           Goto(p, At(p, place))
    PROVE  CommandsOK'
<1>1. LocalsOK(loc[p])
  BY DEF CommandsOK
<1>2. LocalsOK(At(p, place))
  BY <1>1 DEF LocalsOK, At, Locals, Place
<1> QED
  BY <1>2, Goes

LEMMA AdvanceWith ==
    ASSUME CommandsOK, NEW p \in Caller, loc[p].at \notin {"idle", "readying", "revising"},
           NEW place \in {"settling", "finishing"}, NEW s \in ActionStatus \ {"absent"},
           place = "settling" => s \in {"approved", "rejected"},
           Goto(p, [At(p, place) EXCEPT !.goal = s])
    PROVE  CommandsOK'
<1>1. LocalsOK(loc[p])
  BY DEF CommandsOK
<1>2. LocalsOK([At(p, place) EXCEPT !.goal = s])
  BY <1>1 DEF LocalsOK, At, Locals, Place
<1> QED
  BY <1>2, Goes

LEMMA Leaves ==
    ASSUME CommandsOK, NEW p \in Caller, Return(p)
    PROVE  CommandsOK'
BY IdleOK, Goes DEF Return

LEMMA CommandsInit == Init => CommandsOK
BY IdleOK DEF Init, CommandsOK, LocalsOK

LEMMA PendingKey ==
    ASSUME P!TypeInv, NEW b \in ApprovalId, approval[b].status # "absent"
    PROVE  approval[b].key \in Action
BY DEF P!TypeInv, P!ApprovalsOK

LEMMA CommandsStep == TypeInv /\ [Next]_vars => CommandsOK'
<1> SUFFICES ASSUME TypeInv, [Next]_vars PROVE CommandsOK'
  OBVIOUS
<1> USE DEF TypeInv
<1>1. ASSUME NEW p \in Caller, MarkReady(p) \/ Revise(p) \/ Die(p)
      PROVE  CommandsOK'
  BY <1>1, Leaves DEF MarkReady, Revise, Die
<1>2. ASSUME NEW p \in Caller, InsertAction(p)
      PROVE  CommandsOK'
  BY <1>2, Leaves, Advance DEF InsertAction
<1>3. ASSUME NEW p \in Caller, CreateDispatch(p)
      PROVE  CommandsOK'
  BY <1>3, Advance DEF CreateDispatch
<1>4. ASSUME NEW p \in Caller, FindApproval(p)
      PROVE  CommandsOK'
  <2>1. ASSUME NEW b \in ApprovalId, loc[p].at = "finding",
               Goto(p, [At(p, "linking") EXCEPT !.ref = b])
        PROVE  CommandsOK'
    <3>1. LocalsOK(loc[p])
      BY DEF CommandsOK
    <3>2. LocalsOK([At(p, "linking") EXCEPT !.ref = b])
      BY <2>1, <3>1 DEF LocalsOK, At, Locals, Place
    <3> QED
      BY <2>1, <3>2, Goes
  <2> QED
    BY <1>4, <2>1, Leaves DEF FindApproval, D!Open
<1>5. ASSUME NEW p \in Caller, Link(p)
      PROVE  CommandsOK'
  BY <1>5, Leaves DEF Link
<1>6. ASSUME NEW p \in Caller, Generic(p)
      PROVE  CommandsOK'
  <2>1. CASE UNCHANGED loc
    BY <2>1 DEF CommandsOK
  <2> QED
    BY <1>6, <2>1, Leaves, Advance DEF Generic
<1>7. ASSUME NEW p \in Caller, NEW s,
             loc[p].at \notin {"idle", "readying", "revising"}, Observed(p, s)
      PROVE  CommandsOK'
  BY <1>7, Advance, Leaves DEF Observed, Return
<1>8. ASSUME NEW p \in Caller, Observe(p)
      PROVE  CommandsOK'
  <2> DEFINE target == Target(approval[Row(p).approval].status)
  <2>1. target \in {"approved", "rejected", "absent"}
    BY DEF Target
  <2>2. CASE target # "absent" /\ Row(p).status = "awaiting_approval"
    <3>1. target \in ActionStatus \ {"absent"} /\ target \in {"approved", "rejected"}
      BY <2>1, <2>2 DEF ActionStatus, Final
    <3>2. Goto(p, [At(p, "settling") EXCEPT !.goal = target]) /\ loc[p].at = "observing"
      BY <1>8, <2>2 DEF Observe
    <3> QED
      BY <3>1, <3>2, AdvanceWith
  <2>3. CASE ~(target # "absent" /\ Row(p).status = "awaiting_approval")
    BY <1>7, <1>8, <2>3 DEF Observe
  <2> QED
    BY <2>2, <2>3
<1>9. ASSUME NEW p \in Caller, Settle(p)
      PROVE  CommandsOK'
  BY <1>7, <1>9 DEF Settle
<1>10. ASSUME NEW p \in Caller, Check(p) \/ Recheck(p)
       PROVE  CommandsOK'
  <2>1. {"cancelled", "failed"} \subseteq ActionStatus \ {"absent"}
    BY DEF ActionStatus, Final
  <2> QED
    BY <1>10, <2>1, Advance, AdvanceWith DEF Check, Recheck
<1>11. ASSUME NEW p \in Caller, Claim(p) \/ Finish(p)
       PROVE  CommandsOK'
  BY <1>11, Advance, Leaves DEF Claim, Finish
<1>12. ASSUME NEW p \in Caller, Write(p)
       PROVE  CommandsOK'
  <2>1. \A o \in Reports : o[1] \in ActionStatus \ {"absent"}
    BY DEF Reports, ActionStatus, Final
  <2>2. PICK o \in Reports : Goto(p, [At(p, "finishing") EXCEPT !.goal = o[1]])
    BY <1>12 DEF Write, Report
  <2>3. loc[p].at = "writing"
    BY <1>12 DEF Write, Report
  <2> QED
    BY <2>1, <2>2, <2>3, AdvanceWith
<1>13. ASSUME NEW p \in Caller, NEW d \in Draft, OpenDraft(p, d)
       PROVE  CommandsOK'
  <2>1. PICK place \in {"readying", "revising"} : Goto(p, [Idle EXCEPT !.at = place, !.draft = d])
    BY <1>13 DEF OpenDraft
  <2>2. LocalsOK([Idle EXCEPT !.at = place, !.draft = d])
    BY IdleOK DEF LocalsOK, Locals, Place
  <2> QED
    BY <2>1, <2>2, Goes
<1>14. ASSUME NEW p \in Caller, NEW w \in Action, NEW d \in Draft, Request(p, w, d)
       PROVE  CommandsOK'
  <2>1. LocalsOK([Idle EXCEPT !.at = "inserting", !.act = w, !.draft = d])
    BY IdleOK DEF LocalsOK, Locals, Place
  <2> QED
    BY <1>14, <2>1, Goes DEF Request
<1>15. ASSUME NEW w \in Action, NEW e \in BOOLEAN
       PROVE  LocalsOK([Idle EXCEPT !.at = "observing", !.act = w, !.executes = e])
  BY IdleOK DEF LocalsOK, Locals, Place
<1>16. ASSUME NEW w \in Action
       PROVE  /\ LocalsOK([Idle EXCEPT !.at = "observing", !.act = w])
              /\ LocalsOK([Idle EXCEPT !.at = "generic", !.act = w])
  BY IdleOK DEF LocalsOK, Locals, Place
<1>17. CASE UNCHANGED loc
  BY <1>17 DEF CommandsOK
<1>18. ASSUME NEW p \in Caller, NEW b \in ApprovalId, ApproveCommand(p, b)
       PROVE  CommandsOK'
  <2>1. approval[b].key \in Action
    BY <1>18, PendingKey DEF ApproveCommand, D!Approve, D!ApproveTooLate, D!Pending
  <2> QED
    BY <1>15, <1>16, <1>17, <1>18, <2>1, Goes DEF ApproveCommand, Bound
<1>19. ASSUME NEW p \in Caller, NEW b \in ApprovalId, RejectCommand(p, b)
       PROVE  CommandsOK'
  BY <1>16, <1>17, <1>19, Goes DEF RejectCommand, Bound
<1>20. ASSUME NEW p \in Caller, NEW w \in Action, ExecuteCall(p, w)
       PROVE  CommandsOK'
  BY <1>15, <1>20, Goes DEF ExecuteCall
<1> QED
  BY <1>1, <1>2, <1>3, <1>4, <1>5, <1>6, <1>8, <1>9, <1>10, <1>11, <1>12, <1>13, <1>14, <1>17,
     <1>18, <1>19, <1>20
  DEF Next, Proceed, Command, Prepare, CancelDispatch, ReachDeadline, vars

-----------------------------------------------------------------------------
(* The rows of the drafts.                                                 *)
DraftMoves ==
    \/ UNCHANGED draft
    \/ \E d \in Draft : /\ draft[d].status = "absent"
                        /\ draft' = [draft EXCEPT ![d].status = "prepared"]
    \/ \E d \in Draft : /\ draft[d].status = "prepared"
                        /\ draft' = [draft EXCEPT ![d].status = "ready_for_action"]
    \/ \E d, e \in Draft : /\ draft[d].status = "prepared" /\ draft[e].status = "absent"
                           /\ draft' = [draft EXCEPT ![d].status = "superseded",
                                           ![e] = [status |-> "prepared", follows |-> d]]

LEMMA DraftStep == CommandsOK /\ [Next]_vars => DraftMoves
<1> SUFFICES ASSUME CommandsOK, [Next]_vars PROVE DraftMoves
  OBVIOUS
<1>1. ASSUME NEW p \in Caller, MarkReady(p) \/ Revise(p)
      PROVE  DraftMoves
  <2>1. loc[p].draft \in Draft
    BY <1>1 DEF CommandsOK, LocalsOK, MarkReady, Revise
  <2> QED
    BY <1>1, <2>1 DEF MarkReady, Revise, DraftMoves
<1>2. ASSUME NEW d \in Draft, Prepare(d)
      PROVE  DraftMoves
  BY <1>2 DEF Prepare, DraftMoves
<1>3. CASE UNCHANGED draft
  BY <1>3 DEF DraftMoves
<1> QED
  BY <1>1, <1>2, <1>3
  DEF Next, Proceed, Command, Die, InsertAction, CreateDispatch, FindApproval, Link, Generic, Observe,
      Settle, Check, Claim, Recheck, Write, Report, Finish, OpenDraft, Request, ApproveCommand,
      RejectCommand, ExecuteCall, CancelDispatch, ReachDeadline, ActionOnly, NoRows, RecordsOnly, vars

LEMMA DraftsTyped ==
    ASSUME draft \in [Draft -> DraftRow], DraftMoves
    PROVE  /\ draft' \in [Draft -> DraftRow]
           /\ \A d \in Draft :
                 draft[d].status = "ready_for_action" => draft'[d].status = "ready_for_action"
BY DEF DraftMoves, DraftRow

(* A draft gets a successor only as it is superseded, and never leaves     *)
(* that status.                                                            *)
DraftInv == \A d, e \in Draft : draft[e].follows = d => draft[d].status = "superseded"

LEMMA DraftInvInit == Init => DraftInv
BY WorkspaceActionAssumption DEF Init, DraftInv

LEMMA DraftInvStep ==
    ASSUME draft \in [Draft -> DraftRow], DraftInv, DraftMoves
    PROVE  DraftInv'
<1>1. CASE UNCHANGED draft
  BY <1>1 DEF DraftInv
<1>2. ASSUME NEW d \in Draft, NEW s, draft[d].status # "superseded",
             draft' = [draft EXCEPT ![d].status = s]
      PROVE  DraftInv'
  BY <1>2 DEF DraftInv, DraftRow
<1>3. ASSUME NEW d \in Draft, NEW e \in Draft,
             draft[d].status = "prepared", draft[e].status = "absent",
             draft' = [draft EXCEPT ![d].status = "superseded",
                                    ![e] = [status |-> "prepared", follows |-> d]]
      PROVE  DraftInv'
  <2>1. d # e
    BY <1>3
  <2>2. /\ draft'[d].status = "superseded" /\ draft'[d].follows = draft[d].follows
        /\ draft'[e].follows = d
        /\ \A f \in Draft \ {d, e} : draft'[f] = draft[f]
    BY <1>3, <2>1 DEF DraftRow
  <2>3. \A f \in Draft : draft[f].follows # e
    BY <1>3 DEF DraftInv
  <2> QED
    BY <2>1, <2>2, <2>3 DEF DraftInv
<1> QED
  BY <1>1, <1>2, <1>3 DEF DraftMoves

-----------------------------------------------------------------------------
(* The rows of the actions.                                                *)
LEMMA TablesInit == Init => TablesOK
BY DEF Init, TablesOK, DraftRow, ActionRow, ActionStatus

LEMMA RowUpdate ==
    ASSUME TypeInv, NEW p \in Caller, loc[p].act \in Action, NEW s \in ActionStatus, SetStatus(p, s)
    PROVE  /\ action' \in [Action -> ActionRow]
           /\ action' = [action EXCEPT ![loc[p].act] =
                            [action[loc[p].act] EXCEPT !.status = s]]
<1>1. action[loc[p].act] \in ActionRow /\ action \in [Action -> ActionRow]
  BY DEF TypeInv, TablesOK
<1>2. [action[loc[p].act] EXCEPT !.status = s] \in ActionRow
  BY <1>1 DEF ActionRow
<1>3. action' = [action EXCEPT ![loc[p].act] = [action[loc[p].act] EXCEPT !.status = s]]
  BY <1>1 DEF SetStatus
<1> QED
  BY <1>1, <1>2, <1>3

LEMMA Counted ==
    ASSUME TypeInv, NEW p \in Caller, Write(p)
    PROVE  writes' \in [Action -> Nat] /\ documents' \in [Action -> Nat]
<1>1. \A o \in Reports : o[2] \in {0, 1}
  BY DEF Reports
<1>2. /\ writes' = [writes EXCEPT ![loc[p].act] = @ + 1]
      /\ \E n \in {0, 1} : documents' = [documents EXCEPT ![loc[p].act] = @ + n]
  BY <1>1 DEF Write, Report
<1>3. writes \in [Action -> Nat] /\ documents \in [Action -> Nat]
  BY DEF TypeInv, TablesOK
<1>4. loc[p].act \in Action
  BY DEF TypeInv, CommandsOK, LocalsOK, Write, Report
<1>5. writes[loc[p].act] + 1 \in Nat /\ \A n \in {0, 1} : documents[loc[p].act] + n \in Nat
  BY <1>3, <1>4
<1> QED
  BY <1>2, <1>3, <1>5

LEMMA TablesStep == TypeInv /\ [Next]_vars => TablesOK'
<1> SUFFICES ASSUME TypeInv, [Next]_vars PROVE TablesOK'
  OBVIOUS
<1>1. draft' \in [Draft -> DraftRow]
  BY DraftStep, DraftsTyped DEF TypeInv, TablesOK
<1>2. writes' \in [Action -> Nat] /\ documents' \in [Action -> Nat]
  <2>1. CASE UNCHANGED <<writes, documents>>
    BY <2>1 DEF TypeInv, TablesOK
  <2> QED
    BY <2>1, Counted
    DEF Next, Proceed, Command, Die, MarkReady, Revise, Prepare, InsertAction, CreateDispatch,
        FindApproval, Link, Generic, Observe, Settle, Check, Claim, Recheck, Finish, OpenDraft,
        Request, ApproveCommand, RejectCommand, ExecuteCall, CancelDispatch, ReachDeadline,
        DraftsOnly, ActionOnly, NoRows, RecordsOnly, GoogleIdle, vars
<1>3. action' \in [Action -> ActionRow]
  <2>1. ASSUME NEW p \in Caller, loc[p].at \notin {"idle", "readying", "revising"}
        PROVE  loc[p].act \in Action /\ loc[p].goal \in ActionStatus
    BY <2>1 DEF TypeInv, CommandsOK, LocalsOK, Locals
  <2>2. CASE UNCHANGED action
    BY <2>2 DEF TypeInv, TablesOK
  <2>3. ASSUME NEW p \in Caller, InsertAction(p)
        PROVE  action' \in [Action -> ActionRow]
    <3>1. loc[p].draft \in Draft /\ loc[p].act \in Action
      BY <2>1, <2>3 DEF InsertAction, TypeInv, CommandsOK, LocalsOK
    <3>2. [status |-> "prepared", draft |-> loc[p].draft, approval |-> NoApproval] \in ActionRow
      BY <3>1 DEF ActionRow, ActionStatus
    <3> QED
      BY <2>2, <2>3, <3>1, <3>2 DEF InsertAction, TypeInv, TablesOK
  <2>4. ASSUME NEW p \in Caller, Link(p)
        PROVE  action' \in [Action -> ActionRow]
    <3>1. loc[p].ref \in ApprovalId /\ loc[p].act \in Action
      BY <2>1, <2>4 DEF Link, TypeInv, CommandsOK, LocalsOK
    <3>2. action[loc[p].act] \in ActionRow
      BY <3>1 DEF TypeInv, TablesOK
    <3>3. [action[loc[p].act] EXCEPT !.status = "awaiting_approval", !.approval = loc[p].ref]
             \in ActionRow
      BY <3>1, <3>2 DEF ActionRow, ActionStatus
    <3>4. action' = [action EXCEPT ![loc[p].act] = [action[loc[p].act] EXCEPT
                        !.status = "awaiting_approval", !.approval = loc[p].ref]]
      BY <2>4, <3>1 DEF Link, TypeInv, TablesOK
    <3> QED
      BY <3>3, <3>4 DEF TypeInv, TablesOK
  <2>5. ASSUME NEW p \in Caller, Settle(p) \/ Claim(p) \/ Finish(p)
        PROVE  action' \in [Action -> ActionRow]
    <3>1. loc[p].act \in Action /\ loc[p].goal \in ActionStatus
      BY <2>1, <2>5 DEF Settle, Claim, Finish
    <3>2. "executing" \in ActionStatus
      BY DEF ActionStatus
    <3> QED
      BY <2>2, <2>5, <3>1, <3>2, RowUpdate DEF Settle, Claim, Finish
  <2> QED
    BY <2>2, <2>3, <2>4, <2>5
    DEF Next, Proceed, Command, Die, MarkReady, Revise, Prepare, CreateDispatch,
        FindApproval, Generic, Observe, Check, Recheck, Write, Report, OpenDraft,
        Request, ApproveCommand, RejectCommand, ExecuteCall, CancelDispatch, ReachDeadline,
        DraftsOnly, NoRows, RecordsOnly, vars
<1> QED
  BY <1>1, <1>2, <1>3 DEF TablesOK

LEMMA TypeInvAlways == Spec => []TypeInv
<1>1. Init => TypeInv
  BY CommandsInit, TablesInit, SameInit, DispatchAssumed, P!TypeInvInit DEF Init, TypeInv
<1>2. TypeInv /\ [Next]_vars => TypeInv'
  BY CommandsStep, TablesStep, DispatchTypes DEF TypeInv
<1> QED
  BY <1>1, <1>2, PTL DEF Spec

(* Every reachable state is well typed.                                    *)
THEOREM Typing == Spec => []TypeOK
<1>1. TypeInv => D!TypeOK
  BY DispatchAssumed, P!TypeInvImpliesTypeOK
  DEF TypeInv, P!TypeOK, D!TypeOK, P!DispatchStatus, D!DispatchStatus, P!Outcomes, D!Outcomes,
      P!ApprovalStatus, D!ApprovalStatus, P!Deadline, D!Deadline, P!CallRecord, D!CallRecord,
      P!CallStep, D!CallStep, P!Startable, D!Startable, P!Busy, D!Busy, P!Closed, D!Closed
<1>2. TypeInv => TypeOK
  BY <1>1 DEF TypeInv, TypeOK, CommandsOK, TablesOK
<1> QED
  BY <1>2, TypeInvAlways, PTL

(* Every behaviour of the composition is, in the tables of the dispatch,   *)
(* a behaviour of Dispatch: what is proved there holds here.               *)
THEOREM DispatchesAreDispatch == Spec => D!Init /\ [][D!Next]_dispatchVars
<1>1. TypeInv /\ [Next]_vars => [D!Next]_dispatchVars
  BY DispatchStep
<1>2. Init => D!Init
  BY DEF Init
<1> QED
  BY <1>1, <1>2, TypeInvAlways, PTL DEF Spec

(* A draft that may be executed has no later revision, whatever commands   *)
(* read the drafts before they write them.                                 *)
THEOREM LatestOnly == Spec => []ReadyIsLatest
<1>1. TypeInv /\ DraftInv /\ [Next]_vars => DraftInv'
  BY DraftStep, DraftInvStep DEF TypeInv, TablesOK
<1>2. DraftInv => ReadyIsLatest
  BY DEF DraftInv, ReadyIsLatest
<1> QED
  BY <1>1, <1>2, DraftInvInit, TypeInvAlways, PTL DEF Spec

(* The promises of the dispatch hold for the writes of the workspace: two  *)
(* approvals never run one action at once, an action runs only on an       *)
(* approval, and its dispatch shows the outcome of its last attempt.       *)
THEOREM DispatchKeepsItsPromises ==
    Spec => [](D!OneCallInFlight /\ D!ExecutionNeedsApproval /\ D!OutcomeIsRecorded)
<1>1. TypeInv /\ P!FlightInv /\ P!GateInv /\ P!RecordInv /\ [Next]_vars
         => P!FlightInv' /\ P!GateInv' /\ P!RecordInv'
  <2> SUFFICES ASSUME TypeInv, P!FlightInv, P!GateInv, P!RecordInv, [Next]_vars
               PROVE  P!FlightInv' /\ P!GateInv' /\ P!RecordInv'
    OBVIOUS
  <2>1. P!TypeInv /\ [P!Next]_(P!vars)
    BY DispatchTypes DEF TypeInv
  <2> QED
    BY <2>1, DispatchAssumed, P!FlightInvStep, P!GateInvStep, P!RecordInvStep
<1>2. Init => P!FlightInv /\ P!GateInv /\ P!RecordInv
  BY SameInit, DispatchAssumed, P!FlightInvInit, P!GateInvInit, P!RecordInvInit DEF Init
<1>3. P!FlightInv => D!OneCallInFlight
  BY DEF P!FlightInv, P!OneCallInFlight, P!InFlight, D!OneCallInFlight, D!InFlight
<1>4. P!GateInv => D!ExecutionNeedsApproval
  BY DEF P!GateInv, P!Cleared, P!Granted, D!ExecutionNeedsApproval, D!Gated, D!Granted
<1>5. P!RecordInv => D!OutcomeIsRecorded
  BY DEF P!RecordInv, P!OutcomeIsRecorded, P!Outcomes, D!OutcomeIsRecorded, D!Outcomes
<1> QED
  BY <1>1, <1>2, <1>3, <1>4, <1>5, TypeInvAlways, PTL DEF Spec

-----------------------------------------------------------------------------
(* The draft of an action is ready and, by DraftInv, current for good; and *)
(* a command that observes, checks or claims an action found its row.      *)
Past == {"observing", "settling", "checking", "claiming", "rechecking", "writing", "finishing"}

PastOK == \A p \in Caller : loc[p].at \in Past => action[loc[p].act].status # "absent"

RowInv ==
    /\ \A p \in Caller : loc[p].at = "inserting" =>
          draft[loc[p].draft].status = "ready_for_action"
    /\ \A w \in Action :
          IF action[w].status = "absent"
          THEN action[w].approval = NoApproval
          ELSE action[w].draft \in Draft /\ draft[action[w].draft].status = "ready_for_action"
    /\ PastOK

LEMMA DraftsAreCurrent ==
    ASSUME DraftInv, RowInv, NEW w \in Action, action[w].status # "absent"
    PROVE  Current(action[w].draft)
BY DEF DraftInv, RowInv, Current

(* One step and one row.                                                   *)
Inserted(w) ==
    /\ action[w].status = "absent"
    /\ \E p \in Caller :
          /\ loc[p].at = "inserting"
          /\ action'[w] = [status |-> "prepared", draft |-> loc[p].draft, approval |-> NoApproval]

LEMMA RowStep ==
    ASSUME TypeInv, PastOK, [Next]_vars, NEW w \in Action
    PROVE  \/ action'[w] = action[w]
           \/ Inserted(w)
           \/ /\ action[w].status # "absent" /\ action'[w].status # "absent"
              /\ action'[w].draft = action[w].draft
<1> DEFINE Goal == \/ action'[w] = action[w]
                   \/ Inserted(w)
                   \/ /\ action[w].status # "absent" /\ action'[w].status # "absent"
                      /\ action'[w].draft = action[w].draft
<1>0. action \in [Action -> ActionRow] /\ action[w] \in ActionRow
  BY DEF TypeInv, TablesOK
<1>1. CASE UNCHANGED action
  BY <1>1
<1>2. ASSUME NEW p \in Caller, InsertAction(p)
      PROVE  Goal
  BY <1>0, <1>2 DEF InsertAction, Inserted, Row
<1>3. ASSUME NEW p \in Caller, Link(p)
      PROVE  Goal
  <2>1. Row(p).status = "prepared" /\ loc[p].act \in Action
    BY <1>3 DEF Link, TypeInv, CommandsOK, LocalsOK
  <2>2. action[loc[p].act] \in ActionRow
    BY <1>0, <2>1
  <2>3. action' = [action EXCEPT ![loc[p].act] = [action[loc[p].act] EXCEPT
                        !.status = "awaiting_approval", !.approval = loc[p].ref]]
    BY <1>0, <1>3, <2>1 DEF Link
  <2> QED
    BY <1>0, <2>1, <2>2, <2>3 DEF ActionRow, Row
<1>4. ASSUME NEW p \in Caller, Settle(p) \/ Claim(p) \/ Finish(p)
      PROVE  Goal
  <2>1. loc[p].at \in Past
    BY <1>4 DEF Settle, Claim, Finish, Past
  <2>2. loc[p].act \in Action /\ action[loc[p].act].status # "absent"
    BY <2>1 DEF PastOK, TypeInv, CommandsOK, LocalsOK, Past
  <2>3. loc[p].at \in {"settling", "finishing"} => loc[p].goal \in ActionStatus \ {"absent"}
    BY DEF TypeInv, CommandsOK, LocalsOK, Locals
  <2>4. ASSUME NEW s \in ActionStatus \ {"absent"}, SetStatus(p, s)
        PROVE  Goal
    <3>1. action' = [action EXCEPT ![loc[p].act] = [action[loc[p].act] EXCEPT !.status = s]]
      BY <2>2, <2>4, RowUpdate
    <3>2. action[loc[p].act] \in ActionRow
      BY <1>0, <2>2
    <3> QED
      BY <1>0, <2>2, <3>1, <3>2 DEF ActionRow
  <2>5. "executing" \in ActionStatus \ {"absent"}
    BY DEF ActionStatus
  <2> QED
    BY <1>1, <1>4, <2>3, <2>4, <2>5 DEF Settle, Claim, Finish
<1> QED
  BY <1>1, <1>2, <1>3, <1>4
  DEF Next, Proceed, Command, Die, MarkReady, Revise, Prepare, CreateDispatch,
      FindApproval, Generic, Observe, Check, Recheck, Write, Report, OpenDraft,
      Request, ApproveCommand, RejectCommand, ExecuteCall, CancelDispatch, ReachDeadline,
      DraftsOnly, NoRows, RecordsOnly, vars

(* One step and one command: what it may newly rely on.                    *)
Relies(q, l) ==
    /\ l.at = "inserting" => draft[l.draft].status = "ready_for_action"
    /\ l.at \in Past =>
          \/ loc[q].at \in Past /\ l.act = loc[q].act
          \/ action[l.act].approval # NoApproval

LEMMA LocalStep ==
    ASSUME TypeInv, [Next]_vars, NEW q \in Caller
    PROVE  loc'[q] = loc[q] \/ Relies(q, loc'[q])
<1> DEFINE Goal == loc'[q] = loc[q] \/ Relies(q, loc'[q])
<1>0. loc \in [Caller -> Locals]
  BY DEF TypeInv, CommandsOK
<1>1. ASSUME NEW p \in Caller, NEW l, Goto(p, l), Relies(p, l)
      PROVE  Goal
  BY <1>0, <1>1 DEF Goto
<1>2. CASE UNCHANGED loc
  BY <1>2
<1>3. ASSUME NEW p \in Caller, Return(p)
      PROVE  Goal
  <2>1. Relies(p, Idle)
    BY IdleOK DEF Relies, Past
  <2> QED
    BY <1>1, <1>3, <2>1 DEF Return
<1>4. ASSUME NEW p \in Caller,
             NEW place \in {"creating", "recording", "finding", "dispatching"}, Goto(p, At(p, place))
      PROVE  Goal
  <2>1. At(p, place).at = place
    BY <1>0 DEF At, Locals
  <2>2. Relies(p, At(p, place))
    BY <2>1 DEF Relies, Past
  <2> QED
    BY <1>1, <1>4, <2>2
<1>5. ASSUME NEW p \in Caller, loc[p].at \in Past,
             NEW place \in {"checking", "claiming", "rechecking", "writing"}, Goto(p, At(p, place))
      PROVE  Goal
  <2>1. At(p, place).at = place /\ At(p, place).act = loc[p].act
    BY <1>0 DEF At, Locals
  <2>2. Relies(p, At(p, place))
    BY <1>5, <2>1 DEF Relies
  <2> QED
    BY <1>1, <1>5, <2>2
<1>6. ASSUME NEW p \in Caller, loc[p].at \in Past, NEW place \in {"settling", "finishing"}, NEW s,
             Goto(p, [At(p, place) EXCEPT !.goal = s])
      PROVE  Goal
  <2> DEFINE l == [At(p, place) EXCEPT !.goal = s]
  <2>1. l.at = place /\ l.act = loc[p].act
    BY <1>0 DEF At, Locals
  <2>2. Relies(p, l)
    BY <1>6, <2>1 DEF Relies
  <2> QED
    BY <1>1, <1>6, <2>2
<1>7. ASSUME NEW p \in Caller, loc[p].at \in Past, NEW s, Observed(p, s)
      PROVE  Goal
  BY <1>3, <1>5, <1>7 DEF Observed, Return
<1>8. ASSUME NEW p \in Caller, MarkReady(p) \/ Revise(p) \/ Die(p) \/ Link(p) \/ Finish(p)
      PROVE  Goal
  BY <1>3, <1>8 DEF MarkReady, Revise, Die, Link, Finish
<1>9. ASSUME NEW p \in Caller, InsertAction(p) \/ CreateDispatch(p) \/ Generic(p)
      PROVE  Goal
  BY <1>2, <1>3, <1>4, <1>9 DEF InsertAction, CreateDispatch, Generic
<1>10. ASSUME NEW p \in Caller, FindApproval(p)
       PROVE  Goal
  <2>1. ASSUME NEW b, Goto(p, [At(p, "linking") EXCEPT !.ref = b])
        PROVE  Goal
    <3> DEFINE l == [At(p, "linking") EXCEPT !.ref = b]
    <3>1. l.at = "linking"
      BY <1>0 DEF At, Locals
    <3>2. Relies(p, l)
      BY <3>1 DEF Relies, Past
    <3> QED
      BY <1>1, <2>1, <3>2
  <2> QED
    BY <1>3, <1>10, <2>1 DEF FindApproval
<1>11. ASSUME NEW p \in Caller, Observe(p)
       PROVE  Goal
  <2>1. loc[p].at \in Past
    BY <1>11 DEF Observe, Past
  <2> QED
    BY <1>6, <1>7, <1>11, <2>1 DEF Observe
<1>12. ASSUME NEW p \in Caller, Settle(p)
       PROVE  Goal
  <2>1. loc[p].at \in Past
    BY <1>12 DEF Settle, Past
  <2> QED
    BY <1>7, <1>12, <2>1 DEF Settle
<1>13. ASSUME NEW p \in Caller, Check(p) \/ Recheck(p) \/ Claim(p)
       PROVE  Goal
  <2>1. loc[p].at \in Past
    BY <1>13 DEF Check, Recheck, Claim, Past
  <2> QED
    BY <1>3, <1>5, <1>6, <1>13, <2>1 DEF Check, Recheck, Claim
<1>14. ASSUME NEW p \in Caller, Write(p)
       PROVE  Goal
  <2>1. loc[p].at \in Past
    BY <1>14 DEF Write, Report, Past
  <2> QED
    BY <1>6, <1>14, <2>1 DEF Write, Report
<1>15. ASSUME NEW p \in Caller, NEW d \in Draft, OpenDraft(p, d)
       PROVE  Goal
  <2>1. PICK place \in {"readying", "revising"} : Goto(p, [Idle EXCEPT !.at = place, !.draft = d])
    BY <1>15 DEF OpenDraft
  <2>2. [Idle EXCEPT !.at = place, !.draft = d].at = place
    BY DEF Idle
  <2>3. Relies(p, [Idle EXCEPT !.at = place, !.draft = d])
    BY <2>2 DEF Relies, Past
  <2> QED
    BY <1>1, <2>1, <2>3
<1>16. ASSUME NEW p \in Caller, NEW w \in Action, NEW d \in Draft, Request(p, w, d)
       PROVE  Goal
  <2> DEFINE l == [Idle EXCEPT !.at = "inserting", !.act = w, !.draft = d]
  <2>1. l.at = "inserting" /\ l.draft = d
    BY DEF Idle
  <2>2. Relies(p, l)
    BY <1>16, <2>1 DEF Relies, Request, Current, Past
  <2> QED
    BY <1>1, <1>16, <2>2 DEF Request
<1>17. ASSUME NEW p \in Caller, NEW w \in Action, action[w].approval # NoApproval,
              NEW l, l.at = "observing", l.act = w, Goto(p, l)
       PROVE  Goal
  BY <1>1, <1>17 DEF Relies, Past
<1>18. ASSUME NEW b \in ApprovalId, NEW w \in Bound(b)
       PROVE  w \in Action /\ action[w].approval # NoApproval
  BY WorkspaceActionAssumption DEF Bound
<1>19. ASSUME NEW p \in Caller, NEW b \in ApprovalId, ApproveCommand(p, b)
       PROVE  Goal
  <2>1. ASSUME NEW k, Goto(p, [Idle EXCEPT !.at = "generic", !.act = k])
        PROVE  Goal
    <3>1. [Idle EXCEPT !.at = "generic", !.act = k].at = "generic"
      BY DEF Idle
    <3>2. Relies(p, [Idle EXCEPT !.at = "generic", !.act = k])
      BY <3>1 DEF Relies, Past
    <3> QED
      BY <1>1, <2>1, <3>2
  <2>2. ASSUME NEW w \in Bound(b),
               Goto(p, [Idle EXCEPT !.at = "observing", !.act = w, !.executes = TRUE])
        PROVE  Goal
    <3> DEFINE l == [Idle EXCEPT !.at = "observing", !.act = w, !.executes = TRUE]
    <3>1. l.at = "observing" /\ l.act = w
      BY DEF Idle
    <3> QED
      BY <1>17, <1>18, <2>2, <3>1
  <2> QED
    BY <1>2, <1>19, <2>1, <2>2 DEF ApproveCommand
<1>20. ASSUME NEW p \in Caller, NEW b \in ApprovalId, RejectCommand(p, b)
       PROVE  Goal
  <2>1. ASSUME NEW w \in Bound(b), Goto(p, [Idle EXCEPT !.at = "observing", !.act = w])
        PROVE  Goal
    <3> DEFINE l == [Idle EXCEPT !.at = "observing", !.act = w]
    <3>1. l.at = "observing" /\ l.act = w
      BY DEF Idle
    <3> QED
      BY <1>17, <1>18, <2>1, <3>1
  <2> QED
    BY <1>2, <1>20, <2>1 DEF RejectCommand
<1>21. ASSUME NEW p \in Caller, NEW w \in Action, ExecuteCall(p, w)
       PROVE  Goal
  <2> DEFINE l == [Idle EXCEPT !.at = "observing", !.act = w, !.executes = TRUE]
  <2>1. l.at = "observing" /\ l.act = w
    BY DEF Idle
  <2> QED
    BY <1>17, <1>21, <2>1 DEF ExecuteCall
<1> QED
  BY <1>2, <1>8, <1>9, <1>10, <1>11, <1>12, <1>13, <1>14, <1>15, <1>16, <1>19, <1>20, <1>21
  DEF Next, Proceed, Command, Prepare, CancelDispatch, ReachDeadline, vars

LEMMA RowInvInit == Init => RowInv
BY IdleOK DEF Init, RowInv, PastOK, Past

LEMMA RowInvStep == TypeInv /\ RowInv /\ [Next]_vars => RowInv'
<1> SUFFICES ASSUME TypeInv, RowInv, [Next]_vars PROVE RowInv'
  OBVIOUS
<1>1. \A d \in Draft :
         draft[d].status = "ready_for_action" => draft'[d].status = "ready_for_action"
  BY DraftStep, DraftsTyped DEF TypeInv, TablesOK
<1>2. CommandsOK' /\ CommandsOK
  BY CommandsStep DEF TypeInv
<1>3. \A p \in Caller : loc[p].at \in {"readying", "revising", "inserting"} => loc[p].draft \in Draft
  BY <1>2 DEF CommandsOK, LocalsOK
<1>4. ASSUME NEW w \in Action, action[w].status # "absent"
      PROVE  action'[w].status # "absent"
  BY <1>4, RowStep DEF RowInv, Inserted
<1>5. \A p \in Caller : loc'[p].at = "inserting" =>
          draft'[loc'[p].draft].status = "ready_for_action"
  <2> SUFFICES ASSUME NEW p \in Caller, loc'[p].at = "inserting"
               PROVE  draft'[loc'[p].draft].status = "ready_for_action"
    OBVIOUS
  <2>1. loc'[p].draft \in Draft
    BY <1>2 DEF CommandsOK, LocalsOK
  <2>2. draft[loc'[p].draft].status = "ready_for_action"
    BY LocalStep DEF RowInv, PastOK, Relies
  <2> QED
    BY <1>1, <2>1, <2>2
<1>6. ASSUME NEW w \in Action
      PROVE  IF action'[w].status = "absent"
             THEN action'[w].approval = NoApproval
             ELSE action'[w].draft \in Draft /\ draft'[action'[w].draft].status = "ready_for_action"
  <2>1. CASE Inserted(w)
    <3>1. PICK p \in Caller :
             /\ loc[p].at = "inserting"
             /\ action'[w] = [status |-> "prepared", draft |-> loc[p].draft, approval |-> NoApproval]
      BY <2>1 DEF Inserted
    <3>2. loc[p].draft \in Draft /\ draft[loc[p].draft].status = "ready_for_action"
      BY <1>3, <3>1 DEF RowInv, PastOK
    <3> QED
      BY <1>1, <3>1, <3>2
  <2>2. CASE ~Inserted(w)
    BY <1>1, <2>2, RowStep DEF RowInv
  <2> QED
    BY <2>1, <2>2
<1>7. ASSUME NEW p \in Caller, loc'[p].at \in Past
      PROVE  action'[loc'[p].act].status # "absent"
  <2>1. loc'[p].act \in Action
    BY <1>2, <1>7 DEF CommandsOK, LocalsOK, Past
  <2>2. action[loc'[p].act].status # "absent"
    BY <1>7, <2>1, LocalStep DEF RowInv, PastOK, Relies
  <2> QED
    BY <1>4, <2>1, <2>2
<1> QED
  BY <1>5, <1>6, <1>7 DEF RowInv, PastOK

-----------------------------------------------------------------------------
(* A claimed action has one command at most, which is the only one to call *)
(* Google for it; and the row of an action says what became of the call    *)
(* once the command has left.                                              *)
Claims == {"rechecking", "writing", "finishing"}
Attempted == {"executing", "succeeded", "failed", "outcome_unknown"}

ClaimOK(p) ==
    /\ loc[p].at \in Claims => action[loc[p].act].status = "executing"
    /\ loc[p].at \in {"rechecking", "writing"} => writes[loc[p].act] = 0 /\ documents[loc[p].act] = 0
    /\ loc[p].at = "finishing" =>
          /\ loc[p].goal \in {"succeeded", "failed", "outcome_unknown"}
          /\ loc[p].goal = "succeeded" => documents[loc[p].act] = 1
          /\ loc[p].goal = "outcome_unknown" => writes[loc[p].act] = 1

RecordOK(w) ==
    /\ writes[w] <= 1
    /\ action[w].status \notin Attempted => writes[w] = 0 /\ documents[w] = 0
    /\ action[w].status = "succeeded" => documents[w] = 1
    /\ action[w].status = "outcome_unknown" => writes[w] = 1

OneClaim ==
    \A p, q \in Caller :
        loc[p].at \in Claims /\ loc[q].at \in Claims /\ loc[p].act = loc[q].act => p = q

WriteInv ==
    /\ \A p \in Caller : ClaimOK(p)
    /\ \A w \in Action : RecordOK(w)
    /\ OneClaim

LEMMA WriteInvInit == Init => WriteInv
BY IdleOK DEF Init, WriteInv, ClaimOK, RecordOK, OneClaim, Claims, Attempted

LEMMA ClaimedAct ==
    ASSUME CommandsOK, NEW p \in Caller, loc[p].at \in Past
    PROVE  loc[p].act \in Action
BY DEF CommandsOK, LocalsOK, Past

(* Steps that neither call Google nor move a claim.                        *)
LEMMA QuietStep ==
    ASSUME TypeInv, CommandsOK', WriteInv, UNCHANGED <<writes, documents>>,
           \A w \in Action : \/ action'[w].status = action[w].status
                             \/ action[w].status \notin Attempted /\ action'[w].status \notin Attempted,
           \A q \in Caller : loc'[q] = loc[q] \/ loc'[q].at \notin Claims
    PROVE  WriteInv'
<1>1. ASSUME NEW p \in Caller
      PROVE  ClaimOK(p)'
  <2>1. CASE loc'[p].at \notin Claims
    BY <2>1 DEF ClaimOK, Claims
  <2>2. CASE loc'[p] = loc[p] /\ loc[p].at \in Claims
    <3>1. loc[p].act \in Action /\ ClaimOK(p)
      BY <2>2, ClaimedAct DEF WriteInv, Claims, Past, TypeInv
    <3>2. action'[loc[p].act].status = "executing"
      BY <2>2, <3>1 DEF ClaimOK, Attempted
    <3> QED
      BY <2>2, <3>1, <3>2 DEF ClaimOK
  <2> QED
    BY <2>1, <2>2
<1>2. ASSUME NEW w \in Action
      PROVE  RecordOK(w)'
  <2>1. RecordOK(w)
    BY DEF WriteInv
  <2> QED
    BY <2>1 DEF RecordOK, Attempted
<1>3. OneClaim'
  BY DEF OneClaim, WriteInv
<1> QED
  BY <1>1, <1>2, <1>3 DEF WriteInv

LEMMA ClaimStep ==
    ASSUME TypeInv, RowInv, WriteInv, NEW p \in Caller, Claim(p)
    PROVE  WriteInv'
<1> DEFINE w == loc[p].act
<1>0. /\ w \in Action /\ loc \in [Caller -> Locals] /\ action[w] \in ActionRow
      /\ action \in [Action -> ActionRow]
  BY ClaimedAct DEF Claim, Past, TypeInv, CommandsOK, TablesOK
<1>1. CASE Row(p).status = "approved"
  <2>1. "executing" \in ActionStatus
    BY DEF ActionStatus
  <2>2. action' = [action EXCEPT ![w] = [action[w] EXCEPT !.status = "executing"]]
    BY <1>0, <1>1, <2>1, RowUpdate DEF Claim
  <2>3. action'[w].status = "executing" /\ \A v \in Action \ {w} : action'[v] = action[v]
    BY <1>0, <2>2 DEF ActionRow
  <2>4. loc' = [loc EXCEPT ![p] = At(p, "rechecking")]
    BY <1>1 DEF Claim, Goto
  <2>5. loc'[p].at = "rechecking" /\ loc'[p].act = w /\ \A q \in Caller \ {p} : loc'[q] = loc[q]
    BY <1>0, <2>4 DEF At, Locals
  <2>6. UNCHANGED <<writes, documents>> /\ action[w].status = "approved"
    BY <1>1 DEF Claim, ActionOnly, GoogleIdle, Row
  <2>7. RecordOK(w) /\ \A q \in Caller : ClaimOK(q)
    BY <1>0 DEF WriteInv
  <2>8. writes[w] = 0 /\ documents[w] = 0
    BY <2>6, <2>7 DEF RecordOK, Attempted
  <2>9. \A q \in Caller : loc[q].at \in Claims => loc[q].act \in Action /\ loc[q].act # w
    BY <2>6, <2>7, ClaimedAct DEF ClaimOK, Claims, Past, TypeInv
  <2>10. ASSUME NEW q \in Caller
         PROVE  ClaimOK(q)'
    <3>1. CASE q = p
      BY <2>3, <2>5, <2>6, <2>8, <3>1 DEF ClaimOK
    <3>2. CASE q # p
      BY <2>3, <2>5, <2>6, <2>7, <2>9, <3>2 DEF ClaimOK, Claims
    <3> QED
      BY <3>1, <3>2
  <2>11. ASSUME NEW v \in Action
         PROVE  RecordOK(v)'
    <3>1. RecordOK(v)
      BY DEF WriteInv
    <3> QED
      BY <2>3, <2>6, <2>8, <3>1 DEF RecordOK, Attempted
  <2>12. OneClaim'
    BY <2>5, <2>9 DEF OneClaim, WriteInv
  <2> QED
    BY <2>10, <2>11, <2>12 DEF WriteInv
<1>2. CASE Row(p).status # "approved"
  <2>1. UNCHANGED <<action, writes, documents>> /\ loc' = [loc EXCEPT ![p] = Idle]
    BY <1>2 DEF Claim, Return, Goto, ActionOnly, GoogleIdle
  <2>2. CommandsOK'
    BY <1>2, Leaves DEF Claim, TypeInv
  <2>3. Idle.at \notin Claims
    BY IdleOK DEF Claims
  <2> QED
    BY <1>0, <2>1, <2>2, <2>3, QuietStep
<1> QED
  BY <1>1, <1>2

(* The claimant: what its second check, its call and its report leave.     *)
LEMMA ClaimantStep ==
    ASSUME TypeInv, DraftInv, RowInv, WriteInv, NEW p \in Caller,
           Recheck(p) \/ Write(p) \/ Finish(p)
    PROVE  WriteInv'
<1> DEFINE w == loc[p].act
<1>0. /\ w \in Action /\ loc \in [Caller -> Locals] /\ action[w] \in ActionRow
      /\ action \in [Action -> ActionRow]
      /\ writes \in [Action -> Nat] /\ documents \in [Action -> Nat]
      /\ loc[p].at \in Claims
  BY ClaimedAct DEF Recheck, Write, Report, Finish, Past, Claims, TypeInv, CommandsOK, TablesOK
<1>1. ClaimOK(p) /\ action[w].status = "executing"
  BY <1>0 DEF WriteInv, ClaimOK
<1>2. \A q \in Caller \ {p} : loc[q].at \in Claims => loc[q].act \in Action /\ loc[q].act # w
  BY <1>0, ClaimedAct DEF WriteInv, OneClaim, Claims, Past, TypeInv
<1>3. CASE Recheck(p)
  <2>1. Current(Row(p).draft)
    BY <1>0, <1>1, DraftsAreCurrent DEF Row
  <2>2. loc' = [loc EXCEPT ![p] = At(p, "writing")] /\ UNCHANGED <<action, writes, documents>>
    BY <1>3, <2>1 DEF Recheck, Goto, NoRows, GoogleIdle
  <2>3. loc'[p].at = "writing" /\ loc'[p].act = w /\ \A q \in Caller \ {p} : loc'[q] = loc[q]
    BY <1>0, <2>2 DEF At, Locals
  <2>4. loc[p].at = "rechecking"
    BY <1>3 DEF Recheck
  <2>5. \A q \in Caller : ClaimOK(q)'
    BY <1>1, <2>2, <2>3, <2>4 DEF ClaimOK, WriteInv
  <2>6. OneClaim'
    BY <1>0, <2>3 DEF OneClaim, WriteInv, Claims
  <2>7. \A v \in Action : RecordOK(v)'
    BY <2>2 DEF RecordOK, WriteInv
  <2> QED
    BY <2>5, <2>6, <2>7 DEF WriteInv
<1>4. CASE Write(p)
  <2>1. PICK o \in Reports : /\ documents' = [documents EXCEPT ![w] = @ + o[2]]
                             /\ loc' = [loc EXCEPT ![p] = [At(p, "finishing") EXCEPT !.goal = o[1]]]
    BY <1>4 DEF Write, Report, Goto
  <2>2. o \in {<<"succeeded", 1>>, <<"failed", 0>>, <<"outcome_unknown", 0>>, <<"outcome_unknown", 1>>}
            \cup {<<"failed", 1>>}
    BY DEF Reports
  <2>3. /\ loc'[p].at = "finishing" /\ loc'[p].act = w /\ loc'[p].goal = o[1]
        /\ \A q \in Caller \ {p} : loc'[q] = loc[q]
    BY <1>0, <2>1 DEF At, Locals
  <2>4. loc[p].at = "writing" /\ UNCHANGED action /\ writes' = [writes EXCEPT ![w] = @ + 1]
    BY <1>4 DEF Write, Report
  <2>5. writes[w] = 0 /\ documents[w] = 0
    BY <1>1, <2>4 DEF ClaimOK
  <2>6. /\ writes'[w] = 1 /\ documents'[w] = o[2]
        /\ \A v \in Action \ {w} : writes'[v] = writes[v] /\ documents'[v] = documents[v]
    BY <1>0, <2>1, <2>2, <2>4, <2>5
  <2>7. /\ o[1] \in {"succeeded", "failed", "outcome_unknown"}
        /\ o[1] = "succeeded" => o[2] = 1
    BY <2>2
  <2>8. ASSUME NEW q \in Caller
        PROVE  ClaimOK(q)'
    <3>1. CASE q = p
      BY <1>1, <2>3, <2>4, <2>6, <2>7, <3>1 DEF ClaimOK, Claims
    <3>2. CASE q # p
      <4>1. ClaimOK(q)
        BY DEF WriteInv
      <4> QED
        BY <1>2, <2>3, <2>4, <2>6, <3>2, <4>1 DEF ClaimOK, Claims
    <3> QED
      BY <3>1, <3>2
  <2>9. OneClaim'
    BY <1>0, <2>3 DEF OneClaim, WriteInv, Claims
  <2>10. ASSUME NEW v \in Action
         PROVE  RecordOK(v)'
    <3>1. RecordOK(v)
      BY DEF WriteInv
    <3> QED
      BY <1>1, <2>4, <2>6, <3>1 DEF RecordOK, Attempted
  <2> QED
    BY <2>8, <2>9, <2>10 DEF WriteInv
<1>5. CASE Finish(p)
  <2>1. /\ loc[p].at = "finishing" /\ loc[p].goal \in {"succeeded", "failed", "outcome_unknown"}
        /\ loc[p].goal = "succeeded" => documents[w] = 1
        /\ loc[p].goal = "outcome_unknown" => writes[w] = 1
    BY <1>1, <1>5 DEF Finish, ClaimOK
  <2>2. loc[p].goal \in ActionStatus
    BY <2>1 DEF ActionStatus, Final
  <2>3. action' = [action EXCEPT ![w] = [action[w] EXCEPT !.status = loc[p].goal]]
    BY <1>0, <1>1, <1>5, <2>2, RowUpdate DEF Finish, Row
  <2>4. action'[w].status = loc[p].goal /\ \A v \in Action \ {w} : action'[v] = action[v]
    BY <1>0, <2>3 DEF ActionRow
  <2>5. UNCHANGED <<writes, documents>> /\ loc' = [loc EXCEPT ![p] = Idle]
    BY <1>5 DEF Finish, Return, Goto, ActionOnly, GoogleIdle
  <2>6. loc'[p].at = "idle" /\ \A q \in Caller \ {p} : loc'[q] = loc[q]
    BY <1>0, <2>5, IdleOK
  <2>7. ASSUME NEW q \in Caller
        PROVE  ClaimOK(q)'
    <3>1. CASE q = p
      BY <2>6, <3>1 DEF ClaimOK, Claims
    <3>2. CASE q # p
      <4>1. ClaimOK(q)
        BY DEF WriteInv
      <4> QED
        BY <1>2, <2>4, <2>5, <2>6, <3>2, <4>1 DEF ClaimOK, Claims
    <3> QED
      BY <3>1, <3>2
  <2>8. OneClaim'
    BY <2>6 DEF OneClaim, WriteInv, Claims
  <2>9. ASSUME NEW v \in Action
        PROVE  RecordOK(v)'
    <3>1. RecordOK(v)
      BY DEF WriteInv
    <3> QED
      BY <1>1, <2>1, <2>4, <2>5, <3>1 DEF RecordOK, Attempted
  <2> QED
    BY <2>7, <2>8, <2>9 DEF WriteInv
<1> QED
  BY <1>3, <1>4, <1>5

LEMMA WriteInvStep ==
    ASSUME TypeInv, DraftInv, RowInv, WriteInv, [Next]_vars
    PROVE  WriteInv'
<1> DEFINE Unclaimed(w) == \/ action'[w].status = action[w].status
                           \/ action[w].status \notin Attempted /\ action'[w].status \notin Attempted
           Quiet == UNCHANGED <<writes, documents>> /\ \A w \in Action : Unclaimed(w)
           Apart == \A q \in Caller : loc'[q] = loc[q] \/ loc'[q].at \notin Claims
<1>0. CommandsOK' /\ loc \in [Caller -> Locals] /\ action \in [Action -> ActionRow]
  BY CommandsStep DEF TypeInv, CommandsOK, TablesOK
<1>1. Quiet /\ Apart => WriteInv'
  BY <1>0, QuietStep
<1>2. UNCHANGED <<action, writes, documents>> => Quiet
  OBVIOUS
<1>3. ASSUME NEW p \in Caller, NEW l, l.at \notin Claims, Goto(p, l)
      PROVE  Apart
  BY <1>0, <1>3 DEF Goto
<1>4. ASSUME NEW p \in Caller, Return(p)
      PROVE  Apart
  BY <1>3, <1>4, IdleOK DEF Return, Claims
<1>5. ASSUME NEW p \in Caller, NEW place \in Place \ Claims, Goto(p, At(p, place))
      PROVE  Apart
  <2>1. At(p, place).at = place
    BY <1>0 DEF At, Locals
  <2> QED
    BY <1>3, <1>5, <2>1
<1>6. UNCHANGED loc => Apart
  OBVIOUS
<1>7. ASSUME NEW p \in Caller, NEW s, Observed(p, s)
      PROVE  Apart
  BY <1>4, <1>5, <1>7 DEF Observed, Return, Place, Claims
<1>8. ASSUME NEW p \in Caller, loc[p].at \notin {"idle", "readying", "revising"}
      PROVE  loc[p].act \in Action
  BY <1>8 DEF TypeInv, CommandsOK, LocalsOK
<1>9. ASSUME NEW p \in Caller, MarkReady(p) \/ Revise(p) \/ Die(p)
      PROVE  WriteInv'
  BY <1>1, <1>2, <1>4, <1>9 DEF MarkReady, Revise, Die, DraftsOnly, RecordsOnly, GoogleIdle
<1>10. ASSUME NEW p \in Caller, InsertAction(p)
       PROVE  WriteInv'
  <2>1. Apart
    BY <1>4, <1>5, <1>10 DEF InsertAction, Place, Claims
  <2>2. Quiet
    BY <1>0, <1>2, <1>8, <1>10 DEF InsertAction, ActionOnly, GoogleIdle, Row, Attempted
  <2> QED
    BY <1>1, <2>1, <2>2
<1>11. ASSUME NEW p \in Caller, CreateDispatch(p) \/ Generic(p)
       PROVE  WriteInv'
  BY <1>1, <1>2, <1>4, <1>5, <1>6, <1>11
  DEF CreateDispatch, Generic, RecordsOnly, GoogleIdle, Place, Claims
<1>12. ASSUME NEW p \in Caller, FindApproval(p)
       PROVE  WriteInv'
  <2>1. ASSUME NEW b, Goto(p, [At(p, "linking") EXCEPT !.ref = b])
        PROVE  Apart
    <3>1. [At(p, "linking") EXCEPT !.ref = b].at = "linking"
      BY <1>0 DEF At, Locals
    <3> QED
      BY <1>3, <2>1, <3>1 DEF Claims
  <2>2. Apart
    BY <1>4, <1>12, <2>1 DEF FindApproval
  <2> QED
    BY <1>1, <1>2, <1>12, <2>2 DEF FindApproval, NoRows, GoogleIdle
<1>13. ASSUME NEW p \in Caller, Link(p)
       PROVE  WriteInv'
  <2> DEFINE w == loc[p].act
  <2>1. w \in Action /\ action[w].status = "prepared" /\ action[w] \in ActionRow
    BY <1>0, <1>8, <1>13 DEF Link, Row
  <2>2. action' = [action EXCEPT ![w] = [action[w] EXCEPT
                        !.status = "awaiting_approval", !.approval = loc[p].ref]]
    BY <1>0, <1>13, <2>1 DEF Link
  <2>3. action'[w].status = "awaiting_approval" /\ \A v \in Action \ {w} : action'[v] = action[v]
    BY <1>0, <2>1, <2>2 DEF ActionRow
  <2>4. Quiet
    BY <1>13, <2>1, <2>3 DEF Attempted, Link, ActionOnly, GoogleIdle
  <2> QED
    BY <1>1, <1>4, <1>13, <2>4 DEF Link
<1>14. ASSUME NEW p \in Caller, Observe(p)
       PROVE  WriteInv'
  <2>1. ASSUME NEW s, Goto(p, [At(p, "settling") EXCEPT !.goal = s])
        PROVE  Apart
    <3>1. [At(p, "settling") EXCEPT !.goal = s].at = "settling"
      BY <1>0 DEF At, Locals
    <3> QED
      BY <1>3, <2>1, <3>1 DEF Claims
  <2>2. Apart
    BY <1>7, <1>14, <2>1 DEF Observe
  <2> QED
    BY <1>1, <1>2, <1>14, <2>2 DEF Observe, NoRows, GoogleIdle
<1>15. ASSUME NEW p \in Caller, Settle(p)
       PROVE  WriteInv'
  <2> DEFINE w == loc[p].act
  <2>1. Apart
    BY <1>7, <1>15 DEF Settle
  <2>2. w \in Action /\ loc[p].goal \in {"approved", "rejected"} /\ action[w] \in ActionRow
    BY <1>0, <1>8, <1>15 DEF Settle, TypeInv, CommandsOK, LocalsOK
  <2>3. CASE Row(p).status = "awaiting_approval"
    <3>1. loc[p].goal \in ActionStatus
      BY <2>2 DEF ActionStatus, Final
    <3>2. action' = [action EXCEPT ![w] = [action[w] EXCEPT !.status = loc[p].goal]]
      BY <1>15, <2>2, <2>3, <3>1, RowUpdate DEF Settle
    <3>3. action'[w].status = loc[p].goal /\ \A v \in Action \ {w} : action'[v] = action[v]
      BY <1>0, <2>2, <3>2 DEF ActionRow
    <3>4. Quiet
      BY <1>15, <2>2, <2>3, <3>3 DEF Attempted, Row, Settle, ActionOnly, GoogleIdle
    <3> QED
      BY <1>1, <2>1, <3>4
  <2>4. CASE Row(p).status # "awaiting_approval"
    BY <1>1, <1>2, <1>15, <2>1, <2>4 DEF Settle, ActionOnly, GoogleIdle
  <2> QED
    BY <2>3, <2>4
<1>16. ASSUME NEW p \in Caller, Check(p)
       PROVE  WriteInv'
  <2>1. loc[p].at \in Past /\ loc[p].act \in Action
    BY <1>8, <1>16 DEF Check, Past
  <2>2. Current(Row(p).draft)
    BY <2>1, DraftsAreCurrent DEF RowInv, PastOK, Row
  <2>3. Goto(p, At(p, "claiming")) /\ UNCHANGED <<action, writes, documents>>
    BY <1>16, <2>2 DEF Check, NoRows, GoogleIdle
  <2> QED
    BY <1>1, <1>2, <1>5, <2>3 DEF Place, Claims
<1>17. ASSUME NEW p \in Caller, Claim(p) \/ Recheck(p) \/ Write(p) \/ Finish(p)
       PROVE  WriteInv'
  BY <1>17, ClaimStep, ClaimantStep
<1>18. ASSUME NEW p \in Caller, NEW d \in Draft, OpenDraft(p, d)
       PROVE  WriteInv'
  <2>1. PICK place \in {"readying", "revising"} : Goto(p, [Idle EXCEPT !.at = place, !.draft = d])
    BY <1>18 DEF OpenDraft
  <2>2. [Idle EXCEPT !.at = place, !.draft = d].at = place
    BY DEF Idle
  <2>3. Apart
    BY <1>3, <2>1, <2>2 DEF Claims
  <2> QED
    BY <1>1, <1>2, <1>18, <2>3 DEF OpenDraft, NoRows, GoogleIdle
<1>19. ASSUME NEW p \in Caller, NEW w \in Action, NEW d \in Draft, Request(p, w, d)
       PROVE  WriteInv'
  <2>1. [Idle EXCEPT !.at = "inserting", !.act = w, !.draft = d].at = "inserting"
    BY DEF Idle
  <2>2. Apart
    BY <1>3, <1>19, <2>1 DEF Request, Claims
  <2> QED
    BY <1>1, <1>2, <1>19, <2>2 DEF Request, NoRows, GoogleIdle
<1>20. ASSUME NEW w
       PROVE  /\ [Idle EXCEPT !.at = "observing", !.act = w, !.executes = TRUE].at \notin Claims
              /\ [Idle EXCEPT !.at = "observing", !.act = w].at \notin Claims
              /\ [Idle EXCEPT !.at = "generic", !.act = w].at \notin Claims
  BY DEF Idle, Claims
<1>21. ASSUME NEW p \in Caller, NEW b \in ApprovalId, ApproveCommand(p, b) \/ RejectCommand(p, b)
       PROVE  WriteInv'
  <2>1. Apart
    BY <1>3, <1>6, <1>20, <1>21 DEF ApproveCommand, RejectCommand
  <2> QED
    BY <1>1, <1>2, <1>21, <2>1 DEF ApproveCommand, RejectCommand, RecordsOnly, GoogleIdle
<1>22. ASSUME NEW p \in Caller, NEW w \in Action, ExecuteCall(p, w)
       PROVE  WriteInv'
  <2>1. Apart
    BY <1>3, <1>20, <1>22 DEF ExecuteCall
  <2> QED
    BY <1>1, <1>2, <1>22, <2>1 DEF ExecuteCall, NoRows, GoogleIdle
<1>23. CASE UNCHANGED <<action, loc, writes, documents>>
  BY <1>1, <1>2, <1>6, <1>23
<1> QED
  BY <1>9, <1>10, <1>11, <1>12, <1>13, <1>14, <1>15, <1>16, <1>17, <1>18, <1>19, <1>21, <1>22, <1>23
  DEF Next, Proceed, Command, Prepare, CancelDispatch, ReachDeadline, DraftsOnly, RecordsOnly,
      GoogleIdle, vars

LEMMA WriteInvAlways == Spec => [](TypeInv /\ DraftInv /\ RowInv /\ WriteInv)
<1>1. Init => DraftInv /\ RowInv /\ WriteInv
  BY DraftInvInit, RowInvInit, WriteInvInit
<1>2. TypeInv /\ DraftInv /\ RowInv /\ WriteInv /\ [Next]_vars => (DraftInv /\ RowInv /\ WriteInv)'
  BY DraftStep, DraftInvStep, RowInvStep, WriteInvStep DEF TypeInv, TablesOK
<1> QED
  BY <1>1, <1>2, TypeInvAlways, PTL DEF Spec

(* However many commands execute an action and whichever of them die,      *)
(* Google is called for it once at most, a recorded success has its        *)
(* document, and a document belongs to an action whose row says that an    *)
(* attempt was made.  Of a recorded failure nothing is claimed.            *)
THEOREM OutcomesAreTrue == Spec => []OutcomeIsTrue
<1>1. WriteInv => OutcomeIsTrue
  BY DEF WriteInv, RecordOK, OutcomeIsTrue, Attempted
<1> QED
  BY <1>1, WriteInvAlways, PTL

-----------------------------------------------------------------------------
Unlinked == {"absent", "prepared"}
Denied   == {"rejected", "cancelled", "expired"}

(* The decision of an action's own approval.                               *)
Decision(w) == approval[action[w].approval].status

(* What one step makes of the row of w.                                    *)
Becomes(w, r) ==
    \/ /\ action[w].status = "absent"
       /\ r.status = "prepared" /\ r.approval = NoApproval
    \/ /\ action[w].status = "prepared" /\ r.status = "awaiting_approval"
       /\ \E p \in Caller : loc[p].at = "linking" /\ loc[p].act = w /\ r.approval = loc[p].ref
    \/ /\ r.approval = action[w].approval
       /\ \/ /\ action[w].status = "awaiting_approval"
             /\ \E p \in Caller : loc[p].at = "settling" /\ loc[p].act = w /\ r.status = loc[p].goal
          \/ action[w].status = "approved" /\ r.status = "executing"
          \/ /\ action[w].status = "executing"
             /\ r.status \in {"succeeded", "failed", "outcome_unknown"}

Changes(w) == \E r \in ActionRow : action' = [action EXCEPT ![w] = r] /\ Becomes(w, r)

LEMMA RowChange ==
    ASSUME TypeInv, DraftInv, RowInv, WriteInv, [Next]_vars
    PROVE  \/ UNCHANGED action
           \/ UNCHANGED writes /\ \E w \in Action : Changes(w)
<1> DEFINE Goal == \/ UNCHANGED action
                   \/ UNCHANGED writes /\ \E w \in Action : Changes(w)
<1>0. action \in [Action -> ActionRow]
  BY DEF TypeInv, TablesOK
<1>1. ASSUME NEW p \in Caller, InsertAction(p)
      PROVE  Goal
  <2>1. loc[p].act \in Action /\ loc[p].draft \in Draft
    BY <1>1 DEF InsertAction, TypeInv, CommandsOK, LocalsOK
  <2>2. [status |-> "prepared", draft |-> loc[p].draft, approval |-> NoApproval] \in ActionRow
    BY <2>1 DEF ActionRow, ActionStatus
  <2> QED
    BY <1>1, <2>1, <2>2 DEF InsertAction, ActionOnly, GoogleIdle, Row, Changes, Becomes
<1>2. ASSUME NEW p \in Caller, Link(p)
      PROVE  Goal
  <2> DEFINE w == loc[p].act
             r == [action[w] EXCEPT !.status = "awaiting_approval", !.approval = loc[p].ref]
  <2>1. w \in Action /\ loc[p].ref \in ApprovalId /\ action[w] \in ActionRow
    BY <1>0, <1>2 DEF Link, TypeInv, CommandsOK, LocalsOK
  <2>2. r \in ActionRow /\ r.status = "awaiting_approval" /\ r.approval = loc[p].ref
    BY <2>1 DEF ActionRow, ActionStatus
  <2>3. action' = [action EXCEPT ![w] = r]
    BY <1>0, <1>2, <2>1 DEF Link
  <2>4. action[w].status = "prepared" /\ loc[p].at = "linking" /\ UNCHANGED writes
    BY <1>2 DEF Link, Row, ActionOnly, GoogleIdle
  <2> QED
    BY <2>1, <2>2, <2>3, <2>4 DEF Changes, Becomes
<1>3. ASSUME NEW p \in Caller, loc[p].act \in Action, NEW s \in ActionStatus, SetStatus(p, s)
      PROVE  LET r == [action[loc[p].act] EXCEPT !.status = s]
             IN  /\ r \in ActionRow /\ r.status = s /\ r.approval = action[loc[p].act].approval
                 /\ action' = [action EXCEPT ![loc[p].act] = r]
  <2>1. action[loc[p].act] \in ActionRow
    BY <1>0, <1>3
  <2>2. action' = [action EXCEPT ![loc[p].act] = [action[loc[p].act] EXCEPT !.status = s]]
    BY <1>3, RowUpdate
  <2> QED
    BY <1>3, <2>1, <2>2 DEF ActionRow
<1>4. ASSUME NEW p \in Caller, Settle(p)
      PROVE  Goal
  <2>1. loc[p].act \in Action /\ loc[p].goal \in ActionStatus /\ loc[p].at = "settling"
    BY <1>4 DEF Settle, TypeInv, CommandsOK, LocalsOK, ActionStatus, Final
  <2>2. CASE Row(p).status = "awaiting_approval"
    <3>1. SetStatus(p, loc[p].goal) /\ UNCHANGED writes
      BY <1>4, <2>2 DEF Settle, ActionOnly, GoogleIdle
    <3> DEFINE r == [action[loc[p].act] EXCEPT !.status = loc[p].goal]
    <3>2. /\ r \in ActionRow /\ r.status = loc[p].goal /\ r.approval = action[loc[p].act].approval
          /\ action' = [action EXCEPT ![loc[p].act] = r]
      BY <1>3, <2>1, <3>1
    <3>3. Becomes(loc[p].act, r)
      BY <2>1, <2>2, <3>2 DEF Becomes, Row
    <3> QED
      BY <2>1, <3>1, <3>2, <3>3 DEF Changes
  <2> QED
    BY <1>4, <2>2 DEF Settle
<1>5. ASSUME NEW p \in Caller, Claim(p)
      PROVE  Goal
  <2>1. loc[p].act \in Action /\ "executing" \in ActionStatus
    BY <1>5 DEF Claim, TypeInv, CommandsOK, LocalsOK, ActionStatus
  <2>2. CASE Row(p).status = "approved"
    <3>1. SetStatus(p, "executing") /\ UNCHANGED writes
      BY <1>5, <2>2 DEF Claim, ActionOnly, GoogleIdle
    <3> QED
      BY <1>3, <2>1, <2>2, <3>1 DEF Changes, Becomes, Row
  <2> QED
    BY <1>5, <2>2 DEF Claim
<1>6. ASSUME NEW p \in Caller, Finish(p)
      PROVE  Goal
  <2>1. loc[p].act \in Action /\ loc[p].at = "finishing" /\ ClaimOK(p)
    BY <1>6 DEF Finish, TypeInv, CommandsOK, LocalsOK, WriteInv
  <2>2. loc[p].goal \in {"succeeded", "failed", "outcome_unknown"} /\ Row(p).status = "executing"
    BY <2>1 DEF ClaimOK, Claims, Row
  <2>3. loc[p].goal \in ActionStatus
    BY <2>2 DEF ActionStatus, Final
  <2>4. SetStatus(p, loc[p].goal) /\ UNCHANGED writes
    BY <1>6, <2>2 DEF Finish, ActionOnly, GoogleIdle
  <2> DEFINE r == [action[loc[p].act] EXCEPT !.status = loc[p].goal]
  <2>5. /\ r \in ActionRow /\ r.status = loc[p].goal /\ r.approval = action[loc[p].act].approval
        /\ action' = [action EXCEPT ![loc[p].act] = r]
    BY <1>3, <2>1, <2>3, <2>4
  <2>6. Becomes(loc[p].act, r)
    BY <2>2, <2>5 DEF Becomes, Row
  <2> QED
    BY <2>1, <2>4, <2>5, <2>6 DEF Changes
<1> QED
  BY <1>1, <1>2, <1>4, <1>5, <1>6
  DEF Next, Proceed, Command, Die, MarkReady, Revise, Prepare, CreateDispatch,
      FindApproval, Generic, Observe, Check, Recheck, Write, Report, OpenDraft,
      Request, ApproveCommand, RejectCommand, ExecuteCall, CancelDispatch, ReachDeadline,
      DraftsOnly, NoRows, RecordsOnly, vars

-----------------------------------------------------------------------------
(* An action is linked to an approval of its own dispatch, its status      *)
(* follows that approval's decision, and so does what a command is about   *)
(* to write on it.                                                         *)
Linked(w) ==
    /\ action[w].approval \in ApprovalId
    /\ approval[action[w].approval].status # "absent"
    /\ approval[action[w].approval].key = w

Follows(w) ==
    /\ action[w].status \in {"approved"} \cup Attempted => Decision(w) = "approved"
    /\ action[w].status = "rejected" => Decision(w) \in Denied
    /\ action[w].status # "cancelled"

Links(p) ==
    loc[p].at = "linking" =>
        approval[loc[p].ref].status # "absent" /\ approval[loc[p].ref].key = loc[p].act

Settles(p) ==
    loc[p].at = "settling" =>
        /\ action[loc[p].act].status \notin Unlinked
        /\ loc[p].goal = "approved" => Decision(loc[p].act) = "approved"
        /\ loc[p].goal = "rejected" => Decision(loc[p].act) \in Denied

LinkInv ==
    /\ \A w \in Action : IF action[w].status \in Unlinked
                         THEN action[w].approval = NoApproval
                         ELSE Linked(w) /\ Follows(w)
    /\ \A p \in Caller : Links(p) /\ Settles(p)

LEMMA ApprovalsKept ==
    ASSUME TypeInv, [Next]_vars, NEW b \in ApprovalId, approval[b].status # "absent"
    PROVE  /\ approval'[b].status # "absent" /\ approval'[b].key = approval[b].key
           /\ approval[b].status # "requested" => approval'[b].status = approval[b].status
BY DispatchTypes, DispatchAssumed, P!ApprovalsStep DEF TypeInv

LEMMA LinkInvInit == Init => LinkInv
BY IdleOK DEF Init, LinkInv, Unlinked, Links, Settles

(* What a command newly relies on.                                         *)
LEMMA PlaceStep ==
    ASSUME TypeInv, [Next]_vars, NEW q \in Caller
    PROVE  /\ loc'[q].at = "linking" =>
                 loc'[q] = loc[q] \/ loc'[q].ref \in P!Open(loc'[q].act)
           /\ loc'[q].at = "settling" =>
                 \/ loc'[q] = loc[q]
                 \/ /\ loc'[q].goal = Target(Decision(loc'[q].act))
                    /\ action[loc'[q].act].status = "awaiting_approval"
<1> DEFINE Fine(l) == /\ l.at = "linking" => l.ref \in P!Open(l.act)
                      /\ l.at = "settling" =>
                            /\ l.goal = Target(Decision(l.act))
                            /\ action[l.act].status = "awaiting_approval"
           Goal == loc'[q] = loc[q] \/ Fine(loc'[q])
<1>0. loc \in [Caller -> Locals]
  BY DEF TypeInv, CommandsOK
<1>1. ASSUME NEW p \in Caller, NEW l, Goto(p, l), Fine(l)
      PROVE  Goal
  BY <1>0, <1>1 DEF Goto
<1>2. CASE UNCHANGED loc
  BY <1>2
<1>3. ASSUME NEW p \in Caller, NEW l, Goto(p, l), l.at \notin {"linking", "settling"}
      PROVE  Goal
  BY <1>1, <1>3
<1>4. ASSUME NEW p \in Caller, Return(p)
      PROVE  Goal
  BY <1>3, <1>4, IdleOK DEF Return
<1>5. ASSUME NEW p \in Caller, NEW place \in Place \ {"linking", "settling"}, Goto(p, At(p, place))
      PROVE  Goal
  <2>1. At(p, place).at = place
    BY <1>0 DEF At, Locals
  <2> QED
    BY <1>3, <1>5, <2>1
<1>6. ASSUME NEW p \in Caller, NEW s, Goto(p, [At(p, "finishing") EXCEPT !.goal = s])
      PROVE  Goal
  <2>1. [At(p, "finishing") EXCEPT !.goal = s].at = "finishing"
    BY <1>0 DEF At, Locals
  <2> QED
    BY <1>3, <1>6, <2>1
<1>7. ASSUME NEW p \in Caller, NEW s, Observed(p, s)
      PROVE  Goal
  BY <1>4, <1>5, <1>7 DEF Observed, Return, Place
<1>8. ASSUME NEW p \in Caller, MarkReady(p) \/ Revise(p) \/ Die(p) \/ Link(p) \/ Finish(p)
      PROVE  Goal
  BY <1>4, <1>8 DEF MarkReady, Revise, Die, Link, Finish
<1>9. ASSUME NEW p \in Caller, InsertAction(p) \/ CreateDispatch(p) \/ Generic(p)
      PROVE  Goal
  BY <1>2, <1>4, <1>5, <1>9 DEF InsertAction, CreateDispatch, Generic, Place
<1>10. ASSUME NEW p \in Caller, FindApproval(p)
       PROVE  Goal
  <2>1. ASSUME NEW b \in D!Open(loc[p].act), Goto(p, [At(p, "linking") EXCEPT !.ref = b])
        PROVE  Goal
    <3> DEFINE l == [At(p, "linking") EXCEPT !.ref = b]
    <3>1. l.at = "linking" /\ l.ref = b /\ l.act = loc[p].act
      BY <1>0 DEF At, Locals
    <3>2. Fine(l)
      BY <2>1, <3>1 DEF D!Open, P!Open
    <3> QED
      BY <1>1, <2>1, <3>2
  <2> QED
    BY <1>4, <1>10, <2>1 DEF FindApproval
<1>11. ASSUME NEW p \in Caller, Observe(p)
       PROVE  Goal
  <2> DEFINE target == Target(approval[Row(p).approval].status)
             l == [At(p, "settling") EXCEPT !.goal = target]
  <2>1. l.at = "settling" /\ l.goal = target /\ l.act = loc[p].act
    BY <1>0 DEF At, Locals
  <2>2. CASE target # "absent" /\ Row(p).status = "awaiting_approval"
    <3>1. Fine(l)
      BY <2>1, <2>2 DEF Row, Decision
    <3>2. Goto(p, l)
      BY <1>11, <2>2 DEF Observe
    <3> QED
      BY <1>1, <3>1, <3>2
  <2>3. CASE ~(target # "absent" /\ Row(p).status = "awaiting_approval")
    BY <1>7, <1>11, <2>3 DEF Observe
  <2> QED
    BY <2>2, <2>3
<1>12. ASSUME NEW p \in Caller, Settle(p)
       PROVE  Goal
  BY <1>7, <1>12 DEF Settle
<1>13. ASSUME NEW p \in Caller, Check(p) \/ Recheck(p) \/ Claim(p)
       PROVE  Goal
  BY <1>4, <1>5, <1>6, <1>13 DEF Check, Recheck, Claim, Place
<1>14. ASSUME NEW p \in Caller, Write(p)
       PROVE  Goal
  BY <1>6, <1>14 DEF Write, Report
<1>15. ASSUME NEW p \in Caller, NEW d \in Draft, OpenDraft(p, d)
       PROVE  Goal
  <2>1. PICK place \in {"readying", "revising"} : Goto(p, [Idle EXCEPT !.at = place, !.draft = d])
    BY <1>15 DEF OpenDraft
  <2>2. [Idle EXCEPT !.at = place, !.draft = d].at = place
    BY DEF Idle
  <2> QED
    BY <1>3, <2>1, <2>2
<1>16. ASSUME NEW p \in Caller, NEW w \in Action, NEW d \in Draft, Request(p, w, d)
       PROVE  Goal
  <2>1. [Idle EXCEPT !.at = "inserting", !.act = w, !.draft = d].at = "inserting"
    BY DEF Idle
  <2> QED
    BY <1>3, <1>16, <2>1 DEF Request
<1>17. ASSUME NEW w
       PROVE  /\ [Idle EXCEPT !.at = "observing", !.act = w, !.executes = TRUE].at = "observing"
              /\ [Idle EXCEPT !.at = "observing", !.act = w].at = "observing"
              /\ [Idle EXCEPT !.at = "generic", !.act = w].at = "generic"
  BY DEF Idle
<1>18. ASSUME NEW p \in Caller, NEW b \in ApprovalId, ApproveCommand(p, b) \/ RejectCommand(p, b)
       PROVE  Goal
  BY <1>2, <1>3, <1>17, <1>18 DEF ApproveCommand, RejectCommand
<1>19. ASSUME NEW p \in Caller, NEW w \in Action, ExecuteCall(p, w)
       PROVE  Goal
  BY <1>3, <1>17, <1>19 DEF ExecuteCall
<1>20. Goal
  BY <1>2, <1>8, <1>9, <1>10, <1>11, <1>12, <1>13, <1>14, <1>15, <1>16, <1>18, <1>19
  DEF Next, Proceed, Command, Prepare, CancelDispatch, ReachDeadline, vars
<1> QED
  BY <1>20

LEMMA LinkInvStep ==
    ASSUME TypeInv, DraftInv, RowInv, WriteInv, LinkInv, [Next]_vars
    PROVE  LinkInv'
<1>0. action \in [Action -> ActionRow] /\ action' \in [Action -> ActionRow] /\ CommandsOK'
  BY TablesStep, CommandsStep DEF TypeInv, TablesOK
<1>1. ASSUME NEW w \in Action, action[w].status \notin Unlinked
      PROVE  /\ action'[w].approval = action[w].approval
             /\ action'[w].status \notin Unlinked
  <2>1. Linked(w)
    BY <1>1 DEF LinkInv
  <2>2. CASE action'[w] = action[w]
    BY <1>1, <2>2
  <2>3. ASSUME NEW v \in Action, Changes(v), v = w
        PROVE  /\ action'[w].approval = action[w].approval
               /\ action'[w].status \notin Unlinked
    <3>1. PICK r \in ActionRow : action' = [action EXCEPT ![w] = r] /\ Becomes(w, r)
      BY <2>3 DEF Changes
    <3>2. action'[w] = r
      BY <1>0, <3>1
    <3>3. ASSUME NEW p \in Caller, loc[p].at = "settling"
          PROVE  loc[p].goal \in {"approved", "rejected"}
      BY <3>3 DEF TypeInv, CommandsOK, LocalsOK
    <3> QED
      BY <1>1, <3>1, <3>2, <3>3 DEF Becomes, Unlinked
  <2>4. CASE \E v \in Action \ {w} : Changes(v)
    BY <1>0, <2>2, <2>4 DEF Changes
  <2> QED
    BY <2>2, <2>3, <2>4, RowChange
<1>2. ASSUME NEW w \in Action, Linked(w), action'[w].approval = action[w].approval
      PROVE  /\ Linked(w)'
             /\ Decision(w) # "requested" => Decision(w)' = Decision(w)
  <2>1. action[w].approval \in ApprovalId
    BY <1>2 DEF Linked
  <2> QED
    BY <1>2, <2>1, ApprovalsKept DEF Linked, Decision
<1>3. ASSUME NEW w \in Action
      PROVE  IF action'[w].status \in Unlinked
             THEN action'[w].approval = NoApproval
             ELSE Linked(w)' /\ Follows(w)'
  <2> DEFINE Goal == IF action'[w].status \in Unlinked
                     THEN action'[w].approval = NoApproval
                     ELSE Linked(w)' /\ Follows(w)'
  <2>1. CASE action'[w] = action[w]
    <3>1. CASE action[w].status \in Unlinked
      BY <2>1, <3>1 DEF LinkInv
    <3>2. CASE action[w].status \notin Unlinked
      <4>1. Linked(w) /\ Follows(w)
        BY <3>2 DEF LinkInv
      <4>2. Linked(w)' /\ (Decision(w) # "requested" => Decision(w)' = Decision(w))
        BY <1>2, <2>1, <4>1
      <4> QED
        BY <2>1, <3>2, <4>1, <4>2 DEF Follows, Denied
    <3> QED
      BY <3>1, <3>2
  <2>2. ASSUME Changes(w)
        PROVE  Goal
    <3>1. PICK r \in ActionRow : action' = [action EXCEPT ![w] = r] /\ Becomes(w, r)
      BY <2>2 DEF Changes
    <3>2. action'[w] = r
      BY <1>0, <3>1
    <3>3. CASE r.status \in Unlinked
      <4>1. action[w].status \in Unlinked
        BY <1>1, <3>2, <3>3
      <4> QED
        BY <3>1, <3>2, <3>3, <4>1 DEF Becomes, Unlinked, LinkInv
    <3>4. CASE action[w].status = "prepared" /\ r.status = "awaiting_approval"
      <4>1. PICK p \in Caller : loc[p].at = "linking" /\ loc[p].act = w /\ r.approval = loc[p].ref
        BY <3>1, <3>4 DEF Becomes
      <4>2. loc[p].ref \in ApprovalId /\ Links(p)
        BY <4>1 DEF TypeInv, CommandsOK, LocalsOK, LinkInv
      <4>3. approval'[loc[p].ref].status # "absent" /\ approval'[loc[p].ref].key = w
        BY <4>1, <4>2, ApprovalsKept DEF Links
      <4> QED
        BY <3>2, <3>4, <4>1, <4>2, <4>3 DEF Linked, Follows, Unlinked, Attempted
    <3>5. CASE action[w].status \notin Unlinked /\ r.approval = action[w].approval
      <4>1. Linked(w) /\ Follows(w)
        BY <3>5 DEF LinkInv
      <4>2. Linked(w)' /\ (Decision(w) # "requested" => Decision(w)' = Decision(w))
        BY <1>2, <3>2, <3>5, <4>1
      <4>3. CASE action[w].status = "awaiting_approval"
        <5>1. PICK p \in Caller : loc[p].at = "settling" /\ loc[p].act = w /\ r.status = loc[p].goal
          BY <3>1, <3>5, <4>3 DEF Becomes, Unlinked
        <5>2. loc[p].goal \in {"approved", "rejected"} /\ Settles(p)
          BY <5>1 DEF TypeInv, CommandsOK, LocalsOK, LinkInv
        <5> QED
          BY <3>2, <4>2, <5>1, <5>2 DEF Settles, Follows, Unlinked, Attempted, Denied
      <4>4. CASE action[w].status \in {"approved", "executing"}
        <5>1. r.status \in Attempted /\ Decision(w) = "approved"
          BY <3>1, <3>5, <4>1, <4>4 DEF Becomes, Unlinked, Attempted, Follows
        <5> QED
          BY <3>2, <4>2, <5>1 DEF Follows, Unlinked, Attempted
      <4> QED
        BY <3>1, <3>5, <4>3, <4>4 DEF Becomes, Unlinked
    <3>6. \/ r.status \in Unlinked
          \/ action[w].status = "prepared" /\ r.status = "awaiting_approval"
          \/ action[w].status \notin Unlinked /\ r.approval = action[w].approval
      BY <3>1 DEF Becomes, Unlinked
    <3> QED
      BY <3>3, <3>4, <3>5, <3>6
  <2>3. CASE \E v \in Action \ {w} : Changes(v)
    BY <1>0, <2>1, <2>3 DEF Changes
  <2> QED
    BY <2>1, <2>2, <2>3, RowChange
<1>4. ASSUME NEW p \in Caller
      PROVE  Links(p)'
  <2> SUFFICES ASSUME loc'[p].at = "linking"
               PROVE  /\ approval'[loc'[p].ref].status # "absent"
                      /\ approval'[loc'[p].ref].key = loc'[p].act
    BY DEF Links
  <2>1. loc'[p].ref \in ApprovalId
    BY <1>0 DEF CommandsOK, LocalsOK
  <2>2. approval[loc'[p].ref].status # "absent" /\ approval[loc'[p].ref].key = loc'[p].act
    <3>1. CASE loc'[p] = loc[p]
      BY <3>1 DEF LinkInv, Links
    <3>2. CASE loc'[p].ref \in P!Open(loc'[p].act)
      BY <3>2 DEF P!Open
    <3> QED
      BY <3>1, <3>2, PlaceStep
  <2> QED
    BY <2>1, <2>2, ApprovalsKept
<1>5. ASSUME NEW p \in Caller, NEW w \in Action, loc'[p].at = "settling", loc'[p].act = w
      PROVE  /\ action'[w].status \notin Unlinked
             /\ loc'[p].goal = "approved" => Decision(w)' = "approved"
             /\ loc'[p].goal = "rejected" => Decision(w)' \in Denied
  <2>1. /\ action[w].status \notin Unlinked
        /\ loc'[p].goal = "approved" => Decision(w) = "approved"
        /\ loc'[p].goal = "rejected" => Decision(w) \in Denied
    <3>1. CASE loc'[p] = loc[p]
      BY <1>5, <3>1 DEF LinkInv, Settles
    <3>2. CASE loc'[p].goal = Target(Decision(w)) /\ action[w].status = "awaiting_approval"
      BY <3>2 DEF Target, Unlinked, Denied
    <3> QED
      BY <1>5, <3>1, <3>2, PlaceStep
  <2>2. Linked(w)
    BY <2>1 DEF LinkInv
  <2>3. action'[w].approval = action[w].approval /\ action'[w].status \notin Unlinked
    BY <1>1, <2>1
  <2>4. Decision(w) # "requested" => Decision(w)' = Decision(w)
    BY <1>2, <2>2, <2>3
  <2> QED
    BY <2>1, <2>3, <2>4 DEF Denied
<1>6. ASSUME NEW p \in Caller
      PROVE  Settles(p)'
  <2>1. loc'[p].at = "settling" => loc'[p].act \in Action
    BY <1>0 DEF CommandsOK, LocalsOK
  <2> QED
    BY <1>5, <2>1 DEF Settles, Decision
<1> QED
  BY <1>3, <1>4, <1>6 DEF LinkInv

-----------------------------------------------------------------------------
(* The steps of the contract.                                              *)
GateInv == TypeInv /\ DraftInv /\ RowInv /\ WriteInv /\ LinkInv

GatePhase  == [w \in Action |-> PhaseOf(action[w].status)]
GateBound  == {w \in Action : action[w].approval # NoApproval}
GateYes    == {w \in Action : /\ PhaseOf(action[w].status) \notin {"none", "waiting"}
                              /\ Decision(w) = "approved"
                              /\ approval[action[w].approval].key = w}

LEMMA PhaseTyping ==
    ASSUME NEW s
    PROVE  /\ PhaseOf(s) = "none" <=> s \in Unlinked
           /\ PhaseOf(s) = "waiting" <=> s = "awaiting_approval"
           /\ PhaseOf(s) = "ready" <=> s = "approved"
           /\ PhaseOf(s) = "busy" <=> s = "executing"
           /\ PhaseOf(s) = "done" <=> s = "succeeded"
           /\ PhaseOf(s) \in {"none", "waiting", "ready", "busy", "done", "closed"}
BY DEF PhaseOf, Unlinked

LEMMA GateStarts == Init => Gate!Init
BY DEF Init, Gate!Init, PhaseOf

(* A status tells whether its action is granted.                           *)
StatusTells ==
    \A w \in Action :
        /\ w \in GateBound <=> action[w].status \notin Unlinked
        /\ w \in GateYes <=> action[w].status \in {"approved"} \cup Attempted

LEMMA Grants == TypeInv /\ LinkInv => StatusTells
<1> SUFFICES ASSUME TypeInv, LinkInv, NEW w \in Action
             PROVE  /\ w \in GateBound <=> action[w].status \notin Unlinked
                    /\ w \in GateYes <=> action[w].status \in {"approved"} \cup Attempted
  BY DEF StatusTells
<1> DEFINE s == action[w].status
<1>1. s \notin Unlinked => Linked(w) /\ Follows(w)
  BY DEF LinkInv
<1>2. s \in Unlinked => action[w].approval = NoApproval
  BY DEF LinkInv
<1>3. w \in GateBound <=> s \notin Unlinked
  BY <1>1, <1>2, WorkspaceActionAssumption DEF GateBound, Linked
<1>4. PhaseOf(s) \notin {"none", "waiting"} <=> s \notin Unlinked \cup {"awaiting_approval"}
  BY PhaseTyping
<1>5. w \in GateYes <=> /\ s \notin Unlinked \cup {"awaiting_approval"}
                        /\ Decision(w) = "approved"
                        /\ approval[action[w].approval].key = w
  BY <1>4 DEF GateYes
<1>6. s \in ActionStatus
  BY DEF TypeInv, TablesOK, ActionRow
<1>7. CASE s \in Unlinked \cup {"awaiting_approval"}
  BY <1>3, <1>5, <1>7 DEF Unlinked, Attempted
<1>8. CASE s \in {"approved"} \cup Attempted
  <2>1. Decision(w) = "approved" /\ approval[action[w].approval].key = w
    BY <1>1, <1>8 DEF Unlinked, Attempted, Linked, Follows
  <2>2. s \notin Unlinked \cup {"awaiting_approval"}
    BY <1>8 DEF Unlinked, Attempted
  <2> QED
    BY <1>3, <1>5, <1>8, <2>1, <2>2
<1>9. CASE s = "rejected"
  <2>1. Decision(w) # "approved"
    BY <1>1, <1>9 DEF Unlinked, Follows, Denied
  <2> QED
    BY <1>3, <1>5, <1>9, <2>1 DEF Attempted
<1>10. s \in Unlinked \cup {"awaiting_approval"} \cup {"approved"} \cup Attempted \cup {"rejected"}
  BY <1>1, <1>6 DEF ActionStatus, Final, Unlinked, Attempted, Follows
<1> QED
  BY <1>7, <1>8, <1>9, <1>10

LEMMA GateStep == GateInv /\ StatusTells /\ StatusTells' /\ [Next]_vars => [Gate!Next]_(Gate!vars)
<1> SUFFICES ASSUME GateInv, StatusTells, StatusTells', [Next]_vars PROVE [Gate!Next]_(Gate!vars)
  OBVIOUS
<1> USE DEF GateInv
<1>0. action \in [Action -> ActionRow] /\ writes \in [Action -> Nat]
  BY DEF TypeInv, TablesOK
<1>1. \A w \in Action :
         /\ w \in GateBound <=> action[w].status \notin Unlinked
         /\ w \in GateYes <=> action[w].status \in {"approved"} \cup Attempted
         /\ w \in GateBound' <=> action'[w].status \notin Unlinked
         /\ w \in GateYes' <=> action'[w].status \in {"approved"} \cup Attempted
  BY DEF StatusTells
<1>2. GateBound \subseteq Action /\ GateYes \subseteq Action
      /\ GateBound' \subseteq Action /\ GateYes' \subseteq Action
  BY DEF GateBound, GateYes
<1>3. CASE UNCHANGED action
  <2>1. UNCHANGED <<GatePhase, GateBound, GateYes>>
    BY <1>1, <1>2, <1>3 DEF GatePhase
  <2>2. CASE UNCHANGED writes
    BY <2>1, <2>2 DEF Gate!vars, GatePhase, GateBound, GateYes, Decision
  <2>3. ASSUME NEW p \in Caller, Write(p)
        PROVE  Gate!Next
    <3> DEFINE w == loc[p].act
    <3>1. w \in Action /\ action[w].status = "executing"
      BY <2>3 DEF Write, Report, TypeInv, CommandsOK, LocalsOK, WriteInv, ClaimOK, Claims
    <3>2. GatePhase[w] = "busy" /\ w \in GateYes
      BY <1>1, <3>1, PhaseTyping DEF GatePhase, Attempted
    <3>3. writes' = [writes EXCEPT ![w] = @ + 1]
      BY <2>3 DEF Write, Report
    <3>4. Gate!Run(w)
      BY <2>1, <3>2, <3>3 DEF Gate!Run, Gate!Allowed, GatePhase, GateBound, GateYes, Decision
    <3> QED
      BY <3>1, <3>4 DEF Gate!Next
  <2> QED
    BY <2>2, <2>3
    DEF Next, Proceed, Command, Die, MarkReady, Revise, Prepare, InsertAction, CreateDispatch,
        FindApproval, Link, Generic, Observe, Settle, Check, Claim, Recheck, Finish, OpenDraft,
        Request, ApproveCommand, RejectCommand, ExecuteCall, CancelDispatch, ReachDeadline,
        DraftsOnly, ActionOnly, NoRows, RecordsOnly, GoogleIdle, vars
<1>4. ASSUME UNCHANGED writes, NEW w \in Action, Changes(w)
      PROVE  [Gate!Next]_(Gate!vars)
  <2>1. PICK r \in ActionRow : action' = [action EXCEPT ![w] = r] /\ Becomes(w, r)
    BY <1>4 DEF Changes
  <2> DEFINE s == action[w].status
             t == r.status
  <2>2. action'[w] = r /\ \A v \in Action \ {w} : action'[v] = action[v]
    BY <1>0, <2>1
  <2>3. \A v \in Action \ {w} : (v \in GateBound' <=> v \in GateBound) /\ (v \in GateYes' <=> v \in GateYes)
    BY <1>1, <2>2
  <2>4. GatePhase' = [GatePhase EXCEPT ![w] = PhaseOf(t)] /\ GatePhase[w] = PhaseOf(s)
    BY <1>0, <2>1, <2>2 DEF GatePhase
  <2>5. ASSUME s \in Unlinked <=> t \in Unlinked
        PROVE  UNCHANGED GateBound
    BY <1>1, <1>2, <2>2, <2>3, <2>5
  <2>6. ASSUME s \in {"approved"} \cup Attempted <=> t \in {"approved"} \cup Attempted
        PROVE  UNCHANGED GateYes
    BY <1>1, <1>2, <2>2, <2>3, <2>6
  <2>7. CASE s = "absent" /\ t = "prepared"
    <3>1. UNCHANGED <<GateBound, GateYes>>
      BY <2>5, <2>6, <2>7 DEF Unlinked, Attempted
    <3>2. PhaseOf(s) = "none" /\ PhaseOf(t) = "none"
      BY <2>7, PhaseTyping DEF Unlinked
    <3>3. \A v \in Action : PhaseOf(action'[v].status) = PhaseOf(action[v].status)
      BY <2>2, <3>2
    <3>4. UNCHANGED GatePhase
      BY <3>3 DEF GatePhase
    <3> QED
      BY <1>4, <3>1, <3>4 DEF Gate!vars, GatePhase, GateBound, GateYes, Decision
  <2>8. CASE s = "prepared" /\ t = "awaiting_approval"
    <3>1. UNCHANGED GateYes /\ GateBound' = GateBound \cup {w}
      BY <1>1, <1>2, <2>2, <2>3, <2>6, <2>8 DEF Unlinked, Attempted
    <3>2. GatePhase[w] = "none" /\ GatePhase' = [GatePhase EXCEPT ![w] = "waiting"]
      BY <2>4, <2>8, PhaseTyping DEF Unlinked
    <3>3. Gate!Submit(w)
      BY <1>4, <3>1, <3>2 DEF Gate!Submit, Gate!Move, GatePhase, GateBound, GateYes, Decision
    <3> QED
      BY <3>3 DEF Gate!Next
  <2>9. CASE s = "awaiting_approval" /\ t = "approved"
    <3>1. UNCHANGED GateBound /\ GateYes' = GateYes \cup {w}
      BY <1>1, <1>2, <2>2, <2>3, <2>5, <2>9 DEF Unlinked, Attempted
    <3>2. GatePhase[w] = "waiting" /\ GatePhase' = [GatePhase EXCEPT ![w] = "ready"]
      BY <2>4, <2>9, PhaseTyping
    <3>3. Gate!Grant(w)
      BY <1>4, <3>1, <3>2 DEF Gate!Grant, Gate!Move, GatePhase, GateBound, GateYes, Decision
    <3> QED
      BY <3>3 DEF Gate!Next
  <2>10. ASSUME PhaseOf(s) \in {"waiting", "busy"}, PhaseOf(t) = "closed", UNCHANGED <<GateBound, GateYes>>
         PROVE  Gate!Next
    <3>1. GatePhase[w] \in Gate!Phase \ {"none", "done", "closed"}
      BY <2>4, <2>10 DEF Gate!Phase
    <3>2. Gate!Close(w)
      BY <1>4, <2>4, <2>10, <3>1 DEF Gate!Close, Gate!Move, GatePhase, GateBound, GateYes, Decision
    <3> QED
      BY <3>2 DEF Gate!Next
  <2>11. CASE s = "awaiting_approval" /\ t = "rejected"
    <3>1. UNCHANGED <<GateBound, GateYes>>
      BY <2>5, <2>6, <2>11 DEF Unlinked, Attempted
    <3> QED
      BY <2>10, <2>11, <3>1, PhaseTyping DEF PhaseOf
  <2>12. CASE s = "approved" /\ t = "executing"
    <3>1. UNCHANGED <<GateBound, GateYes>>
      BY <2>5, <2>6, <2>12 DEF Unlinked, Attempted
    <3>2. GatePhase[w] = "ready" /\ GatePhase' = [GatePhase EXCEPT ![w] = "busy"] /\ w \in GateYes
      BY <1>1, <2>4, <2>12, PhaseTyping
    <3>3. Gate!Start(w)
      BY <1>4, <3>1, <3>2
      DEF Gate!Start, Gate!Allowed, Gate!Move, GatePhase, GateBound, GateYes, Decision
    <3> QED
      BY <3>3 DEF Gate!Next
  <2>13. CASE s = "executing" /\ t \in {"succeeded", "failed", "outcome_unknown"}
    <3>1. UNCHANGED <<GateBound, GateYes>>
      BY <2>5, <2>6, <2>13 DEF Unlinked, Attempted
    <3>2. CASE t = "succeeded"
      <4>1. GatePhase[w] = "busy" /\ GatePhase' = [GatePhase EXCEPT ![w] = "done"]
        BY <2>4, <2>13, <3>2, PhaseTyping
      <4>2. Gate!End(w)
        BY <1>4, <3>1, <4>1 DEF Gate!End, Gate!Move, GatePhase, GateBound, GateYes, Decision
      <4> QED
        BY <4>2 DEF Gate!Next
    <3>3. CASE t # "succeeded"
      BY <2>10, <2>13, <3>1, <3>3, PhaseTyping DEF PhaseOf
    <3> QED
      BY <3>2, <3>3
  <2>14. ASSUME NEW p \in Caller, loc[p].at = "settling"
         PROVE  loc[p].goal \in {"approved", "rejected"}
    BY <2>14 DEF TypeInv, CommandsOK, LocalsOK
  <2> QED
    BY <2>1, <2>7, <2>8, <2>9, <2>11, <2>12, <2>13, <2>14 DEF Becomes
<1> QED
  BY <1>3, <1>4, RowChange

(* A document is written only of an action whose own approval was granted  *)
(* and then observed, the grant and the release are one step of the row,   *)
(* and an action that is over has no further life.                         *)
THEOREM GateIsImplemented == Spec => ImplementsGate
<1>1. Init => LinkInv
  BY LinkInvInit
<1>2. TypeInv /\ DraftInv /\ RowInv /\ WriteInv /\ LinkInv /\ [Next]_vars => LinkInv'
  BY LinkInvStep
<1>3. GateInv /\ StatusTells /\ StatusTells' /\ [Next]_vars => [Gate!Next]_(Gate!vars)
  BY GateStep
<1>4. TypeInv /\ LinkInv => StatusTells
  BY Grants
<1> QED
  BY <1>1, <1>2, <1>3, <1>4, WriteInvAlways, GateStarts, PTL DEF Spec, GateInv, ImplementsGate, Gate!Spec

-----------------------------------------------------------------------------
(* A ready draft that is superseded after all (SupersedeReady). Then no    *)
(* draft of an action need be current, but none that was superseded        *)
(* becomes so again; and who may write is past the claim, which nothing    *)
(* undoes.                                                                 *)
Adopted == {"ready_for_action", "superseded"}

Begun(w) == action[w].status \in Final \cup {"executing"}

AdoptedInv ==
    /\ PastOK
    /\ \A p \in Caller :
          /\ loc[p].at = "inserting" => draft[loc[p].draft].status \in Adopted
          /\ loc[p].at \in {"rechecking", "writing"} => Begun(loc[p].act)
          /\ loc[p].at = "finishing" => loc[p].goal \in Final
    /\ \A w \in Action :
          /\ IF action[w].status = "absent"
             THEN action[w].approval = NoApproval
             ELSE action[w].draft \in Draft /\ draft[action[w].draft].status \in Adopted
          /\ ~Begun(w) => writes[w] = 0

Inv == TypeInv /\ DraftInv /\ AdoptedInv

Superseding == \E d, e \in Draft : SupersedeReady(d, e)

LEMMA InvInit == Init => Inv
<1>1. Init => TypeInv
  BY CommandsInit, TablesInit, SameInit, DispatchAssumed, P!TypeInvInit DEF Init, TypeInv
<1>2. Init => AdoptedInv
  BY IdleOK DEF Init, AdoptedInv, PastOK, Past
<1> QED
  BY <1>1, <1>2, DraftInvInit DEF Inv

(* What a step makes of the drafts.                                        *)
LEMMA DraftFate ==
    ASSUME Inv, [Next]_vars \/ Superseding
    PROVE  /\ DraftInv'
           /\ \A d \in Draft : /\ draft[d].status \in Adopted => draft'[d].status \in Adopted
                               /\ draft[d].status = "superseded" => draft'[d].status = "superseded"
<1>0. draft \in [Draft -> DraftRow]
  BY DEF Inv, TypeInv, TablesOK
<1>1. CASE [Next]_vars
  <2>1. DraftMoves
    BY <1>1, DraftStep DEF Inv, TypeInv
  <2>2. DraftInv'
    BY <1>0, <2>1, DraftInvStep DEF Inv
  <2> QED
    BY <1>0, <2>1, <2>2 DEF DraftMoves, DraftRow, Adopted
<1>2. ASSUME NEW d \in Draft, NEW e \in Draft, SupersedeReady(d, e)
      PROVE  /\ DraftInv'
             /\ \A f \in Draft : /\ draft[f].status \in Adopted => draft'[f].status \in Adopted
                                 /\ draft[f].status = "superseded" => draft'[f].status = "superseded"
  <2>1. d # e /\ draft[e].status = "absent" /\ draft[d].status = "ready_for_action"
    BY <1>2 DEF SupersedeReady
  <2>2. /\ draft'[d].status = "superseded" /\ draft'[d].follows = draft[d].follows
        /\ draft'[e].status = "ready_for_action" /\ draft'[e].follows = d
        /\ \A f \in Draft \ {d, e} : draft'[f] = draft[f]
    BY <1>0, <1>2, <2>1 DEF SupersedeReady, DraftRow
  <2>3. \A f \in Draft : draft[f].follows # e
    BY <2>1 DEF Inv, DraftInv
  <2>4. DraftInv'
    BY <2>1, <2>2, <2>3 DEF Inv, DraftInv
  <2> QED
    BY <2>1, <2>2, <2>4 DEF Adopted
<1> QED
  BY <1>1, <1>2 DEF Superseding

(* What has begun stays so.                                                *)
LEMMA BegunStays ==
    ASSUME TypeInv, AdoptedInv, [Next]_vars, NEW w \in Action, Begun(w)
    PROVE  Begun(w)'
<1>0. /\ action \in [Action -> ActionRow] /\ action[w] \in ActionRow
      /\ "executing" \in ActionStatus /\ Final \subseteq ActionStatus
  BY DEF TypeInv, TablesOK, ActionStatus
<1>1. CASE UNCHANGED action
  BY <1>1 DEF Begun
<1>2. ASSUME NEW p \in Caller, InsertAction(p) \/ Link(p) \/ Settle(p) \/ Claim(p) \/ Finish(p)
      PROVE  Begun(w)'
  <2>1. loc[p].act \in Action
    BY <1>2 DEF InsertAction, Link, Settle, Claim, Finish, TypeInv, CommandsOK, LocalsOK
  <2>2. CASE loc[p].act # w
    BY <1>0, <1>2, <2>1, <2>2 DEF InsertAction, Link, Settle, Claim, Finish, SetStatus, Begun
  <2>3. CASE loc[p].act = w
    <3>1. CASE InsertAction(p) \/ Link(p) \/ Settle(p) \/ Claim(p)
      BY <1>1, <2>3, <3>1 DEF InsertAction, Link, Settle, Claim, Row, Begun, Final
    <3>2. CASE Finish(p)
      <4>1. loc[p].goal \in Final
        BY <3>2 DEF Finish, AdoptedInv
      <4>2. CASE SetStatus(p, loc[p].goal)
        <5>1. PICK s \in ActionStatus : s = loc[p].goal
          BY <1>0, <4>1
        <5>2. action' = [action EXCEPT ![w] = [action[w] EXCEPT !.status = s]]
          BY <2>1, <2>3, <4>2, <5>1, RowUpdate DEF TypeInv
        <5>3. action'[w].status = s
          BY <1>0, <5>2 DEF ActionRow
        <5> QED
          BY <4>1, <5>1, <5>3 DEF Begun
      <4> QED
        BY <1>1, <3>2, <4>2 DEF Finish
    <3> QED
      BY <1>2, <3>1, <3>2
  <2> QED
    BY <2>2, <2>3
<1> QED
  BY <1>1, <1>2
  DEF Next, Proceed, Command, Die, MarkReady, Revise, Prepare, CreateDispatch,
      FindApproval, Generic, Observe, Check, Recheck, Write, Report, OpenDraft,
      Request, ApproveCommand, RejectCommand, ExecuteCall, CancelDispatch, ReachDeadline,
      DraftsOnly, NoRows, RecordsOnly, vars


(* One step and one command: what its claim, its second check and its      *)
(* report rest on.                                                         *)
Stage(p, l) ==
    /\ l.at = "rechecking" => action'[l.act].status = "executing"
    /\ l.at = "writing" =>
          loc[p].at = "rechecking" /\ l.act = loc[p].act /\ Current(action[l.act].draft)
    /\ l.at = "finishing" => l.goal \in Final

LEMMA StageStep ==
    ASSUME TypeInv, [Next]_vars, NEW q \in Caller
    PROVE  loc'[q] = loc[q] \/ Stage(q, loc'[q])
<1> DEFINE Goal == loc'[q] = loc[q] \/ Stage(q, loc'[q])
           Staged == {"rechecking", "writing", "finishing"}
<1>0. loc \in [Caller -> Locals]
  BY DEF TypeInv, CommandsOK
<1>1. ASSUME NEW p \in Caller, NEW l, Goto(p, l), Stage(p, l)
      PROVE  Goal
  BY <1>0, <1>1 DEF Goto
<1>2. CASE UNCHANGED loc
  BY <1>2
<1>3. ASSUME NEW p \in Caller, NEW l, Goto(p, l), l.at \notin Staged
      PROVE  Goal
  <2>1. Stage(p, l)
    BY <1>3 DEF Stage
  <2> QED
    BY <1>1, <1>3, <2>1
<1>4. ASSUME NEW p \in Caller, Return(p)
      PROVE  Goal
  BY <1>3, <1>4, IdleOK DEF Return
<1>5. ASSUME NEW p \in Caller, NEW place \in Place \ Staged, Goto(p, At(p, place))
      PROVE  Goal
  <2>1. At(p, place).at = place
    BY <1>0 DEF At, Locals
  <2> QED
    BY <1>3, <1>5, <2>1
<1>6. ASSUME NEW p \in Caller, NEW s \in Final, Goto(p, [At(p, "finishing") EXCEPT !.goal = s])
      PROVE  Goal
  <2> DEFINE l == [At(p, "finishing") EXCEPT !.goal = s]
  <2>1. l.at = "finishing" /\ l.goal = s
    BY <1>0 DEF At, Locals
  <2>2. Stage(p, l)
    BY <2>1 DEF Stage
  <2> QED
    BY <1>1, <1>6, <2>2
<1>7. ASSUME NEW p \in Caller, NEW s, Observed(p, s)
      PROVE  Goal
  BY <1>4, <1>5, <1>7 DEF Observed, Return, Place
<1>8. ASSUME NEW p \in Caller, MarkReady(p) \/ Revise(p) \/ Die(p) \/ Link(p) \/ Finish(p)
      PROVE  Goal
  BY <1>4, <1>8 DEF MarkReady, Revise, Die, Link, Finish
<1>9. ASSUME NEW p \in Caller, InsertAction(p) \/ CreateDispatch(p) \/ Generic(p)
      PROVE  Goal
  BY <1>2, <1>4, <1>5, <1>9 DEF InsertAction, CreateDispatch, Generic, Place
<1>10. ASSUME NEW p \in Caller, NEW place \in Place \ Staged, NEW b,
              \/ Goto(p, [At(p, place) EXCEPT !.ref = b])
              \/ Goto(p, [At(p, place) EXCEPT !.goal = b])
       PROVE  Goal
  <2>1. /\ [At(p, place) EXCEPT !.ref = b].at = place
        /\ [At(p, place) EXCEPT !.goal = b].at = place
    BY <1>0 DEF At, Locals
  <2> QED
    BY <1>3, <1>10, <2>1
<1>11. ASSUME NEW p \in Caller, FindApproval(p) \/ Observe(p) \/ Settle(p)
       PROVE  Goal
  BY <1>4, <1>7, <1>10, <1>11 DEF FindApproval, Observe, Settle, Place
<1>12. ASSUME NEW p \in Caller, Check(p)
       PROVE  Goal
  BY <1>5, <1>6, <1>12 DEF Check, Place, Final
<1>13. ASSUME NEW p \in Caller, Claim(p)
       PROVE  Goal
  <2>1. loc[p].act \in Action /\ action \in [Action -> ActionRow]
    BY <1>13 DEF Claim, TypeInv, CommandsOK, LocalsOK, TablesOK
  <2>2. CASE Row(p).status = "approved"
    <3>1. action'[loc[p].act].status = "executing"
      BY <1>13, <2>1, <2>2 DEF Claim, SetStatus, ActionRow
    <3>2. At(p, "rechecking").at = "rechecking" /\ At(p, "rechecking").act = loc[p].act
      BY <1>0 DEF At, Locals
    <3>3. Stage(p, At(p, "rechecking"))
      BY <3>1, <3>2 DEF Stage
    <3> QED
      BY <1>1, <1>13, <2>2, <3>3 DEF Claim
  <2> QED
    BY <1>4, <1>13, <2>2 DEF Claim
<1>14. ASSUME NEW p \in Caller, Recheck(p)
       PROVE  Goal
  <2>1. CASE Current(Row(p).draft) /\ Goto(p, At(p, "writing"))
    <3>1. At(p, "writing").at = "writing" /\ At(p, "writing").act = loc[p].act
      BY <1>0 DEF At, Locals
    <3>2. Stage(p, At(p, "writing"))
      BY <1>14, <2>1, <3>1 DEF Stage, Recheck, Row
    <3> QED
      BY <1>1, <2>1, <3>2
  <2> QED
    BY <1>6, <1>14, <2>1 DEF Recheck, Final
<1>15. ASSUME NEW p \in Caller, Write(p)
       PROVE  Goal
  <2>1. \A o \in Reports : o[1] \in Final
    BY DEF Reports, Final
  <2> QED
    BY <1>6, <1>15, <2>1 DEF Write, Report
<1>16. ASSUME NEW p \in Caller, NEW d \in Draft, OpenDraft(p, d)
       PROVE  Goal
  <2>1. PICK place \in {"readying", "revising"} : Goto(p, [Idle EXCEPT !.at = place, !.draft = d])
    BY <1>16 DEF OpenDraft
  <2>2. [Idle EXCEPT !.at = place, !.draft = d].at = place
    BY DEF Idle
  <2> QED
    BY <1>3, <2>1, <2>2
<1>17. ASSUME NEW w, NEW d
       PROVE  /\ [Idle EXCEPT !.at = "inserting", !.act = w, !.draft = d].at = "inserting"
              /\ [Idle EXCEPT !.at = "observing", !.act = w, !.executes = TRUE].at = "observing"
              /\ [Idle EXCEPT !.at = "observing", !.act = w].at = "observing"
              /\ [Idle EXCEPT !.at = "generic", !.act = w].at = "generic"
  BY DEF Idle
<1>18. ASSUME NEW p \in Caller, NEW w \in Action, NEW d \in Draft, Request(p, w, d)
       PROVE  Goal
  BY <1>3, <1>17, <1>18 DEF Request
<1>19. ASSUME NEW p \in Caller, NEW b \in ApprovalId, ApproveCommand(p, b) \/ RejectCommand(p, b)
       PROVE  Goal
  BY <1>2, <1>3, <1>17, <1>19 DEF ApproveCommand, RejectCommand
<1>20. ASSUME NEW p \in Caller, NEW w \in Action, ExecuteCall(p, w)
       PROVE  Goal
  BY <1>3, <1>17, <1>20 DEF ExecuteCall
<1>21. Goal
  BY <1>2, <1>8, <1>9, <1>11, <1>12, <1>13, <1>14, <1>15, <1>16, <1>18, <1>19, <1>20
  DEF Next, Proceed, Command, Prepare, CancelDispatch, ReachDeadline, vars
<1> QED
  BY <1>21


(* Google is called by a command that came to "writing", and by no other.  *)
LEMMA WritesStep ==
    ASSUME TypeInv, [Next]_vars, NEW w \in Action
    PROVE  writes'[w] = writes[w] \/ \E p \in Caller : loc[p].at = "writing" /\ loc[p].act = w
<1>1. CASE UNCHANGED writes
  BY <1>1
<1>2. ASSUME NEW p \in Caller, Write(p)
      PROVE  writes'[w] = writes[w] \/ (loc[p].at = "writing" /\ loc[p].act = w)
  <2>1. writes \in [Action -> Nat] /\ loc[p].act \in Action
    BY <1>2 DEF TypeInv, TablesOK, CommandsOK, LocalsOK, Write, Report
  <2> QED
    BY <1>2, <2>1 DEF Write, Report
<1> QED
  BY <1>1, <1>2
  DEF Next, Proceed, Command, Die, MarkReady, Revise, Prepare, InsertAction, CreateDispatch,
      FindApproval, Link, Generic, Observe, Settle, Check, Claim, Recheck, Finish, OpenDraft,
      Request, ApproveCommand, RejectCommand, ExecuteCall, CancelDispatch, ReachDeadline,
      DraftsOnly, ActionOnly, NoRows, RecordsOnly, GoogleIdle, vars

LEMMA AdoptedInvStep == Inv /\ [Next]_vars => AdoptedInv'
<1> SUFFICES ASSUME Inv, [Next]_vars PROVE AdoptedInv'
  OBVIOUS
<1>0. TypeInv /\ AdoptedInv /\ CommandsOK /\ CommandsOK'
  BY CommandsStep DEF Inv, TypeInv
<1>1. \A d \in Draft : draft[d].status \in Adopted => draft'[d].status \in Adopted
  BY DraftFate
<1>2. \A w \in Action : \/ action'[w] = action[w]
                        \/ Inserted(w)
                        \/ /\ action[w].status # "absent" /\ action'[w].status # "absent"
                           /\ action'[w].draft = action[w].draft
  BY <1>0, RowStep DEF AdoptedInv
<1>3. \A w \in Action : action[w].status # "absent" => action'[w].status # "absent"
  BY <1>2 DEF Inserted
<1>4. \A p \in Caller : /\ loc'[p] = loc[p] \/ Relies(p, loc'[p])
                        /\ loc'[p] = loc[p] \/ Stage(p, loc'[p])
  BY <1>0, LocalStep, StageStep
<1>5. PastOK'
  <2> SUFFICES ASSUME NEW p \in Caller, loc'[p].at \in Past
               PROVE  action'[loc'[p].act].status # "absent"
    BY DEF PastOK
  <2>1. loc'[p].act \in Action
    BY <1>0 DEF CommandsOK, LocalsOK, Past
  <2>2. action[loc'[p].act].status # "absent"
    BY <1>0, <1>4, <2>1 DEF AdoptedInv, PastOK, Relies
  <2> QED
    BY <1>3, <2>1, <2>2
<1>6. ASSUME NEW p \in Caller, loc'[p].at = "inserting"
      PROVE  draft'[loc'[p].draft].status \in Adopted
  <2>1. loc'[p].draft \in Draft
    BY <1>0, <1>6 DEF CommandsOK, LocalsOK
  <2>2. draft[loc'[p].draft].status \in Adopted
    BY <1>0, <1>4, <1>6 DEF AdoptedInv, Relies, Adopted
  <2> QED
    BY <1>1, <2>1, <2>2
<1>7. ASSUME NEW p \in Caller, loc'[p].at \in {"rechecking", "writing"}
      PROVE  action'[loc'[p].act].status \in Final \cup {"executing"}
  <2>1. loc'[p].act \in Action
    BY <1>0, <1>7 DEF CommandsOK, LocalsOK
  <2>2. CASE Begun(loc'[p].act)
    <3> SUFFICES ASSUME NEW w \in Action, Begun(w)
                 PROVE  action'[w].status \in Final \cup {"executing"}
      BY <2>1, <2>2
    <3> QED
      BY <1>0, BegunStays DEF Begun
  <2>3. CASE ~Begun(loc'[p].act)
    <3>1. loc'[p].at = "rechecking" /\ loc'[p] # loc[p]
      <4>1. ASSUME NEW q \in Caller, loc[q].at \in {"rechecking", "writing"}
            PROVE  Begun(loc[q].act)
        BY <1>0, <4>1 DEF AdoptedInv
      <4> QED
        BY <1>4, <1>7, <2>3, <4>1 DEF Stage
    <3>2. action'[loc'[p].act].status = "executing"
      BY <1>4, <3>1 DEF Stage
    <3> QED
      BY <3>2 DEF Begun
  <2> QED
    BY <2>2, <2>3
<1>8. ASSUME NEW p \in Caller, loc'[p].at = "finishing"
      PROVE  loc'[p].goal \in Final
  BY <1>0, <1>4, <1>8 DEF AdoptedInv, Stage
<1>9. ASSUME NEW w \in Action
      PROVE  IF action'[w].status = "absent"
             THEN action'[w].approval = NoApproval
             ELSE action'[w].draft \in Draft /\ draft'[action'[w].draft].status \in Adopted
  <2>1. CASE Inserted(w)
    <3>1. PICK p \in Caller :
             /\ loc[p].at = "inserting"
             /\ action'[w] = [status |-> "prepared", draft |-> loc[p].draft, approval |-> NoApproval]
      BY <2>1 DEF Inserted
    <3>2. loc[p].draft \in Draft /\ draft[loc[p].draft].status \in Adopted
      BY <1>0, <3>1 DEF AdoptedInv, CommandsOK, LocalsOK
    <3> QED
      BY <1>1, <3>1, <3>2
  <2>2. CASE ~Inserted(w)
    BY <1>0, <1>1, <1>2, <2>2 DEF AdoptedInv
  <2> QED
    BY <2>1, <2>2
<1>10. ASSUME NEW w \in Action, ~Begun(w)'
       PROVE  writes'[w] = 0
  <2>1. ~Begun(w)
    BY <1>0, <1>10, BegunStays
  <2> QED
    BY <1>0, <2>1, WritesStep DEF AdoptedInv
<1> QED
  BY <1>5, <1>6, <1>7, <1>8, <1>9, <1>10 DEF AdoptedInv, Begun

(* The step that no code path takes touches nothing but drafts.            *)
LEMMA SupersedingStep == Inv /\ Superseding => TypeInv' /\ AdoptedInv'
<1> SUFFICES ASSUME Inv, NEW d \in Draft, NEW e \in Draft, SupersedeReady(d, e)
             PROVE  TypeInv' /\ AdoptedInv'
  BY DEF Superseding
<1>1. UNCHANGED <<loc, action, writes, documents>> /\ UNCHANGED dispatchVars
  BY DEF SupersedeReady, DraftsOnly, GoogleIdle, DispatchIdle
<1>2. draft' \in [Draft -> DraftRow]
  <2>1. [status |-> "ready_for_action", follows |-> d] \in DraftRow
    BY DEF DraftRow
  <2>2. draft \in [Draft -> DraftRow]
    BY DEF Inv, TypeInv, TablesOK
  <2> QED
    BY <2>1, <2>2 DEF SupersedeReady, DraftRow
<1>3. P!TypeInv'
  <2>1. [P!Next]_(P!vars)
    BY <1>1 DEF dispatchVars, P!vars
  <2> QED
    BY <2>1, DispatchAssumed, P!TypeInvStep DEF Inv, TypeInv
<1>4. TypeInv'
  BY <1>1, <1>2, <1>3 DEF Inv, TypeInv, CommandsOK, TablesOK
<1>5. \A f \in Draft : draft[f].status \in Adopted => draft'[f].status \in Adopted
  BY DraftFate DEF Superseding
<1>6. \A p \in Caller : loc[p].at = "inserting" => loc[p].draft \in Draft
  BY DEF Inv, TypeInv, CommandsOK, LocalsOK
<1>7. AdoptedInv'
  BY <1>1, <1>5, <1>6 DEF Inv, AdoptedInv, PastOK, Begun
<1> QED
  BY <1>4, <1>7

LEMMA InvStep == Inv /\ [Next \/ Superseding]_vars => Inv'
<1> SUFFICES ASSUME Inv, [Next]_vars \/ Superseding PROVE Inv'
  OBVIOUS
<1>1. DraftInv'
  BY DraftFate
<1>2. CASE [Next]_vars
  BY <1>1, <1>2, CommandsStep, TablesStep, DispatchTypes, AdoptedInvStep DEF Inv, TypeInv
<1>3. CASE Superseding
  BY <1>1, <1>3, SupersedingStep DEF Inv
<1> QED
  BY <1>2, <1>3

(* What a superseded draft does to its action: it is not written, and no   *)
(* command is about to write it.                                           *)
Doomed(w) ==
    /\ action[w].status # "absent"
    /\ draft[action[w].draft].status = "superseded"
    /\ writes[w] = 0
    /\ \A p \in Caller : loc[p].at = "writing" => loc[p].act # w

LEMMA SupersededIsDoomed ==
    ASSUME Inv, NEW w \in Action, Superseded(w)
    PROVE  Doomed(w)
<1>1. action[w].status # "absent" /\ ~Begun(w)
  BY DEF Superseded, Open, Begun, Final
<1>2. action[w].draft \in Draft /\ draft[action[w].draft].status \in Adopted
  BY <1>1 DEF Inv, AdoptedInv
<1>3. draft[action[w].draft].status = "superseded"
  BY <1>2 DEF Superseded, Current, Adopted, Inv, DraftInv
<1> QED
  BY <1>1, <1>3 DEF Inv, AdoptedInv, Doomed

LEMMA DoomedStays ==
    ASSUME Inv, [Next \/ Superseding]_vars, NEW w \in Action, Doomed(w)
    PROVE  Doomed(w)'
<1>1. action[w].status # "absent" /\ action[w].draft \in Draft
  BY DEF Doomed, Inv, AdoptedInv
<1>2. draft'[action[w].draft].status = "superseded"
  BY <1>1, DraftFate DEF Doomed
<1>3. CASE [Next]_vars
  <2>1. TypeInv /\ PastOK
    BY DEF Inv, AdoptedInv
  <2>2. action'[w].status # "absent" /\ action'[w].draft = action[w].draft
    BY <1>1, <1>3, <2>1, RowStep DEF Inserted
  <2>3. writes'[w] = 0
    BY <1>3, <2>1, WritesStep DEF Doomed
  <2>4. \A p \in Caller : loc'[p].at = "writing" => loc'[p].act # w
    <3> SUFFICES ASSUME NEW p \in Caller, loc'[p].at = "writing", loc'[p].act = w PROVE FALSE
      OBVIOUS
    <3>1. loc'[p] = loc[p] \/ Stage(p, loc'[p])
      BY <1>3, <2>1, StageStep
    <3>2. ~Current(action[w].draft)
      BY DEF Current, Doomed
    <3> QED
      BY <3>1, <3>2 DEF Stage, Doomed
  <2> QED
    BY <1>2, <2>2, <2>3, <2>4 DEF Doomed
<1>4. CASE Superseding
  BY <1>2, <1>4 DEF Doomed, Superseding, SupersedeReady, DraftsOnly, GoogleIdle
<1> QED
  BY <1>3, <1>4

(* A draft that is superseded before its write was claimed is not written, *)
(* even when ready drafts are superseded and a caller had found this one   *)
(* current.                                                                *)
THEOREM SupersededIsNeverWritten == Init /\ [][Next \/ Superseding]_vars => SupersededNeverWritten
<1> SUFFICES ASSUME NEW w \in Action
             PROVE  Init /\ [][Next \/ Superseding]_vars => [](Superseded(w) => [](writes[w] = 0))
  BY DEF SupersededNeverWritten
<1>1. Inv /\ Superseded(w) => Doomed(w)
  BY SupersededIsDoomed
<1>2. Inv /\ Doomed(w) /\ [Next \/ Superseding]_vars => Doomed(w)'
  BY DoomedStays
<1>3. Doomed(w) => writes[w] = 0
  BY DEF Doomed
<1> QED
  BY <1>1, <1>2, <1>3, InvInit, InvStep, PTL
=============================================================================
