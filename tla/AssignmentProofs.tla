-------------------------- MODULE AssignmentProofs --------------------------
(***************************************************************************)
(* What is proved about Assignment for every set of assignments, actors,   *)
(* approvals and callers: progress is backed by a dispatch that was tried  *)
(* or put before the owner, and work is done once per request for it.      *)
(***************************************************************************)
EXTENDS Assignment, TLAPS, FiniteSetTheorems

(* The same instance of Dispatch as D, with what is proved about it.       *)
P == INSTANCE DispatchProofs WITH
        Key <- Assignment, NoKey <- NoAssignment, Requests <- Asks, NoRequest <- NoAsk,
        Syncs <- 0, Crashes <- TRUE

(* What DispatchAssumption says of this instance.                          *)
LEMMA DispatchAssumed ==
    /\ NoAssignment \notin Assignment
    /\ NoAsk \notin Asks
    /\ \A r \in Asks : r.gated \in BOOLEAN /\ r.registered \in BOOLEAN /\ r.max \in 1..10
    /\ 0 \in Nat
    /\ TRUE \in BOOLEAN
BY AssignmentAssumption DEF Asks, RequestOf, Work

LEMMA SameInit == D!Init <=> P!Init
BY DEF D!Init, P!Init, D!Idle, P!Idle

LEMMA SameNext == D!Next <=> P!Next
BY DEF D!Next, D!Proceed, D!Enter, D!Decide, D!LookUp, D!Insert, D!InsertLost, D!ReadForDispatch,
       D!ReadForRetry, D!Claim, D!MarkRunning, D!Swap, D!BeginAttempt, D!Execute, D!Finish, D!Crash,
       D!Cancel, D!Synchronize, D!RequestApproval, D!Approve, D!ApproveTooLate, D!Reject,
       D!ExpireOrClose, D!ReachDeadline, D!rows, D!Idle, D!Open, D!Fresh, D!InsertApproval, D!Return,
       D!Transitions, D!Pending, D!Resolve, D!Move, D!Outcomes, D!Closed, D!Retryable, D!Startable,
       D!DispatchStatus, D!Busy,
       P!Next, P!Proceed, P!Enter, P!Decide, P!LookUp, P!Insert, P!InsertLost, P!ReadForDispatch,
       P!ReadForRetry, P!Claim, P!MarkRunning, P!Swap, P!BeginAttempt, P!Execute, P!Finish, P!Crash,
       P!Cancel, P!Synchronize, P!RequestApproval, P!Approve, P!ApproveTooLate, P!Reject,
       P!ExpireOrClose, P!ReachDeadline, P!rows, P!Idle, P!Open, P!Fresh, P!InsertApproval, P!Return,
       P!Transitions, P!Pending, P!Resolve, P!Move, P!Outcomes, P!Closed, P!Retryable, P!Startable,
       P!DispatchStatus, P!Busy

-----------------------------------------------------------------------------
(* The locals of a method.                                                 *)
LocalsOK(l) ==
    /\ l \in Locals
    /\ l.at # "idle" => l.as \in Assignment
    /\ l.at \in {"creating", "inserting", "asking"} => l.ask \in Asks
    /\ l.at = "swapping" => l.goal \in Transitions[l.seen] \ {"in_progress", "reassigned"}
    /\ l.at = "replacing" => "reassigned" \in Transitions[l.seen]

MethodsOK == loc \in [Caller -> Locals] /\ \A p \in Caller : LocalsOK(loc[p])

RowsOK == row \in [Assignment -> Row]

RetriesOK == retries \in [Assignment -> Nat]

TypeInv == MethodsOK /\ RowsOK /\ RetriesOK /\ P!TypeInv /\ P!FlightInv

LEMMA IdleOK == LocalsOK(Idle) /\ Idle.at = "idle"
BY DEF LocalsOK, Idle, Locals, Place, AssignmentStatus

LEMMA Legal ==
    /\ \A s \in AssignmentStatus : Transitions[s] \subseteq AssignmentStatus \ {"absent", "proposed"}
    /\ \A s \in AssignmentStatus : Transitions[s] # {} => s \in {"proposed", "accepted", "in_progress"}
    /\ \A s \in AssignmentStatus : "completed" \in Transitions[s] => s = "in_progress"
    /\ \A s \in AssignmentStatus : "reassigned" \in Transitions[s] => s \in {"accepted", "in_progress"}
BY DEF Transitions, AssignmentStatus, Ended

LEMMA Goes ==
    ASSUME MethodsOK, NEW p \in Caller, NEW l, LocalsOK(l), Goto(p, l)
    PROVE  MethodsOK'
BY DEF MethodsOK, LocalsOK, Goto

LEMMA Leaves ==
    ASSUME MethodsOK, NEW p \in Caller, Return(p)
    PROVE  MethodsOK'
BY IdleOK, Goes DEF Return

(* Whatever a step does, it is a step of Dispatch or leaves it alone.      *)
LEMMA DispatchStep ==
    ASSUME TypeInv, [Next]_vars
    PROVE  [D!Next]_dispatchVars
<1> USE DEF D!Next, D!Proceed, D!Enter, D!Decide
<1>0. \A p \in Caller : /\ loc[p].at # "idle" => loc[p].as \in Assignment
                        /\ loc[p].at \in {"creating", "inserting", "asking"} => loc[p].ask \in Asks
  BY DEF TypeInv, MethodsOK, LocalsOK
<1>1. ASSUME NEW p \in Caller, Create(p)
      PROVE  [D!Next]_dispatchVars
  <2>1. loc[p].as \in Assignment /\ loc[p].ask \in Asks
    BY <1>0, <1>1 DEF Create
  <2> QED
    BY <1>1, <2>1 DEF Create, DispatchIdle
<1>2. ASSUME NEW p \in Caller, InsertDispatch(p)
      PROVE  D!Next
  BY <1>2 DEF InsertDispatch
<1>3. ASSUME NEW p \in Caller, AskApproval(p)
      PROVE  [D!Next]_dispatchVars
  <2>1. loc[p].as \in Assignment
    BY <1>0, <1>3 DEF AskApproval
  <2> QED
    BY <1>3, <2>1 DEF AskApproval, DispatchIdle
<1>4. ASSUME NEW p \in Caller, StartDispatch(p)
      PROVE  [D!Next]_dispatchVars
  <2>1. loc[p].as \in Assignment
    BY <1>0, <1>4 DEF StartDispatch
  <2> QED
    BY <1>4, <2>1 DEF StartDispatch, DispatchIdle
<1>5. ASSUME NEW p \in Caller, RunDispatch(p)
      PROVE  D!Next
  BY <1>5 DEF RunDispatch
<1>6. ASSUME NEW a \in ApprovalId, RejectCommand(a) \/ \E p \in Caller : ApproveCommand(p, a)
      PROVE  D!Next
  BY <1>6 DEF RejectCommand, ApproveCommand
<1>7. ASSUME NEW i \in Assignment, CancelDispatch(i)
      PROVE  D!Next
  BY <1>7 DEF CancelDispatch
<1>8. ASSUME NEW p \in Caller, Die(p)
      PROVE  [D!Next]_dispatchVars
  BY <1>8 DEF Die, DispatchIdle
<1>9. CASE DispatchIdle
  BY <1>9 DEF DispatchIdle
<1>10. ASSUME NEW p \in Caller, NEW i \in Assignment, RetryCommand(p, i)
       PROVE  D!Next
  BY <1>10 DEF RetryCommand
<1> QED
  BY <1>1, <1>2, <1>3, <1>4, <1>5, <1>6, <1>7, <1>8, <1>9, <1>10
  DEF Next, Proceed, Propose, Ask, Swap, OpenReassign, Replace, Start, Link, DispatchIdle, vars

LEMMA DispatchTypes ==
    ASSUME TypeInv, [Next]_vars
    PROVE  [P!Next]_(P!vars) /\ P!TypeInv' /\ P!FlightInv'
<1>1. [P!Next]_(P!vars)
  BY DispatchStep, SameNext DEF dispatchVars, P!vars
<1>2. P!TypeInv'
  BY <1>1, DispatchAssumed, P!TypeInvStep DEF TypeInv
<1>3. P!FlightInv'
  BY <1>1, DispatchAssumed, P!FlightInvStep DEF TypeInv
<1> QED
  BY <1>1, <1>2, <1>3

(* Retries are only ever added.                                            *)
LEMMA RetriesStep ==
    ASSUME TypeInv, [Next]_vars
    PROVE  RetriesOK' /\ \A i \in Assignment : retries'[i] >= retries[i]
<1> USE DEF TypeInv, RetriesOK
<1>1. CASE UNCHANGED retries
  BY <1>1
<1>2. ASSUME NEW p \in Caller, RunDispatch(p)
      PROVE  RetriesOK' /\ \A i \in Assignment : retries'[i] >= retries[i]
  <2>1. loc[p].as \in Assignment
    BY <1>2 DEF RunDispatch, MethodsOK, LocalsOK
  <2>2. UNCHANGED retries \/ retries' = [retries EXCEPT ![loc[p].as] = @ + 1]
    BY <1>2 DEF RunDispatch, CountRetry
  <2> QED
    BY <1>1, <2>1, <2>2
<1> QED
  BY <1>1, <1>2
  DEF Next, Proceed, Propose, Ask, OpenReassign, Start, Swap, Replace, Create, InsertDispatch,
      AskApproval, StartDispatch, Link, Die, ApproveCommand, RetryCommand, RejectCommand,
      CancelDispatch, DispatchIdle, vars

LEMMA MethodsStep == TypeInv /\ [Next]_vars => MethodsOK'
<1> SUFFICES ASSUME TypeInv, [Next]_vars PROVE MethodsOK'
  OBVIOUS
<1> USE DEF TypeInv
<1>0. \A p \in Caller : LocalsOK(loc[p])
  BY DEF MethodsOK
<1>1. ASSUME NEW p \in Caller, NEW place \in {"inserting", "asking"},
             loc[p].at \in {"creating", "inserting"}, Goto(p, At(p, place))
      PROVE  MethodsOK'
  <2>1. LocalsOK(At(p, place))
    BY <1>0, <1>1 DEF LocalsOK, At, Locals, Place
  <2> QED
    BY <1>1, <2>1, Goes
<1>2. ASSUME NEW p \in Caller, NEW place \in {"starting", "dispatching", "linking"},
             loc[p].at # "idle", Goto(p, At(p, place))
      PROVE  MethodsOK'
  <2>1. LocalsOK(At(p, place))
    BY <1>0, <1>2 DEF LocalsOK, At, Locals, Place
  <2> QED
    BY <1>2, <2>1, Goes
<1>3. ASSUME NEW p \in Caller, loc[p].at \in {"creating", "inserting"}, Created(p)
      PROVE  MethodsOK'
  BY <1>1, <1>2, <1>3 DEF Created
<1>4. ASSUME NEW p \in Caller, Swap(p) \/ Replace(p) \/ Link(p) \/ Die(p)
      PROVE  MethodsOK'
  BY <1>4, Leaves DEF Swap, Replace, Link, Die
<1>5. ASSUME NEW p \in Caller, Create(p) \/ InsertDispatch(p)
      PROVE  MethodsOK'
  BY <1>1, <1>3, <1>5, Leaves DEF Create, InsertDispatch
<1>6. CASE UNCHANGED loc
  BY <1>6 DEF MethodsOK
<1>7. ASSUME NEW p \in Caller, AskApproval(p) \/ StartDispatch(p) \/ RunDispatch(p)
      PROVE  MethodsOK'
  BY <1>2, <1>6, <1>7, Leaves DEF AskApproval, StartDispatch, RunDispatch
<1>8. ASSUME NEW i \in Assignment
      PROVE  row[i].status \in AssignmentStatus /\ row[i].work \in Work
  BY DEF RowsOK, Row
<1>9. ASSUME NEW p \in Caller, NEW i \in Assignment, NEW goal, Ask(p, i, goal)
      PROVE  MethodsOK'
  <2>1. goal \in AssignmentStatus
    BY <1>8, <1>9, Legal DEF Ask
  <2>2. LocalsOK([Idle EXCEPT !.at = "swapping", !.as = i, !.seen = row[i].status, !.goal = goal])
    BY <1>8, <1>9, <2>1, IdleOK DEF Ask, LocalsOK, Locals, Place, Idle
  <2> QED
    BY <1>9, <2>2, Goes DEF Ask
<1>10. ASSUME NEW p \in Caller, NEW i \in Assignment, OpenReassign(p, i)
       PROVE  MethodsOK'
  <2>1. LocalsOK([Idle EXCEPT !.at = "replacing", !.as = i, !.seen = row[i].status])
    BY <1>8, <1>10, IdleOK DEF OpenReassign, LocalsOK, Locals, Place, Idle
  <2> QED
    BY <1>10, <2>1, Goes DEF OpenReassign
<1>11. ASSUME NEW p \in Caller, NEW i \in Assignment, NEW o \in Actor, Start(p, i, o)
       PROVE  MethodsOK'
  <2>1. RequestOf(row[i].work, o) \in Asks
    BY <1>8 DEF Asks
  <2>2. LocalsOK([Idle EXCEPT !.at = "creating", !.as = i, !.ask = RequestOf(row[i].work, o),
                              !.starts = TRUE])
    BY <2>1, IdleOK DEF LocalsOK, Locals, Place, Idle
  <2> QED
    BY <1>11, <2>2, Goes DEF Start
<1>12. ASSUME NEW p \in Caller, NEW a \in ApprovalId, ApproveCommand(p, a)
       PROVE  MethodsOK'
  <2>1. approval[a].key \in Assignment
    BY <1>12 DEF ApproveCommand, D!Approve, D!Pending, P!TypeInv, P!ApprovalsOK
  <2>2. LocalsOK([Idle EXCEPT !.at = "starting", !.as = approval[a].key])
    BY <2>1, IdleOK DEF LocalsOK, Locals, Place, Idle
  <2> QED
    BY <1>12, <2>2, Goes DEF ApproveCommand
<1>13. ASSUME NEW p \in Caller, NEW i \in Assignment, RetryCommand(p, i)
       PROVE  MethodsOK'
  <2>1. LocalsOK([Idle EXCEPT !.at = "dispatching", !.as = i])
    BY IdleOK DEF LocalsOK, Locals, Place, Idle
  <2> QED
    BY <1>13, <2>1, Goes DEF RetryCommand
<1> QED
  BY <1>4, <1>5, <1>6, <1>7, <1>9, <1>10, <1>11, <1>12, <1>13
  DEF Next, Proceed, Propose, RejectCommand, CancelDispatch, vars

-----------------------------------------------------------------------------
(* What one step makes of one row.                                         *)
Becomes(i, r) ==
    \/ /\ row[i] = Absent /\ r.status = "proposed" /\ ~r.linked
       /\ \/ r.replaces = NoAssignment
          \/ \E p \in Caller : Replace(p) /\ r.replaces = loc[p].as
    \/ /\ r.work = row[i].work /\ r.replaces = row[i].replaces
       /\ \/ /\ r.status \in Transitions[row[i].status] \ {"in_progress", "reassigned"}
             /\ r.linked = row[i].linked
          \/ /\ "reassigned" \in Transitions[row[i].status]
             /\ r.status = "reassigned" /\ r.linked = row[i].linked
             /\ \E p \in Caller, j \in Assignment \ {i} :
                   Replace(p) /\ loc[p].as = i /\ row[j] = Absent /\ row'[j].replaces = i
          \/ /\ row[i].status = "accepted" /\ r.status = "in_progress" /\ r.linked
             /\ \E p \in Caller : loc[p].at = "linking" /\ loc[p].as = i

Stays(i) == row'[i] = row[i]

LEMMA ReplaceStep ==
    ASSUME TypeInv, NEW p \in Caller, Replace(p), row' # row
    PROVE  \E j \in Assignment, w \in Work :
              LET i == loc[p].as
              IN  /\ i \in Assignment /\ j # i /\ row[j] = Absent
                  /\ "reassigned" \in Transitions[row[i].status]
                  /\ row' = [row EXCEPT ![i] = [row[i] EXCEPT !.status = "reassigned"],
                                        ![j] = Replacement(i, w)]
<1> DEFINE i == loc[p].as
<1>1. i \in Assignment /\ "reassigned" \in Transitions[loc[p].seen] /\ loc[p].seen \in AssignmentStatus
  BY DEF Replace, TypeInv, MethodsOK, LocalsOK, Locals
<1>2. PICK j \in Assignment, w \in Work :
         /\ row[i].status = loc[p].seen /\ row[j] = Absent
         /\ row' = [row EXCEPT ![i].status = "reassigned", ![j] = Replacement(i, w)]
  BY DEF Replace
<1>3. j # i
  <2>1. Absent.status = "absent"
    BY DEF Absent
  <2> QED
    BY <1>1, <1>2, <2>1, Legal
<1>4. row' = [row EXCEPT ![i] = [row[i] EXCEPT !.status = "reassigned"], ![j] = Replacement(i, w)]
  BY <1>2, <1>3 DEF TypeInv, RowsOK
<1> QED
  BY <1>1, <1>2, <1>3, <1>4

LEMMA RowStep ==
    ASSUME TypeInv, [Next]_vars, NEW i \in Assignment
    PROVE  /\ row' \in [Assignment -> Row]
           /\ Stays(i) \/ Becomes(i, row'[i])
<1> DEFINE Goal == row' \in [Assignment -> Row] /\ (Stays(i) \/ Becomes(i, row'[i]))
<1>0. row \in [Assignment -> Row]
  BY DEF TypeInv, RowsOK
<1>1. CASE UNCHANGED row
  BY <1>0, <1>1 DEF Stays
<1>2. ASSUME NEW w \in Work
      PROVE  /\ [Absent EXCEPT !.status = "proposed", !.work = w] \in Row
             /\ \A j \in Assignment : Replacement(j, w) \in Row
  BY DEF Absent, Row, Replacement, AssignmentStatus
<1>3. ASSUME NEW j \in Assignment, NEW w \in Work, Propose(j, w)
      PROVE  Goal
  <2> DEFINE r == [Absent EXCEPT !.status = "proposed", !.work = w]
  <2>1. row' = [row EXCEPT ![j] = r] /\ row[j] = Absent
    BY <1>3 DEF Propose
  <2>2. r.status = "proposed" /\ r.linked = FALSE /\ r.replaces = NoAssignment
    BY DEF Absent
  <2>3. row' \in [Assignment -> Row]
    BY <1>0, <1>2, <2>1
  <2>4. CASE j = i
    <3>1. row'[i] = r
      BY <1>0, <2>1, <2>4
    <3> QED
      BY <2>1, <2>2, <2>3, <2>4, <3>1 DEF Becomes
  <2>5. CASE j # i
    BY <1>0, <2>1, <2>3, <2>5 DEF Stays
  <2> QED
    BY <2>4, <2>5
<1>4. ASSUME NEW p \in Caller, Swap(p)
      PROVE  Goal
  <2> DEFINE k == loc[p].as
             r == [row[k] EXCEPT !.status = loc[p].goal]
  <2>1. /\ k \in Assignment /\ loc[p].goal \in Transitions[loc[p].seen] \ {"in_progress", "reassigned"}
        /\ loc[p].goal \in AssignmentStatus
    BY <1>4 DEF Swap, TypeInv, MethodsOK, LocalsOK, Locals
  <2>2. CASE row[k].status = loc[p].seen
    <3>1. row[k] \in Row
      BY <1>0, <2>1
    <3>2. row' = [row EXCEPT ![k] = r]
      BY <1>0, <1>4, <2>2 DEF Swap
    <3>3. /\ r \in Row /\ r.status = loc[p].goal /\ r.linked = row[k].linked
          /\ r.work = row[k].work /\ r.replaces = row[k].replaces
      BY <2>1, <3>1 DEF Row
    <3>4. row' \in [Assignment -> Row]
      BY <1>0, <3>2, <3>3
    <3>5. CASE k = i
      <4>1. row'[i] = r
        BY <1>0, <3>2, <3>5
      <4> QED
        BY <2>1, <2>2, <3>3, <3>4, <3>5, <4>1 DEF Becomes
    <3>6. CASE k # i
      BY <1>0, <3>2, <3>4, <3>6 DEF Stays
    <3> QED
      BY <3>5, <3>6
  <2>3. CASE row[k].status # loc[p].seen
    BY <1>1, <1>4, <2>3 DEF Swap
  <2> QED
    BY <2>2, <2>3
<1>5. ASSUME NEW p \in Caller, Replace(p), row' # row
      PROVE  Goal
  <2> DEFINE k == loc[p].as
             r == [row[k] EXCEPT !.status = "reassigned"]
  <2>1. PICK j \in Assignment, w \in Work :
           /\ k \in Assignment /\ j # k /\ row[j] = Absent
           /\ "reassigned" \in Transitions[row[k].status]
           /\ row' = [row EXCEPT ![k] = r, ![j] = Replacement(k, w)]
    BY <1>5, ReplaceStep
  <2>2. row[k] \in Row
    BY <1>0, <2>1
  <2>3. /\ r \in Row /\ r.status = "reassigned" /\ r.linked = row[k].linked
        /\ r.work = row[k].work /\ r.replaces = row[k].replaces
    BY <2>2 DEF Row, AssignmentStatus, Ended
  <2>4. /\ Replacement(k, w).status = "proposed" /\ Replacement(k, w).linked = FALSE
        /\ Replacement(k, w).replaces = k
    BY DEF Replacement, Absent
  <2>5. row' \in [Assignment -> Row]
    BY <1>0, <1>2, <2>1, <2>3
  <2>6. /\ row'[k] = r /\ row'[j] = Replacement(k, w)
        /\ \A x \in Assignment \ {k, j} : row'[x] = row[x]
    BY <1>0, <2>1
  <2>7. CASE i = k
    BY <1>5, <2>1, <2>3, <2>4, <2>5, <2>6, <2>7 DEF Becomes
  <2>8. CASE i = j
    BY <1>5, <2>1, <2>4, <2>5, <2>6, <2>8 DEF Becomes
  <2>9. CASE i \notin {k, j}
    BY <2>5, <2>6, <2>9 DEF Stays
  <2> QED
    BY <2>7, <2>8, <2>9
<1>6. ASSUME NEW p \in Caller, Link(p)
      PROVE  Goal
  <2> DEFINE k == loc[p].as
             r == [row[k] EXCEPT !.status = "in_progress", !.linked = TRUE]
  <2>1. k \in Assignment /\ loc[p].at = "linking"
    BY <1>6 DEF Link, TypeInv, MethodsOK, LocalsOK
  <2>2. CASE row[k].status = "accepted" /\ ~row[k].linked
    <3>1. row[k] \in Row
      BY <1>0, <2>1
    <3>2. row' = [row EXCEPT ![k] = r]
      BY <1>0, <1>6, <2>2 DEF Link
    <3>3. /\ r \in Row /\ r.status = "in_progress" /\ r.linked
          /\ r.work = row[k].work /\ r.replaces = row[k].replaces
      BY <3>1 DEF Row, AssignmentStatus
    <3>4. row' \in [Assignment -> Row]
      BY <1>0, <3>2, <3>3
    <3>5. CASE k = i
      <4>1. row'[i] = r
        BY <1>0, <3>2, <3>5
      <4> QED
        BY <2>1, <2>2, <3>3, <3>4, <3>5, <4>1 DEF Becomes
    <3>6. CASE k # i
      BY <1>0, <3>2, <3>4, <3>6 DEF Stays
    <3> QED
      BY <3>5, <3>6
  <2>3. CASE ~(row[k].status = "accepted" /\ ~row[k].linked)
    BY <1>1, <1>6, <2>3 DEF Link
  <2> QED
    BY <2>2, <2>3
<1> QED
  BY <1>1, <1>3, <1>4, <1>5, <1>6
  DEF Next, Proceed, Ask, OpenReassign, Start, Create, InsertDispatch, AskApproval, StartDispatch,
      RunDispatch, ApproveCommand, RetryCommand, RejectCommand, CancelDispatch, Die, vars

LEMMA RowsStep == TypeInv /\ [Next]_vars => RowsOK'
<1> SUFFICES ASSUME TypeInv, [Next]_vars PROVE RowsOK'
  OBVIOUS
<1>1. CASE Assignment = {}
  <2>1. ~ \E i \in Assignment : TRUE
    BY <1>1
  <2>2. UNCHANGED row
    BY <2>1 DEF Next, Proceed, Swap, Replace, Link, TypeInv, MethodsOK, LocalsOK, Create,
      InsertDispatch, AskApproval, StartDispatch, RunDispatch, ApproveCommand, RejectCommand, Die, vars
  <2> QED
    BY <2>2 DEF TypeInv, RowsOK
<1>2. ASSUME NEW i \in Assignment
      PROVE  RowsOK'
  BY RowStep DEF RowsOK
<1> QED
  BY <1>1, <1>2

LEMMA TypeInvInit == Init => TypeInv
<1> SUFFICES ASSUME Init PROVE TypeInv
  OBVIOUS
<1>1. MethodsOK
  BY IdleOK DEF Init, MethodsOK, LocalsOK
<1>2. Absent \in Row
  BY DEF Absent, Row, AssignmentStatus, Work
<1>3. RowsOK
  BY <1>2 DEF Init, RowsOK
<1>4. P!TypeInv /\ P!FlightInv
  BY SameInit, DispatchAssumed, P!TypeInvInit, P!FlightInvInit DEF Init
<1>5. RetriesOK
  BY DEF Init, RetriesOK
<1> QED
  BY <1>1, <1>3, <1>4, <1>5 DEF TypeInv

LEMMA TypeInvAlways == Spec => []TypeInv
<1>1. TypeInv /\ [Next]_vars => TypeInv'
  BY MethodsStep, RowsStep, RetriesStep, DispatchTypes DEF TypeInv
<1> QED
  BY <1>1, TypeInvInit, PTL DEF Spec

(* Every reachable state is well typed.                                    *)
THEOREM Typing == Spec => []TypeOK
<1>1. TypeInv => D!TypeOK
  BY DispatchAssumed, P!TypeInvImpliesTypeOK
  DEF TypeInv, P!TypeOK, D!TypeOK, P!DispatchStatus, D!DispatchStatus, P!Outcomes, D!Outcomes,
      P!ApprovalStatus, D!ApprovalStatus, P!Deadline, D!Deadline, P!CallRecord, D!CallRecord,
      P!CallStep, D!CallStep, P!Startable, D!Startable, P!Busy, D!Busy, P!Closed, D!Closed
<1>2. TypeInv => TypeOK
  BY <1>1 DEF TypeInv, TypeOK, MethodsOK, RowsOK, RetriesOK
<1> QED
  BY <1>2, TypeInvAlways, PTL

(* Every behaviour of the assignments is, in the tables of the dispatch, a *)
(* behaviour of Dispatch: the methods never touch them behind its back.    *)
THEOREM DispatchesAreDispatch == Spec => D!Init /\ [][D!Next]_dispatchVars
<1>1. TypeInv /\ [Next]_vars => [D!Next]_dispatchVars
  BY DispatchStep
<1>2. Init => D!Init
  BY DEF Init
<1> QED
  BY <1>1, <1>2, TypeInvAlways, PTL DEF Spec

(* Whichever of start, retry and the commands on approvals moves it: two   *)
(* callers never run one dispatch at once, a gated one runs only on an     *)
(* approval, and a dispatch shows the outcome of its last attempt.         *)
THEOREM DispatchKeepsItsPromises ==
    Spec => [](D!OneCallInFlight /\ D!ExecutionNeedsApproval /\ D!OutcomeIsRecorded)
<1>1. TypeInv /\ P!GateInv /\ P!RecordInv /\ [Next]_vars => P!GateInv' /\ P!RecordInv'
  <2> SUFFICES ASSUME TypeInv, P!GateInv, P!RecordInv, [Next]_vars
               PROVE  P!GateInv' /\ P!RecordInv'
    OBVIOUS
  <2>1. P!TypeInv /\ P!FlightInv /\ [P!Next]_(P!vars)
    BY DispatchTypes DEF TypeInv
  <2> QED
    BY <2>1, DispatchAssumed, P!GateInvStep, P!RecordInvStep
<1>2. Init => P!GateInv /\ P!RecordInv
  BY SameInit, DispatchAssumed, P!GateInvInit, P!RecordInvInit DEF Init
<1>3. TypeInv => D!OneCallInFlight
  BY DEF TypeInv, P!FlightInv, P!OneCallInFlight, P!InFlight, D!OneCallInFlight, D!InFlight
<1>4. P!GateInv => D!ExecutionNeedsApproval
  BY DEF P!GateInv, P!Cleared, P!Granted, D!ExecutionNeedsApproval, D!Gated, D!Granted
<1>5. P!RecordInv => D!OutcomeIsRecorded
  BY DEF P!RecordInv, P!OutcomeIsRecorded, P!Outcomes, D!OutcomeIsRecorded, D!Outcomes
<1> QED
  BY <1>1, <1>2, <1>3, <1>4, <1>5, TypeInvAlways, PTL DEF Spec

-----------------------------------------------------------------------------
(* A call of the dispatch service belongs to the method that made it, and  *)
(* calls the agent of a row that was never run, or for a retry that no     *)
(* call of the agent was made for yet. start_execution makes no retries.   *)
Fits(p) ==
    \/ call[p] = P!Idle
    \/ loc[p].at = "inserting" /\ call[p].at = "creating" /\ call[p].key = loc[p].as
    \/ /\ loc[p].at = "dispatching" /\ call[p].at \notin {"idle", "creating"}
       /\ call[p].key = loc[p].as /\ (loc[p].starts => call[p].retry = FALSE)

Unspent(k, retry) == IF retry THEN executions[k] <= retries[k] ELSE executions[k] = 0

Entitled(p) ==
    /\ call[p].at = "starting" => call[p].retry \/ call[p].seen \in P!Startable
    /\ call[p].at \in {"claimed", "numbering", "executing"} => Unspent(call[p].key, call[p].retry)
    /\ call[p].at = "finishing" => call[p].retry \/ executions[call[p].key] > 0

RunOnce(i) ==
    /\ executions[i] <= 1 + retries[i]
    /\ executions[i] > 0 => status[i] \notin P!Early

CallInv ==
    /\ \A p \in Caller : Fits(p) /\ Entitled(p)
    /\ \A i \in Assignment : RunOnce(i)

LEMMA IdleCalls == P!Idle = D!Idle /\ P!Idle.at = "idle" /\ P!Idle.retry = FALSE
BY DEF P!Idle, D!Idle

LEMMA CallInvInit == Init => CallInv
<1> SUFFICES ASSUME Init PROVE CallInv
  OBVIOUS
<1>1. \A p \in Caller : call[p] = P!Idle
  BY IdleCalls DEF Init, D!Init
<1>2. \A i \in Assignment : executions[i] = 0 /\ retries[i] = 0
  BY DEF Init, D!Init
<1> QED
  BY <1>1, <1>2, IdleCalls DEF CallInv, Fits, Entitled, RunOnce

(* A row that was run has left the states before the work for good.        *)
LEMMA RunStays ==
    ASSUME TypeInv, [Next]_vars, NEW i \in Assignment, RunOnce(i), executions'[i] = executions[i]
    PROVE  RunOnce(i)'
<1>1. [P!Next]_(P!vars)
  BY DispatchTypes
<1>2. status[i] \in P!DispatchStatus /\ P!Legal(status[i], status'[i])
  BY <1>1, DispatchAssumed, P!StatusMoves DEF TypeInv, P!TypeInv, P!DispatchesOK
<1>3. \A s \in P!DispatchStatus : \A t : P!Legal(s, t) /\ s \notin P!Early => t \notin P!Early
  BY DEF P!Legal, P!Early, P!Transitions, P!DispatchStatus, P!Startable, P!Retryable, P!Outcomes,
         P!Closed, P!Busy
<1>4. /\ executions[i] \in Nat /\ retries[i] \in Nat /\ retries'[i] \in Nat
      /\ retries'[i] >= retries[i]
  BY RetriesStep DEF TypeInv, RetriesOK, P!TypeInv, P!HistoryOK
<1> QED
  BY <1>2, <1>3, <1>4 DEF RunOnce

(* Retries and steps that enter no agent of his leave a caller entitled.   *)
LEMMA EntitledStays ==
    ASSUME TypeInv, [Next]_vars, NEW p \in Caller, Entitled(p), call'[p] = call[p],
           call[p].at \in P!InFlightStep => executions'[call[p].key] = executions[call[p].key]
    PROVE  Entitled(p)'
<1>1. CASE call[p].at \in P!InFlightStep
  <2>1. PICK k \in Assignment : k = call[p].key
    BY <1>1 DEF TypeInv, P!TypeInv, P!CallsOK, P!CallOK, P!InFlightStep
  <2>2. /\ executions[k] \in Nat /\ retries[k] \in Nat /\ retries'[k] \in Nat
        /\ retries'[k] >= retries[k]
    BY RetriesStep DEF TypeInv, RetriesOK, P!TypeInv, P!HistoryOK
  <2>3. Unspent(k, call[p].retry) => Unspent(k, call[p].retry)'
    BY <1>1, <2>1, <2>2 DEF Unspent
  <2> QED
    BY <1>1, <2>1, <2>3 DEF Entitled, Unspent, P!InFlightStep
<1>2. CASE call[p].at \notin P!InFlightStep
  BY <1>2 DEF Entitled, P!InFlightStep
<1> QED
  BY <1>1, <1>2

(* Steps that enter no agent: what p's call becomes decides.               *)
LEMMA CallUpdate ==
    ASSUME TypeInv, CallInv, [Next]_vars, UNCHANGED executions,
           NEW p \in Caller, NEW l, NEW c,
           loc' = [loc EXCEPT ![p] = l], call' = [call EXCEPT ![p] = c],
           Fits(p)', Entitled(p)'
    PROVE  CallInv'
<1>1. loc \in [Caller -> Locals] /\ call \in [Caller -> P!CallRecord]
  BY DEF TypeInv, MethodsOK, P!TypeInv, P!CallsOK
<1>2. ASSUME NEW q \in Caller \ {p}
      PROVE  Fits(q)' /\ Entitled(q)'
  <2>1. call'[q] = call[q] /\ loc'[q] = loc[q]
    BY <1>1
  <2>2. Fits(q) /\ Entitled(q)
    BY DEF CallInv
  <2>3. Entitled(q)'
    BY <2>1, <2>2, EntitledStays
  <2> QED
    BY <2>1, <2>2, <2>3 DEF Fits
<1>3. \A i \in Assignment : RunOnce(i)'
  BY RunStays DEF CallInv
<1> QED
  BY <1>2, <1>3 DEF CallInv

LEMMA CallEnds ==
    ASSUME TypeInv, CallInv, [Next]_vars, UNCHANGED executions,
           NEW p \in Caller, NEW l, Goto(p, l), call' = [call EXCEPT ![p] = P!Idle]
    PROVE  CallInv'
<1>1. call'[p] = P!Idle
  BY DEF TypeInv, P!TypeInv, P!CallsOK
<1>2. Fits(p)' /\ Entitled(p)'
  BY <1>1, IdleCalls DEF Fits, Entitled
<1> QED
  BY <1>2, CallUpdate DEF Goto

(* A method that has no call under way may go anywhere.                    *)
LEMMA CallsStay ==
    ASSUME TypeInv, CallInv, [Next]_vars, UNCHANGED <<call, executions>>,
           \/ UNCHANGED loc
           \/ \E p \in Caller : /\ loc[p].at \notin {"inserting", "dispatching"}
                                /\ \E l : Goto(p, l)
    PROVE  CallInv'
<1>1. loc \in [Caller -> Locals] /\ call \in [Caller -> P!CallRecord]
  BY DEF TypeInv, MethodsOK, P!TypeInv, P!CallsOK
<1>2. \A q \in Caller : Entitled(q)'
  BY EntitledStays DEF CallInv
<1>3. \A q \in Caller : Fits(q)'
  BY <1>1 DEF CallInv, Fits, Goto
<1>4. \A i \in Assignment : RunOnce(i)'
  BY RunStays DEF CallInv
<1> QED
  BY <1>2, <1>3, <1>4 DEF CallInv

(* dispatch() and retry_dispatch() of an assignment's row, step by step.   *)
LEMMA RunStep ==
    ASSUME TypeInv, CallInv, [Next]_vars, NEW p \in Caller, RunDispatch(p)
    PROVE  CallInv'
<1> DEFINE k == loc[p].as
           c == call[p]
<1>0. /\ loc \in [Caller -> Locals] /\ call \in [Caller -> P!CallRecord]
      /\ k \in Assignment /\ loc[p].at = "dispatching"
      /\ Fits(p) /\ Entitled(p) /\ RunOnce(k)
  BY DEF RunDispatch, TypeInv, MethodsOK, LocalsOK, P!TypeInv, P!CallsOK, CallInv
<1>row. PICK i \in Assignment, again \in BOOLEAN : i = k /\ again = c.retry
  BY <1>0 DEF P!CallRecord
<1>types. executions \in [Assignment -> Nat] /\ retries \in [Assignment -> Nat]
  BY DEF TypeInv, RetriesOK, P!TypeInv, P!HistoryOK
<1>grows. retries' \in [Assignment -> Nat] /\ retries'[k] >= retries[k]
  BY <1>0, RetriesStep DEF RetriesOK
<1>1. UNCHANGED loc \/ \E l : Goto(p, l)
  BY DEF RunDispatch, Return
<1>2. ASSUME UNCHANGED executions, call' = [call EXCEPT ![p] = P!Idle]
      PROVE  CallInv'
  <2>1. CASE UNCHANGED loc
    <3>1. loc' = [loc EXCEPT ![p] = loc[p]]
      BY <1>0, <2>1
    <3> QED
      BY <1>2, <3>1, CallEnds DEF Goto
  <2> QED
    BY <1>1, <1>2, <2>1, CallEnds
<1>3. ASSUME UNCHANGED executions, NEW d \in P!CallRecord, call' = [call EXCEPT ![p] = d],
             d # P!Idle, d.key = c.key, d.retry = c.retry, c.at # "idle",
             \/ d.at \in {"claimed", "numbering", "executing"} /\ Unspent(i, again)'
             \/ d.at = "finishing" /\ c.retry = TRUE
      PROVE  CallInv'
  <2>1. call'[p] = d
    BY <1>0, <1>3
  <2>2. UNCHANGED loc
    BY <1>3, <2>1, IdleCalls DEF RunDispatch
  <2>3. c.key = k /\ (loc[p].starts => c.retry = FALSE)
    BY <1>0, <1>3, IdleCalls DEF Fits
  <2>4. Fits(p)'
    BY <1>0, <1>3, <2>1, <2>2, <2>3 DEF Fits
  <2>5. Entitled(p)'
    BY <1>row, <1>3, <2>1, <2>3 DEF Entitled, Unspent
  <2>6. loc' = [loc EXCEPT ![p] = loc[p]]
    BY <1>0, <2>2
  <2> QED
    BY <1>3, <2>4, <2>5, <2>6, CallUpdate
<1>key. c.at # "idle" => c.key = k
  BY <1>0, IdleCalls DEF Fits
<1>unspent. c.at \in {"claimed", "numbering", "executing"} => Unspent(i, again)
  BY <1>0, <1>key, <1>row DEF Entitled
<1>kept. UNCHANGED executions /\ Unspent(i, again) => Unspent(i, again)'
  <2>1. executions[i] \in Nat /\ retries[i] \in Nat /\ retries'[i] \in Nat /\ retries'[i] >= retries[i]
    BY <1>types, <1>grows, <1>row
  <2> QED
    BY <2>1 DEF Unspent
<1>4. CASE D!Claim(p)
  <2>1. c.at = "starting" /\ c.key = k /\ UNCHANGED executions
    BY <1>key, <1>4 DEF D!Claim, D!Swap
  <2>2. CASE call' = [call EXCEPT ![p].at = "claimed"] /\ status[k] = c.seen
    <3> DEFINE d == [c EXCEPT !.at = "claimed"]
    <3>1. d \in P!CallRecord /\ d.at = "claimed" /\ d.key = c.key /\ d.retry = c.retry
      BY <1>0 DEF P!CallRecord, P!CallStep
    <3>2. call' = [call EXCEPT ![p] = d]
      BY <1>0, <2>2
    <3>3. c.retry = FALSE => executions[k] = 0
      BY <1>0, <1>types, <2>1, <2>2 DEF Entitled, RunOnce, P!Early
    <3>4. c.retry = TRUE => executions[k] <= retries'[k]
      <4>1. c.retry = TRUE => retries'[k] = retries[k] + 1
        <5>1. call'[p].at = "claimed"
          BY <1>0, <3>1, <3>2
        <5> QED
          BY <1>0, <1>types, <2>1, <5>1 DEF RunDispatch, CountRetry
      <4>2. executions[k] <= 1 + retries[k]
        BY <1>0 DEF RunOnce
      <4> QED
        BY <1>0, <1>types, <4>1, <4>2
    <3>5. Unspent(i, again)'
      BY <1>row, <2>1, <3>3, <3>4 DEF Unspent
    <3> HIDE DEF d
    <3> QED
      BY <1>3, <2>1, <3>1, <3>2, <3>5, IdleCalls
  <2>3. CASE D!Return(p)
    BY <1>2, <2>1, <2>3, IdleCalls DEF D!Return
  <2> QED
    BY <1>4, <2>1, <2>2, <2>3 DEF D!Claim, D!Swap
<1>5. CASE D!MarkRunning(p)
  <2>1. c.at = "claimed" /\ c.key = k /\ UNCHANGED executions /\ Unspent(i, again)'
    BY <1>key, <1>unspent, <1>kept, <1>5 DEF D!MarkRunning, D!Swap
  <2>2. CASE call' = [call EXCEPT ![p].at = "numbering"]
    <3> DEFINE d == [c EXCEPT !.at = "numbering"]
    <3>1. d \in P!CallRecord /\ d.at = "numbering" /\ d.key = c.key /\ d.retry = c.retry
      BY <1>0 DEF P!CallRecord, P!CallStep
    <3>2. call' = [call EXCEPT ![p] = d]
      BY <1>0, <2>2
    <3> HIDE DEF d
    <3> QED
      BY <1>3, <2>1, <3>1, <3>2, IdleCalls
  <2>3. CASE D!Return(p)
    BY <1>2, <2>1, <2>3, IdleCalls DEF D!Return
  <2> QED
    BY <1>5, <2>2, <2>3 DEF D!MarkRunning, D!Swap
<1>6. CASE D!BeginAttempt(p)
  <2>1. c.at = "numbering" /\ c.key = k /\ UNCHANGED executions /\ Unspent(i, again)'
    BY <1>key, <1>unspent, <1>kept, <1>6 DEF D!BeginAttempt
  <2>2. ASSUME NEW n \in Int, call' = [call EXCEPT ![p].at = "executing", ![p].attempt = n]
        PROVE  CallInv'
    <3> DEFINE d == [c EXCEPT !.at = "executing", !.attempt = n]
    <3>1. d \in P!CallRecord /\ d.at = "executing" /\ d.key = c.key /\ d.retry = c.retry
      BY <1>0 DEF P!CallRecord, P!CallStep
    <3>2. call' = [call EXCEPT ![p] = d]
      BY <1>0, <2>2
    <3> HIDE DEF d
    <3> QED
      BY <1>3, <2>1, <3>1, <3>2, IdleCalls
  <2>3. Len(attempts[k]) + 1 \in Int
    <3>1. attempts[k] \in Seq({"running"} \cup P!Outcomes)
      BY <1>0 DEF TypeInv, P!TypeInv, P!HistoryOK
    <3> QED
      BY <3>1
  <2>4. CASE call' = [call EXCEPT ![p].at = "executing", ![p].attempt = Len(attempts[k]) + 1]
    BY <2>2, <2>3, <2>4
  <2>5. CASE call' = [call EXCEPT ![p].at = "executing", ![p].attempt = -1]
    <3>1. -1 \in Int
      OBVIOUS
    <3> DEFINE m == -1
    <3>2. m \in Int /\ call' = [call EXCEPT ![p].at = "executing", ![p].attempt = m]
      BY <2>5, <3>1
    <3> HIDE DEF m
    <3> QED
      BY <2>2, <3>2
  <2>6. CASE D!Return(p)
    BY <1>2, <2>1, <2>6, IdleCalls DEF D!Return
  <2> QED
    BY <1>6, <2>1, <2>4, <2>5, <2>6 DEF D!BeginAttempt
<1>7. CASE D!Execute(p)
  <2>1. c.at = "executing" /\ c.key = k /\ Unspent(i, again)
    BY <1>key, <1>unspent, <1>7 DEF D!Execute
  <2>2. CASE D!Return(p) /\ UNCHANGED executions
    BY <1>2, <2>2, IdleCalls DEF D!Return
  <2>3. ASSUME NEW o \in P!Outcomes, executions' = [executions EXCEPT ![k] = @ + 1],
               call' = [call EXCEPT ![p].at = "finishing", ![p].outcome = o]
        PROVE  CallInv'
    <3> DEFINE d == [c EXCEPT !.at = "finishing", !.outcome = o]
    <3>1. d.at = "finishing" /\ d.key = c.key /\ d.retry = c.retry
      BY <1>0 DEF P!CallRecord
    <3>2. call'[p] = d /\ \A q \in Caller \ {p} : call'[q] = call[q]
      BY <1>0, <2>3
    <3>3. UNCHANGED loc
      BY <3>1, <3>2, IdleCalls DEF RunDispatch
    <3>4. /\ executions'[k] = executions[k] + 1 /\ executions'[k] > 0
          /\ \A j \in Assignment \ {k} : executions'[j] = executions[j]
      BY <1>0, <1>types, <2>3
    <3>5. ASSUME NEW q \in Caller, q # p, call[q].at \in P!InFlightStep
          PROVE  call[q].key # k
      <4>1. p \in P!InFlight(k) /\ (call[q].key = k => q \in P!InFlight(k))
        BY <2>1, <3>5 DEF P!InFlight, P!InFlightStep
      <4>2. \A x, y \in P!InFlight(k) : x = y
        BY <1>0 DEF TypeInv, P!FlightInv, P!OneCallInFlight
      <4> QED
        BY <3>5, <4>1, <4>2
    <3>6. ASSUME NEW q \in Caller
          PROVE  Fits(q)' /\ Entitled(q)'
      <4>1. CASE q = p
        <5>1. call'[q].at = "finishing" /\ call'[q].key = k /\ call'[q].retry = call[p].retry
          BY <2>1, <3>1, <3>2, <4>1
        <5>2. loc'[q] = loc[p] /\ loc[p].at = "dispatching"
          BY <1>0, <3>3, <4>1
        <5>3. loc[p].starts => call[p].retry = FALSE
          BY <1>0, <2>1, IdleCalls DEF Fits
        <5>4. Fits(q)'
          BY <5>1, <5>2, <5>3 DEF Fits
        <5> QED
          BY <3>4, <5>1, <5>4 DEF Entitled
      <4>2. CASE q # p
        <5>1. call[q].at # "idle" => call[q].key \in Assignment
          BY DEF TypeInv, P!TypeInv, P!CallsOK, P!CallOK
        <5>2. Fits(q) /\ Entitled(q) /\ call'[q] = call[q]
          BY <3>2, <4>2 DEF CallInv
        <5>3. call[q].at \in P!InFlightStep => executions'[call[q].key] = executions[call[q].key]
          BY <3>4, <3>5, <4>2, <5>1 DEF P!InFlightStep
        <5>4. Entitled(q)'
          BY <5>2, <5>3, EntitledStays
        <5> QED
          BY <3>3, <5>2, <5>4 DEF Fits
      <4> QED
        BY <4>1, <4>2
    <3>7. status[k] \notin P!Early /\ UNCHANGED status
      <4>1. status[k] \in P!Closed \cup {"running"}
        BY <2>1 DEF TypeInv, P!FlightInv, P!InFlightStep
      <4> QED
        BY <1>7, <4>1 DEF P!Closed, P!Early, P!Startable, D!Execute, D!rows
    <3>8. executions'[k] <= 1 + retries'[k]
      <4>1. executions[k] \in Nat /\ retries[k] \in Nat /\ retries'[k] \in Nat
        BY <1>0, <1>types, <1>grows
      <4>2. executions[k] <= retries[k]
        BY <1>row, <2>1, <4>1 DEF Unspent
      <4> QED
        BY <1>grows, <3>4, <4>1, <4>2
    <3>9. ASSUME NEW j \in Assignment
          PROVE  RunOnce(j)'
      <4>1. CASE j = k
        BY <3>7, <3>8, <4>1 DEF RunOnce
      <4>2. CASE j # k
        BY <3>4, <4>2, RunStays DEF CallInv
      <4> QED
        BY <4>1, <4>2
    <3> QED
      BY <3>6, <3>9 DEF CallInv
  <2>4. CASE c.retry /\ UNCHANGED executions
             /\ call' = [call EXCEPT ![p].at = "finishing", ![p].outcome = "failed"]
    <3> DEFINE d == [c EXCEPT !.at = "finishing", !.outcome = "failed"]
    <3>1. d \in P!CallRecord /\ d.at = "finishing" /\ d.key = c.key /\ d.retry = c.retry
      BY <1>0 DEF P!CallRecord, P!CallStep, P!Outcomes
    <3>2. call' = [call EXCEPT ![p] = d] /\ c.retry = TRUE
      BY <1>0, <2>4 DEF P!CallRecord
    <3> HIDE DEF d
    <3> QED
      BY <1>3, <2>1, <2>4, <3>1, <3>2, IdleCalls
  <2> QED
    BY <1>7, <2>1, <2>2, <2>3, <2>4 DEF D!Execute, D!Outcomes, P!Outcomes
<1>8. CASE D!Finish(p)
  BY <1>2, <1>8, IdleCalls DEF D!Finish, D!Return
<1> QED
  BY <1>4, <1>5, <1>6, <1>7, <1>8 DEF RunDispatch

LEMMA CallInvStep == TypeInv /\ CallInv /\ [Next]_vars => CallInv'
<1> SUFFICES ASSUME TypeInv, CallInv, [Next]_vars PROVE CallInv'
  OBVIOUS
<1>0. loc \in [Caller -> Locals] /\ call \in [Caller -> P!CallRecord]
  BY DEF TypeInv, MethodsOK, P!TypeInv, P!CallsOK
<1>1. ASSUME NEW p \in Caller, NEW d, NEW l, UNCHANGED executions, Goto(p, l),
             call' = [call EXCEPT ![p] = d], d.key = l.as,
             \/ l.at = "inserting" /\ d.at = "creating"
             \/ /\ l.at = "dispatching" /\ d.at = "starting"
                /\ \/ d.retry = FALSE /\ d.seen \in P!Startable
                   \/ d.retry = TRUE /\ l.starts = FALSE
      PROVE  CallInv'
  <2>1. call'[p] = d /\ loc'[p] = l /\ loc' = [loc EXCEPT ![p] = l]
    BY <1>0, <1>1 DEF Goto
  <2>2. Fits(p)' /\ Entitled(p)'
    BY <1>1, <2>1 DEF Fits, Entitled
  <2> QED
    BY <1>1, <2>1, <2>2, CallUpdate
<1>2. ASSUME NEW p \in Caller, Create(p)
      PROVE  CallInv'
  <2> DEFINE k == loc[p].as
             d == [D!Idle EXCEPT !.at = "creating", !.key = k, !.ask = loc[p].ask]
             l == At(p, "inserting")
  <2>1. CASE D!LookUp(p, k, loc[p].ask) /\ Goto(p, l)
    <3>1. d.at = "creating" /\ d.key = k /\ d.retry = FALSE
      BY DEF D!Idle
    <3>2. l.at = "inserting" /\ l.as = k
      BY <1>0 DEF At, Locals
    <3>3. call' = [call EXCEPT ![p] = d] /\ UNCHANGED executions
      BY <2>1 DEF D!LookUp
    <3> HIDE DEF d, l
    <3> QED
      BY <1>1, <2>1, <3>1, <3>2, <3>3
  <2>2. CASE (Created(p) \/ Return(p)) /\ DispatchIdle
    <3>1. loc[p].at \notin {"inserting", "dispatching"} /\ UNCHANGED <<call, executions>>
      BY <1>2, <2>2 DEF Create, DispatchIdle, dispatchVars
    <3>2. \E x : Goto(p, x)
      BY <2>2 DEF Created, Return
    <3> QED
      BY <3>1, <3>2, CallsStay
  <2> QED
    BY <1>2, <2>1, <2>2 DEF Create
<1>3. ASSUME NEW p \in Caller, InsertDispatch(p)
      PROVE  CallInv'
  <2>1. call' = [call EXCEPT ![p] = P!Idle] /\ UNCHANGED executions
    BY <1>3, IdleCalls DEF InsertDispatch, D!Insert, D!InsertLost, D!Return
  <2>2. \E x : Goto(p, x)
    BY <1>3 DEF InsertDispatch, Created, Return
  <2> QED
    BY <2>1, <2>2, CallEnds
<1>4. ASSUME NEW p \in Caller, StartDispatch(p)
      PROVE  CallInv'
  <2> DEFINE k == loc[p].as
             d == [D!Idle EXCEPT !.at = "starting", !.key = k, !.seen = status[k]]
             l == At(p, "dispatching")
  <2>1. CASE D!ReadForDispatch(p, k) /\ Goto(p, l)
    <3>1. d.at = "starting" /\ d.key = k /\ d.retry = FALSE /\ d.seen = status[k]
      BY DEF D!Idle
    <3>2. l.at = "dispatching" /\ l.as = k
      BY <1>0 DEF At, Locals
    <3>3. call' = [call EXCEPT ![p] = d] /\ UNCHANGED executions /\ status[k] \in P!Startable
      BY <2>1 DEF D!ReadForDispatch, D!Startable, P!Startable
    <3> HIDE DEF d, l
    <3> QED
      BY <1>1, <2>1, <3>1, <3>2, <3>3
  <2>2. CASE Return(p) /\ DispatchIdle
    <3>1. loc[p].at \notin {"inserting", "dispatching"} /\ UNCHANGED <<call, executions>>
      BY <1>4, <2>2 DEF StartDispatch, DispatchIdle, dispatchVars
    <3>2. \E x : Goto(p, x)
      BY <2>2 DEF Return
    <3> QED
      BY <3>1, <3>2, CallsStay
  <2> QED
    BY <1>4, <2>1, <2>2 DEF StartDispatch
<1>5. ASSUME NEW p \in Caller, Die(p)
      PROVE  CallInv'
  <2>1. UNCHANGED executions /\ call' = [call EXCEPT ![p] = P!Idle]
    BY <1>0, <1>5, IdleCalls DEF Die, DispatchIdle, dispatchVars, D!Crash, D!Return
  <2> QED
    BY <1>5, <2>1, CallEnds DEF Die, Return
<1>6. ASSUME NEW p \in Caller, Swap(p) \/ Replace(p) \/ AskApproval(p) \/ Link(p)
      PROVE  CallInv'
  <2>1. loc[p].at \notin {"inserting", "dispatching"} /\ \E x : Goto(p, x)
    BY <1>6 DEF Swap, Replace, AskApproval, Link, Return
  <2>2. UNCHANGED <<call, executions>>
    BY <1>6 DEF Swap, Replace, AskApproval, Link, DispatchIdle, dispatchVars, D!RequestApproval
  <2> QED
    BY <2>1, <2>2, CallsStay
<1>7. ASSUME NEW p \in Caller, loc[p] = Idle, UNCHANGED <<call, executions>>, \E x : Goto(p, x)
      PROVE  CallInv'
  BY <1>7, IdleOK, CallsStay
<1>8. ASSUME NEW p \in Caller, NEW i \in Assignment, OpenReassign(p, i) \/ (\E goal : Ask(p, i, goal))
                                                     \/ (\E o \in Actor : Start(p, i, o))
      PROVE  CallInv'
  BY <1>7, <1>8 DEF OpenReassign, Ask, Start, DispatchIdle, dispatchVars
<1>9. ASSUME NEW p \in Caller, NEW a \in ApprovalId, ApproveCommand(p, a)
      PROVE  CallInv'
  BY <1>7, <1>9 DEF ApproveCommand, D!Approve
<1>10. CASE UNCHANGED <<loc, call, executions>>
  BY <1>10, CallsStay
<1>11. ASSUME NEW p \in Caller, NEW i \in Assignment, RetryCommand(p, i)
       PROVE  CallInv'
  <2> DEFINE d == [D!Idle EXCEPT !.at = "starting", !.key = i, !.retry = TRUE, !.seen = status[i]]
             l == [Idle EXCEPT !.at = "dispatching", !.as = i]
  <2>1. d.at = "starting" /\ d.key = i /\ d.retry = TRUE
    BY DEF D!Idle
  <2>2. l.at = "dispatching" /\ l.as = i /\ l.starts = FALSE
    BY DEF Idle
  <2>3. call' = [call EXCEPT ![p] = d] /\ UNCHANGED executions /\ Goto(p, l)
    BY <1>11 DEF RetryCommand, D!ReadForRetry
  <2> HIDE DEF d, l
  <2> QED
    BY <1>1, <2>1, <2>2, <2>3
<1> QED
  BY <1>2, <1>3, <1>4, <1>5, <1>6, <1>8, <1>9, <1>10, <1>11, RunStep
  DEF Next, Proceed, Propose, RejectCommand, CancelDispatch, D!Reject, D!Cancel, DispatchIdle,
      dispatchVars, vars

-----------------------------------------------------------------------------
(* What stands behind an assignment that is shown as being worked on.      *)
Backed(i) ==
    IF row[i].work.gated THEN \E a \in ApprovalId : /\ approval[a].status # "absent"
                                                    /\ approval[a].key = i
                         ELSE executions[i] > 0

Accepted(i) == row[i].status \notin {"absent", "proposed"}

LEMMA AcceptedStays ==
    ASSUME TypeInv, [Next]_vars, NEW i \in Assignment, Accepted(i)
    PROVE  Accepted(i)' /\ row'[i].work = row[i].work
<1>1. Absent.status = "absent" /\ row[i].status \in AssignmentStatus
  BY DEF Absent, TypeInv, RowsOK, Row
<1>2. Stays(i) \/ Becomes(i, row'[i])
  BY RowStep
<1> QED
  BY <1>1, <1>2, Legal DEF Accepted, Stays, Becomes

LEMMA ExecutionsGrow ==
    ASSUME TypeInv, [Next]_vars, NEW i \in Assignment
    PROVE  executions[i] > 0 => executions'[i] > 0
<1>0. executions \in [Assignment -> Nat]
  BY DEF TypeInv, P!TypeInv, P!HistoryOK
<1>1. ASSUME NEW p \in Caller, D!Execute(p)
      PROVE  executions[i] > 0 => executions'[i] > 0
  <2> DEFINE k == call[p].key
  <2>1. UNCHANGED executions \/ executions' = [executions EXCEPT ![k] = @ + 1]
    BY <1>1 DEF D!Execute
  <2>2. CASE k = i /\ executions' = [executions EXCEPT ![k] = @ + 1]
    <3>1. executions'[i] = executions[i] + 1
      BY <1>0, <2>2
    <3> QED
      BY <1>0, <3>1
  <2>3. CASE k # i \/ UNCHANGED executions
    BY <1>0, <2>1, <2>3
  <2> QED
    BY <2>1, <2>2, <2>3
<1> QED
  BY <1>1, DispatchStep
  DEF D!Next, D!Proceed, D!Enter, D!Decide, D!LookUp, D!Insert, D!InsertLost, D!ReadForDispatch,
      D!ReadForRetry, D!Claim, D!MarkRunning, D!Swap, D!BeginAttempt, D!Finish, D!Crash, D!Cancel,
      D!Synchronize, D!RequestApproval, D!Approve, D!ApproveTooLate, D!Reject, D!ExpireOrClose,
      D!ReachDeadline, dispatchVars

LEMMA BackedStays ==
    ASSUME TypeInv, [Next]_vars, NEW i \in Assignment, Backed(i), row'[i].work = row[i].work
    PROVE  Backed(i)'
<1>1. \A a \in ApprovalId : approval[a].status # "absent" =>
          approval'[a].status # "absent" /\ approval'[a].key = approval[a].key
  BY DispatchTypes, DispatchAssumed, P!ApprovalsStep DEF TypeInv
<1> QED
  BY <1>1, ExecutionsGrow DEF Backed

LEMMA Inserted ==
    ASSUME TypeInv, CallInv, [Next]_vars, NEW i \in Assignment,
           status[i] = "absent", status'[i] # "absent"
    PROVE  \E p \in Caller : InsertDispatch(p) /\ loc[p].at = "inserting" /\ loc[p].as = i
<1>0. status \in [Assignment -> P!DispatchStatus]
  BY DEF TypeInv, P!TypeInv, P!DispatchesOK
<1>1. ASSUME NEW j, NEW s, status' = [status EXCEPT ![j] = s]
      PROVE  j = i
  BY <1>0, <1>1
<1>2. ASSUME NEW p \in Caller, InsertDispatch(p)
      PROVE  loc[p].as = i
  <2>1. call[p].at = "creating"
    BY <1>2 DEF InsertDispatch, D!Insert, D!InsertLost
  <2>2. CASE D!Insert(p)
    <3>1. \E s : status' = [status EXCEPT ![call[p].key] = s]
      BY <2>2 DEF D!Insert
    <3>2. call[p].key = i
      BY <1>1, <3>1
    <3> QED
      BY <2>1, <3>2, IdleCalls DEF CallInv, Fits
  <2>3. CASE D!InsertLost(p)
    BY <2>3 DEF D!InsertLost, D!rows
  <2> QED
    BY <1>2, <2>2, <2>3 DEF InsertDispatch
<1>3. ASSUME NEW p \in Caller, RunDispatch(p)
      PROVE  FALSE
  <2>1. P!CallOK(call[p])
    BY DEF TypeInv, P!TypeInv, P!CallsOK
  <2>2. call[p].at = "starting" => call[p].seen # "absent"
    BY <2>1 DEF P!CallOK, P!Startable, P!Retryable
  <2>3. status[call[p].key] # "absent" \/ UNCHANGED status
    BY <1>3, <2>2 DEF RunDispatch, D!Claim, D!MarkRunning, D!Swap, D!BeginAttempt, D!Execute,
                      D!Finish, D!rows
  <2>4. (\E s : status' = [status EXCEPT ![call[p].key] = s]) \/ UNCHANGED status
    BY <1>3 DEF RunDispatch, D!Claim, D!MarkRunning, D!Swap, D!BeginAttempt, D!Execute,
                D!Finish, D!rows
  <2> QED
    BY <1>1, <2>3, <2>4
<1>4. ASSUME NEW k \in Assignment, CancelDispatch(k)
      PROVE  FALSE
  BY <1>1, <1>4 DEF CancelDispatch, D!Cancel
<1>5. ASSUME NEW a \in ApprovalId, RejectCommand(a) \/ \E p \in Caller : ApproveCommand(p, a)
      PROVE  FALSE
  BY <1>1, <1>5 DEF RejectCommand, ApproveCommand, D!Reject, D!Approve, D!Pending, D!Move
<1>6. UNCHANGED status => FALSE
  OBVIOUS
<1> QED
  BY <1>2, <1>3, <1>4, <1>5, <1>6
  DEF Next, Proceed, Propose, Ask, OpenReassign, Start, Swap, Replace, Create, InsertDispatch,
      AskApproval, StartDispatch, Link, Die, RetryCommand, D!LookUp, D!RequestApproval,
      D!ReadForDispatch, D!ReadForRetry, D!Crash, D!rows, DispatchIdle, dispatchVars, vars

-----------------------------------------------------------------------------
(* What a method of start_execution knows of its assignment: it was        *)
(* accepted, its dispatch is for its capability, and what it links to was  *)
(* tried or put before the owner.                                          *)
Knows(p) ==
    LET l == loc[p]
    IN  /\ l.at \in {"creating", "inserting", "asking", "linking"} => l.starts
        /\ l.starts => l.at # "idle" /\ Accepted(l.as) /\ l.ask.gated = row[l.as].work.gated
        /\ l.starts /\ l.at = "asking" => l.ask.gated
        /\ l.starts /\ l.at \in {"starting", "dispatching"} => ~l.ask.gated
        /\ l.at = "linking" => Backed(l.as)

RowInv(i) ==
    /\ row[i].status \in {"in_progress", "completed"} => row[i].linked
    /\ row[i].linked => Accepted(i) /\ Backed(i)
    /\ status[i] # "absent" => Accepted(i)

ProgressInv ==
    /\ \A p \in Caller : Knows(p)
    /\ \A i \in Assignment : RowInv(i)

LEMMA ProgressInvInit == Init => ProgressInv
<1> SUFFICES ASSUME Init PROVE ProgressInv
  OBVIOUS
<1>1. Idle.at = "idle" /\ Idle.starts = FALSE
  BY DEF Idle
<1>2. Absent.status = "absent" /\ Absent.linked = FALSE
  BY DEF Absent
<1>3. ASSUME NEW p \in Caller
      PROVE  Knows(p)
  <2>1. loc[p] = Idle
    BY DEF Init
  <2> QED
    BY <1>1, <2>1 DEF Knows
<1>4. ASSUME NEW i \in Assignment
      PROVE  RowInv(i)
  <2>1. row[i] = Absent /\ status[i] = "absent"
    BY DEF Init, D!Init
  <2> QED
    BY <1>2, <2>1 DEF RowInv
<1> QED
  BY <1>3, <1>4 DEF ProgressInv

LEMMA KnowsStays ==
    ASSUME TypeInv, [Next]_vars, NEW p \in Caller, Knows(p), loc'[p] = loc[p]
    PROVE  Knows(p)'
<1> DEFINE l == loc[p]
<1>1. l.at # "idle" => l.as \in Assignment
  BY DEF TypeInv, MethodsOK, LocalsOK
<1>2. CASE l.at = "idle"
  <2>1. loc'[p].at = "idle" /\ ~loc'[p].starts
    BY <1>2 DEF Knows
  <2> QED
    BY <2>1 DEF Knows
<1>3. CASE l.as \in Assignment
  <2>1. Accepted(l.as) => Accepted(l.as)' /\ row'[l.as].work = row[l.as].work
    BY <1>3, AcceptedStays
  <2>2. Backed(l.as) /\ row'[l.as].work = row[l.as].work => Backed(l.as)'
    BY <1>3, BackedStays
  <2> QED
    BY <2>1, <2>2 DEF Knows, Accepted, Backed
<1> QED
  BY <1>1, <1>2, <1>3 DEF Knows

LEMMA KnowsStep ==
    ASSUME TypeInv, CallInv, ProgressInv, [Next]_vars, NEW p \in Caller
    PROVE  Knows(p)'
<1> DEFINE l == loc[p]
<1>0. /\ loc \in [Caller -> Locals] /\ Knows(p) /\ LocalsOK(l)
      /\ l.at # "idle" => l.as \in Assignment
  BY DEF TypeInv, MethodsOK, LocalsOK, ProgressInv
<1>1. CASE loc'[p] = loc[p]
  BY <1>0, <1>1, KnowsStays
<1>2. ASSUME NEW q \in Caller \ {p}, NEW m, Goto(q, m)
      PROVE  Knows(p)'
  BY <1>0, <1>1, <1>2 DEF Goto
<1>3. CASE Return(p)
  <2>1. loc'[p].at = "idle" /\ loc'[p].starts = FALSE
    BY <1>0, <1>3 DEF Return, Goto, Idle
  <2> QED
    BY <2>1 DEF Knows
<1>4. ASSUME NEW place \in Place \ {"idle"}, Goto(p, At(p, place)), l.at # "idle",
             place \in {"inserting", "asking", "linking"} => l.starts,
             l.starts /\ place = "asking" => l.ask.gated,
             l.starts /\ place \in {"starting", "dispatching"} => ~l.ask.gated,
             place # "creating",
             place = "linking" => Backed(l.as)
      PROVE  Knows(p)'
  <2>1. /\ loc'[p].at = place /\ loc'[p].as = l.as
        /\ loc'[p].starts = l.starts /\ loc'[p].ask = l.ask
    BY <1>0, <1>4 DEF Goto, At, Locals
  <2>2. PICK k \in Assignment : k = l.as
    BY <1>0, <1>4
  <2>3. Accepted(k) => Accepted(k)' /\ row'[k].work = row[k].work
    BY AcceptedStays
  <2>4. Backed(k) /\ row'[k].work = row[k].work => Backed(k)'
    BY BackedStays
  <2>5. l.starts => Accepted(k) /\ l.ask.gated = row[k].work.gated
    BY <1>0, <2>2 DEF Knows
  <2> QED
    BY <1>4, <2>1, <2>2, <2>3, <2>4, <2>5 DEF Knows, Accepted, Backed
<1>5. ASSUME NEW m, Goto(p, m), ~m.starts, m.at \in {"swapping", "replacing", "starting", "dispatching"}
      PROVE  Knows(p)'
  <2>1. loc'[p] = m
    BY <1>0, <1>5 DEF Goto
  <2> QED
    BY <1>5, <2>1 DEF Knows
<1>6. ASSUME l.at \in {"creating", "inserting"}, Created(p)
      PROVE  Knows(p)'
  <2>1. l.starts /\ l.at # "idle"
    BY <1>0, <1>6 DEF Knows
  <2>2. CASE l.ask.gated
    BY <1>4, <1>6, <2>1, <2>2 DEF Created, Place
  <2>3. CASE ~l.ask.gated
    BY <1>4, <1>6, <2>1, <2>3 DEF Created, Place
  <2> QED
    BY <2>2, <2>3
<1>7. CASE Create(p) \/ InsertDispatch(p)
  <2>1. CASE l.at = "creating" /\ Goto(p, At(p, "inserting"))
    BY <1>0, <1>4, <2>1 DEF Knows, Place
  <2> QED
    BY <1>3, <1>6, <1>7, <2>1 DEF Create, InsertDispatch
<1>8. CASE AskApproval(p)
  <2>1. l.at = "asking" /\ l.starts /\ l.ask.gated /\ Accepted(l.as) /\ row[l.as].work.gated
    BY <1>0, <1>8 DEF AskApproval, Knows
  <2>2. /\ loc'[p].at = "linking" /\ loc'[p].as = l.as
        /\ loc'[p].starts = l.starts /\ loc'[p].ask = l.ask /\ UNCHANGED row
    BY <1>0, <1>8 DEF AskApproval, Goto, At, Locals
  <2>3. \E a \in ApprovalId : approval'[a].status # "absent" /\ approval'[a].key = l.as
    <3>1. approval \in [ApprovalId -> P!ApprovalRecord]
      BY DEF TypeInv, P!TypeInv, P!ApprovalsOK
    <3>2. CASE D!Open(l.as) # {} /\ DispatchIdle
      BY <3>2 DEF D!Open, DispatchIdle, dispatchVars
    <3>3. CASE \E a \in ApprovalId : D!RequestApproval(l.as, a, "none")
      BY <3>1, <3>3 DEF D!RequestApproval, D!InsertApproval
    <3> QED
      BY <1>8, <3>2, <3>3 DEF AskApproval
  <2> QED
    BY <2>1, <2>2, <2>3 DEF Knows, Accepted, Backed
<1>9. CASE StartDispatch(p)
  <2>1. l.at = "starting" /\ (l.starts => ~l.ask.gated)
    BY <1>0, <1>9 DEF StartDispatch, Knows
  <2>2. CASE Goto(p, At(p, "dispatching"))
    BY <1>4, <2>1, <2>2 DEF Place
  <2> QED
    BY <1>3, <1>9, <2>2 DEF StartDispatch
<1>10. CASE RunDispatch(p)
  <2>1. l.at = "dispatching"
    BY <1>10 DEF RunDispatch
  <2>2. CASE Goto(p, At(p, "linking")) /\ l.starts /\ call[p].at = "finishing"
    <3>1. call[p].key = l.as /\ executions[l.as] > 0
      BY <2>2, IdleCalls DEF CallInv, Fits, Entitled
    <3>2. ~row[l.as].work.gated
      BY <1>0, <2>1, <2>2 DEF Knows
    <3>3. Backed(l.as)
      BY <3>1, <3>2 DEF Backed
    <3> QED
      BY <1>4, <2>1, <2>2, <3>3 DEF Place
  <2> QED
    BY <1>1, <1>3, <1>10, <2>2 DEF RunDispatch
<1>11. CASE Swap(p) \/ Replace(p) \/ Link(p) \/ Die(p)
  BY <1>3, <1>11 DEF Swap, Replace, Link, Die
<1>12. ASSUME NEW i \in Assignment, OpenReassign(p, i) \/ \E goal : Ask(p, i, goal)
       PROVE  Knows(p)'
  <2> DEFINE m(goal) == [Idle EXCEPT !.at = "swapping", !.as = i, !.seen = row[i].status, !.goal = goal]
             n == [Idle EXCEPT !.at = "replacing", !.as = i, !.seen = row[i].status]
  <2>1. /\ n.at = "replacing" /\ ~n.starts
        /\ \A goal : m(goal).at = "swapping" /\ ~m(goal).starts
    BY DEF Idle
  <2>2. Goto(p, n) \/ \E goal : Goto(p, m(goal))
    BY <1>12 DEF OpenReassign, Ask
  <2> HIDE DEF m, n
  <2> QED
    BY <1>5, <2>1, <2>2
<1>13. ASSUME NEW i \in Assignment, NEW o \in Actor, Start(p, i, o)
       PROVE  Knows(p)'
  <2>1. /\ loc'[p].at = "creating" /\ loc'[p].as = i
        /\ loc'[p].starts /\ loc'[p].ask = RequestOf(row[i].work, o)
    BY <1>0, <1>13 DEF Start, Goto, Idle
  <2>2. Accepted(i) /\ UNCHANGED row
    BY <1>13 DEF Start, Accepted
  <2> QED
    BY <2>1, <2>2 DEF Knows, Accepted, RequestOf
<1>14. ASSUME NEW a \in ApprovalId, ApproveCommand(p, a)
       PROVE  Knows(p)'
  <2> DEFINE m == [Idle EXCEPT !.at = "starting", !.as = approval[a].key]
  <2>1. m.at = "starting" /\ ~m.starts
    BY DEF Idle
  <2>2. Goto(p, m)
    BY <1>14 DEF ApproveCommand
  <2> HIDE DEF m
  <2> QED
    BY <1>5, <2>1, <2>2
<1>15. \/ UNCHANGED loc
       \/ \E q \in Caller :
             /\ \E m : Goto(q, m)
             /\ \/ Proceed(q) \/ Die(q)
                \/ \E i \in Assignment : OpenReassign(q, i) \/ (\E goal : Ask(q, i, goal))
                                                           \/ (\E o \in Actor : Start(q, i, o))
                                                           \/ RetryCommand(q, i)
                \/ \E a \in ApprovalId : ApproveCommand(q, a)
  BY DEF Next, Proceed, Propose, Ask, OpenReassign, Start, Swap, Replace, Create, InsertDispatch,
         AskApproval, StartDispatch, RunDispatch, Link, Die, Created, Return, ApproveCommand,
         RetryCommand, RejectCommand, CancelDispatch, vars
<1>16. ASSUME NEW i \in Assignment, RetryCommand(p, i)
       PROVE  Knows(p)'
  <2> DEFINE m == [Idle EXCEPT !.at = "dispatching", !.as = i]
  <2>1. m.at = "dispatching" /\ ~m.starts
    BY DEF Idle
  <2>2. Goto(p, m)
    BY <1>16 DEF RetryCommand
  <2> HIDE DEF m
  <2> QED
    BY <1>5, <2>1, <2>2
<1> QED
  BY <1>1, <1>2, <1>7, <1>8, <1>9, <1>10, <1>11, <1>12, <1>13, <1>14, <1>15, <1>16 DEF Proceed

LEMMA RowInvStep ==
    ASSUME TypeInv, CallInv, ProgressInv, [Next]_vars, NEW i \in Assignment
    PROVE  RowInv(i)'
<1>0. RowInv(i) /\ (Stays(i) \/ Becomes(i, row'[i])) /\ row[i] \in Row
  BY RowStep DEF ProgressInv, TypeInv, RowsOK
<1>1. status'[i] # "absent" => Accepted(i)'
  <2>1. CASE status[i] # "absent"
    BY <1>0, <2>1, AcceptedStays DEF RowInv
  <2>2. CASE status[i] = "absent" /\ status'[i] # "absent"
    <3>1. PICK p \in Caller : InsertDispatch(p) /\ loc[p].at = "inserting" /\ loc[p].as = i
      BY <2>2, Inserted
    <3>2. Accepted(i)
      BY <3>1 DEF ProgressInv, Knows
    <3> QED
      BY <3>2, AcceptedStays
  <2> QED
    BY <2>1, <2>2
<1>2. row'[i].linked => Accepted(i)' /\ Backed(i)'
  <2>1. CASE row[i].linked
    BY <1>0, <2>1, AcceptedStays, BackedStays DEF RowInv
  <2>2. CASE ~row[i].linked /\ row'[i].linked
    <3>1. PICK p \in Caller : loc[p].at = "linking" /\ loc[p].as = i
      BY <1>0, <2>2 DEF Stays, Becomes
    <3>2. Accepted(i) /\ Backed(i)
      BY <3>1 DEF ProgressInv, Knows
    <3> QED
      BY <3>2, AcceptedStays, BackedStays
  <2> QED
    BY <2>1, <2>2
<1>3. row'[i].status \in {"in_progress", "completed"} => row'[i].linked
  BY <1>0, Legal DEF RowInv, Stays, Becomes, Row
<1> QED
  BY <1>1, <1>2, <1>3 DEF RowInv

LEMMA ProgressInvAlways == Spec => [](TypeInv /\ CallInv /\ ProgressInv)
<1>1. TypeInv /\ CallInv /\ ProgressInv /\ [Next]_vars => ProgressInv'
  BY KnowsStep, RowInvStep DEF ProgressInv
<1> QED
  BY <1>1, TypeInvAlways, CallInvInit, CallInvStep, ProgressInvInit, PTL DEF Spec

(* An assignment that is shown as being worked on, or as completed, has a  *)
(* dispatch that was really tried or put before the owner.                 *)
THEOREM ProgressHasWork == Spec => []ProgressIsBacked
<1>1. ProgressInv => ProgressIsBacked
  BY DEF ProgressInv, RowInv, Backed, ProgressIsBacked
<1> QED
  BY <1>1, ProgressInvAlways, PTL

-----------------------------------------------------------------------------
(* Exactly the assignments that were reassigned have a replacement, and    *)
(* only one.                                                               *)
ReplaceInv ==
    /\ \A i \in Assignment : row[i].status = "reassigned" <=> \E j \in Assignment : row[j].replaces = i
    /\ \A j, k \in Assignment : row[j].replaces = row[k].replaces =>
          j = k \/ row[j].replaces = NoAssignment

LEMMA ReplaceInvInit == Init => ReplaceInv
<1> SUFFICES ASSUME Init PROVE ReplaceInv
  OBVIOUS
<1>1. \A i \in Assignment : row[i].status = "absent" /\ row[i].replaces = NoAssignment
  BY DEF Init, Absent
<1> QED
  BY <1>1, AssignmentAssumption DEF ReplaceInv

LEMMA ReplaceInvStep ==
    ASSUME TypeInv, ReplaceInv, [Next]_vars
    PROVE  ReplaceInv'
<1>0. row \in [Assignment -> Row] /\ Absent.status = "absent" /\ Absent.replaces = NoAssignment
  BY DEF TypeInv, RowsOK, Absent
<1>1. CASE \A i \in Assignment : /\ row'[i].replaces = row[i].replaces
                                 /\ (row'[i].status = "reassigned") <=> (row[i].status = "reassigned")
  BY <1>1 DEF ReplaceInv
<1>2. CASE \E p \in Caller : Replace(p) /\ row' # row
  <2>1. PICK p \in Caller : Replace(p) /\ row' # row
    BY <1>2
  <2> DEFINE i == loc[p].as
  <2>2. PICK j \in Assignment, w \in Work :
           /\ i \in Assignment /\ j # i /\ row[j] = Absent
           /\ "reassigned" \in Transitions[row[i].status]
           /\ row' = [row EXCEPT ![i] = [row[i] EXCEPT !.status = "reassigned"],
                                 ![j] = Replacement(i, w)]
    BY <2>1, ReplaceStep
  <2>3. Replacement(i, w).replaces = i /\ Replacement(i, w).status = "proposed"
    BY DEF Replacement, Absent
  <2>4. row[i] \in Row /\ row[i].status # "reassigned"
    BY <1>0, <2>2, Legal DEF Row
  <2>5. /\ row'[i].status = "reassigned" /\ row'[i].replaces = row[i].replaces
        /\ row'[j].status = "proposed" /\ row'[j].replaces = i
        /\ \A k \in Assignment \ {i, j} : row'[k] = row[k]
    BY <1>0, <2>2, <2>3, <2>4 DEF Row
  <2>6. \A k \in Assignment : row[k].replaces # i
    BY <2>2, <2>4 DEF ReplaceInv
  <2>7. row[j].status = "absent" /\ row[j].replaces = NoAssignment
    BY <1>0, <2>2
  <2>8. ASSUME NEW x \in Assignment
        PROVE  row'[x].status = "reassigned" <=> \E y \in Assignment : row'[y].replaces = x
    <3>1. \A y \in Assignment \ {j} : row'[y].replaces = row[y].replaces
      BY <2>5
    <3>2. CASE x = i
      BY <2>2, <2>5, <3>2
    <3>3. CASE x # i
      <4>1. (\E y \in Assignment : row'[y].replaces = x) <=> (\E y \in Assignment : row[y].replaces = x)
        BY <2>2, <2>5, <2>7, <3>1, <3>3, AssignmentAssumption
      <4>2. (row'[x].status = "reassigned") <=> (row[x].status = "reassigned")
        BY <2>5, <2>7, <3>3
      <4> QED
        BY <4>1, <4>2 DEF ReplaceInv
    <3> QED
      BY <3>2, <3>3
  <2>9. ASSUME NEW x \in Assignment, NEW y \in Assignment, row'[x].replaces = row'[y].replaces
        PROVE  x = y \/ row'[x].replaces = NoAssignment
    <3>1. \A z \in Assignment \ {j} : row'[z].replaces = row[z].replaces /\ row[z].replaces # i
      BY <2>5, <2>6
    <3> QED
      BY <2>5, <2>9, <3>1 DEF ReplaceInv
  <2> QED
    BY <2>8, <2>9 DEF ReplaceInv
<1>3. ASSUME NEW i \in Assignment, ~ \E p \in Caller : Replace(p) /\ row' # row
      PROVE  /\ row'[i].replaces = row[i].replaces
             /\ (row'[i].status = "reassigned") <=> (row[i].status = "reassigned")
  <2>1. row[i] \in Row
    BY <1>0
  <2>2. Stays(i) \/ (Becomes(i, row'[i]) /\ ~ \E p \in Caller : Replace(p))
    BY <1>3, RowStep DEF Stays
  <2> QED
    BY <1>0, <2>1, <2>2, Legal DEF Stays, Becomes, Row
<1> QED
  BY <1>1, <1>2, <1>3

(* Nobody is on his way to the agent of work that succeeded.               *)
LEMMA DoneInvAlways == Spec => []P!DoneInv
<1>1. TypeInv /\ P!DoneInv /\ [Next]_vars => P!DoneInv'
  BY DispatchTypes, DispatchAssumed, P!DoneInvStep DEF TypeInv
<1>2. Init => P!DoneInv
  BY SameInit, DispatchAssumed, P!DoneInvInit DEF Init
<1> QED
  BY <1>1, <1>2, TypeInvAlways, PTL DEF Spec

(* The agent is called for accepted assignments only, once, and once more  *)
(* for every retry that was claimed; nobody is on his way to the agent of  *)
(* work that succeeded; and exactly what is reassigned has a replacement,  *)
(* a single one.                                                           *)
THEOREM WorkHappensOnce == Spec => []WorkIsDoneOnce
<1>1. ASSUME TypeInv, CallInv, ProgressInv, ReplaceInv, P!DoneInv, NEW i \in Assignment
      PROVE  /\ executions[i] <= 1 + retries[i]
             /\ executions[i] > 0 => row[i].status \notin {"absent", "proposed"}
             /\ status[i] = "succeeded" =>
                   \A p \in Caller : call[p].key = i =>
                      call[p].at \notin {"claimed", "numbering", "executing"}
             /\ Cardinality({j \in Assignment : row[j].replaces = i}) =
                   IF row[i].status = "reassigned" THEN 1 ELSE 0
  <2> DEFINE S == {j \in Assignment : row[j].replaces = i}
  <2>1. executions[i] <= 1 + retries[i] /\ (executions[i] > 0 => Accepted(i))
    BY <1>1 DEF CallInv, RunOnce, ProgressInv, RowInv, P!Early
  <2>2. ASSUME status[i] = "succeeded", NEW p \in Caller, call[p].key = i
        PROVE  call[p].at \notin {"claimed", "numbering", "executing"}
    BY <1>1, <2>2 DEF P!DoneInv, P!InFlight
  <2>3. Cardinality(S) = IF row[i].status = "reassigned" THEN 1 ELSE 0
    <3>1. CASE row[i].status = "reassigned"
      <4>1. PICK j \in Assignment : row[j].replaces = i
        BY <1>1, <3>1 DEF ReplaceInv
      <4>2. S = {j}
        BY <1>1, <4>1, AssignmentAssumption DEF ReplaceInv
      <4> QED
        BY <3>1, <4>2, FS_Singleton
    <3>2. CASE row[i].status # "reassigned"
      <4>1. S = {}
        BY <1>1, <3>2 DEF ReplaceInv
      <4> QED
        BY <3>2, <4>1, FS_EmptySet
    <3> QED
      BY <3>1, <3>2
  <2> QED
    BY <2>1, <2>2, <2>3 DEF Accepted
<1>2. TypeInv /\ CallInv /\ ProgressInv /\ ReplaceInv /\ P!DoneInv => WorkIsDoneOnce
  BY <1>1 DEF WorkIsDoneOnce
<1>3. TypeInv /\ ReplaceInv /\ [Next]_vars => ReplaceInv'
  BY ReplaceInvStep
<1> QED
  BY <1>2, <1>3, ProgressInvAlways, ReplaceInvInit, DoneInvAlways, PTL DEF Spec
=============================================================================
