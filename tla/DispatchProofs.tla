--------------------------- MODULE DispatchProofs ---------------------------
(***************************************************************************)
(* What is proved about Dispatch for every set of keys, approvals, callers *)
(* and requests: the types, the decisions, that Dispatch implements the    *)
(* owner's contract, ApprovalGate, and that the runs of one dispatch are   *)
(* bounded, follow one another and are recorded.                           *)
(***************************************************************************)
EXTENDS Dispatch, TLAPS, FiniteSetTheorems

-----------------------------------------------------------------------------
(* The locals of one call.                                                 *)
CallOK(c) ==
    /\ c \in CallRecord
    /\ c.at # "idle" => c.key \in Key
    /\ c.at = "creating" => c.ask \in Requests
    /\ c.at = "starting" => c.seen \in Startable \cup Retryable
    /\ c.at = "finishing" => c.outcome \in Outcomes

CallsOK == call \in [Caller -> CallRecord] /\ \A p \in Caller : CallOK(call[p])

(* The tables: an approval row refers to a dispatch row (the FOREIGN KEY). *)
ApprovalRecord == [status : ApprovalStatus, key : Key \cup {NoKey}, deadline : Deadline]

DispatchesOK ==
    /\ status \in [Key -> DispatchStatus]
    /\ request \in [Key -> Requests \cup {NoRequest}]
    /\ \A k \in Key : status[k] # "absent" => request[k] \in Requests

ApprovalsOK ==
    /\ approval \in [ApprovalId -> ApprovalRecord]
    /\ \A a \in ApprovalId : approval[a].status # "absent" =>
          approval[a].key \in Key /\ status[approval[a].key] # "absent"

HistoryOK ==
    /\ attempts \in [Key -> Seq({"running"} \cup Outcomes)]
    /\ executions \in [Key -> Nat]
    /\ told \subseteq ApprovalId

TypeInv == CallsOK /\ DispatchesOK /\ ApprovalsOK /\ HistoryOK

LEMMA TypeInvImpliesTypeOK == TypeInv => TypeOK
BY DEF TypeInv, TypeOK, CallsOK, DispatchesOK, ApprovalsOK, HistoryOK, ApprovalRecord

-----------------------------------------------------------------------------
LEMMA IdleOK == CallOK(Idle)
BY DEF CallOK, Idle, CallRecord, CallStep, DispatchStatus

LEMMA CallUpdate ==
    ASSUME CallsOK, NEW p \in Caller, NEW c, CallOK(c), call' = [call EXCEPT ![p] = c]
    PROVE  CallsOK'
BY DEF CallsOK, CallOK

(* The statuses a call writes, and what _TRANSITIONS leads to.             *)
LEMMA StatusTyping ==
    /\ Outcomes \cup Startable \cup Retryable \cup Busy \cup Closed \subseteq DispatchStatus
    /\ {"absent", "awaiting_approval", "pending", "approved", "dispatching", "running",
        "cancelled", "rejected", "succeeded", "failed", "timed_out"} = DispatchStatus
    /\ \A s \in DispatchStatus : Transitions[s] \subseteq DispatchStatus \ {"absent"}
BY DEF Transitions, DispatchStatus, Startable, Busy, Outcomes, Closed, Retryable

LEMMA CallsInit == Init => CallsOK
BY IdleOK DEF Init, CallsOK, CallOK

LEMMA CallsStep == TypeInv /\ [Next]_vars => CallsOK'
<1> SUFFICES ASSUME TypeInv, [Next]_vars PROVE CallsOK'
  OBVIOUS
<1> USE DEF TypeInv
<1>0. ASSUME NEW p \in Caller, Return(p)
      PROVE  CallsOK'
  BY <1>0, IdleOK, CallUpdate DEF Return
<1>1. ASSUME NEW p \in Caller, NEW k \in Key, NEW r \in Requests, LookUp(p, k, r)
      PROVE  CallsOK'
  <2>1. CallOK([Idle EXCEPT !.at = "creating", !.key = k, !.ask = r])
    BY IdleOK DEF CallOK, CallRecord, CallStep
  <2> QED
    BY <1>1, <2>1, CallUpdate DEF LookUp
<1>2. ASSUME NEW p \in Caller, NEW k \in Key, ReadForDispatch(p, k)
      PROVE  CallsOK'
  <2>1. CallOK([Idle EXCEPT !.at = "starting", !.key = k, !.seen = status[k]])
    BY <1>2, IdleOK DEF CallOK, CallRecord, CallStep, ReadForDispatch, DispatchesOK
  <2> QED
    BY <1>2, <2>1, CallUpdate DEF ReadForDispatch
<1>3. ASSUME NEW p \in Caller, NEW k \in Key, ReadForRetry(p, k)
      PROVE  CallsOK'
  <2>1. CallOK([Idle EXCEPT !.at = "starting", !.key = k, !.retry = TRUE, !.seen = status[k]])
    BY <1>3, IdleOK DEF CallOK, CallRecord, CallStep, ReadForRetry, DispatchesOK
  <2> QED
    BY <1>3, <2>1, CallUpdate DEF ReadForRetry
<1>4. ASSUME NEW p \in Caller, Claim(p) \/ MarkRunning(p) \/ BeginAttempt(p) \/ Execute(p)
      PROVE  CallsOK'
  <2> DEFINE c == call[p]
  <2>0. CallOK(c) /\ p \in DOMAIN call
    BY DEF CallsOK
  <2>1. ASSUME NEW next \in {"claimed", "numbering"}, c.at # "idle"
        PROVE  CallOK([c EXCEPT !.at = next])
    BY <2>0, <2>1 DEF CallOK, CallRecord, CallStep
  <2>2. ASSUME NEW n \in Int, c.at # "idle"
        PROVE  CallOK([c EXCEPT !.at = "executing", !.attempt = n])
    BY <2>0, <2>2 DEF CallOK, CallRecord, CallStep
  <2>3. ASSUME NEW o \in Outcomes, c.at # "idle"
        PROVE  CallOK([c EXCEPT !.at = "finishing", !.outcome = o])
    BY <2>0, <2>3 DEF CallOK, CallRecord, CallStep
  <2>4. CASE Claim(p)
    <3>1. CASE call' = [call EXCEPT ![p].at = "claimed"]
      BY <2>1, <2>4, <3>1, CallUpdate DEF Claim
    <3> QED
      BY <1>0, <2>4, <3>1 DEF Claim, Swap
  <2>5. CASE MarkRunning(p)
    <3>1. CASE call' = [call EXCEPT ![p].at = "numbering"]
      BY <2>1, <2>5, <3>1, CallUpdate DEF MarkRunning
    <3> QED
      BY <1>0, <2>5, <3>1 DEF MarkRunning, Swap
  <2>6. CASE BeginAttempt(p)
    <3>1. ASSUME NEW n \in Int, 
                 call' = [call EXCEPT ![p].at = "executing", ![p].attempt = n]
          PROVE  CallsOK'
      <4>1. call' = [call EXCEPT ![p] = [c EXCEPT !.at = "executing", !.attempt = n]]
        BY <2>0, <3>1 DEF CallsOK
      <4> QED
        BY <2>2, <2>6, <4>1, CallUpdate DEF BeginAttempt
    <3>2. Len(attempts[c.key]) + 1 \in Int
      BY <2>0, <2>6 DEF BeginAttempt, HistoryOK, CallOK
    <3>3. CASE Return(p)
      BY <1>0, <3>3
    <3>4. CASE call' = [call EXCEPT ![p].at = "executing", ![p].attempt = -1]
      <4>1. -1 \in Int
        OBVIOUS
      <4> DEFINE m == -1
      <4>2. m \in Int /\ call' = [call EXCEPT ![p].at = "executing", ![p].attempt = m]
        BY <3>4, <4>1
      <4> HIDE DEF m
      <4> QED
        BY <3>1, <4>2
    <3>5. CASE call' = [call EXCEPT ![p].at = "executing", ![p].attempt = Len(attempts[c.key]) + 1]
      BY <3>1, <3>2, <3>5
    <3> QED
      BY <2>6, <3>3, <3>4, <3>5 DEF BeginAttempt
  <2>7. CASE Execute(p)
    <3>1. ASSUME NEW o \in Outcomes,
                 call' = [call EXCEPT ![p].at = "finishing", ![p].outcome = o]
          PROVE  CallsOK'
      <4>1. call' = [call EXCEPT ![p] = [c EXCEPT !.at = "finishing", !.outcome = o]]
        BY <2>0, <3>1 DEF CallsOK
      <4> QED
        BY <2>3, <2>7, <4>1, CallUpdate DEF Execute
    <3> QED
      BY <1>0, <2>7, <3>1 DEF Execute, Outcomes
  <2> QED
    BY <1>4, <2>4, <2>5, <2>6, <2>7
<1>5. CASE UNCHANGED call
  BY <1>5 DEF CallsOK
<1> QED
  BY <1>0, <1>1, <1>2, <1>3, <1>4, <1>5
  DEF Next, Proceed, Enter, Insert, InsertLost, Finish, Crash, Cancel, Synchronize,
      RequestApproval, Decide, Approve, ApproveTooLate, Reject, ExpireOrClose, ReachDeadline, vars

(* Statuses and requests: a row never disappears and its request columns   *)
(* are never rewritten.                                                    *)
LEMMA DispatchesStep ==
    ASSUME TypeInv, [Next]_vars
    PROVE  /\ DispatchesOK'
           /\ \A k \in Key : status[k] # "absent" =>
                 status'[k] # "absent" /\ request'[k] = request[k]
<1> DEFINE Kept == \A k \in Key : status[k] # "absent" =>
                      status'[k] # "absent" /\ request'[k] = request[k]
<1> USE DEF TypeInv
<1>1. ASSUME NEW k \in Key, NEW s \in DispatchStatus \ {"absent"}, status[k] # "absent",
             status' = [status EXCEPT ![k] = s], UNCHANGED request
      PROVE  DispatchesOK' /\ Kept
  BY <1>1 DEF DispatchesOK
<1>2. CASE UNCHANGED <<status, request>>
  BY <1>2 DEF DispatchesOK
<1>3. ASSUME NEW p \in Caller, Insert(p)
      PROVE  DispatchesOK' /\ Kept
  <2>1. call[p].key \in Key /\ call[p].ask \in Requests
    BY <1>3 DEF Insert, CallsOK, CallOK
  <2> QED
    BY <1>3, <2>1, StatusTyping DEF Insert, DispatchesOK
<1>4. ASSUME NEW p \in Caller, Claim(p) \/ MarkRunning(p) \/ Finish(p)
      PROVE  DispatchesOK' /\ Kept
  <2>1. /\ call[p].key \in Key
        /\ call[p].at = "starting" => call[p].seen # "absent"
        /\ call[p].at = "finishing" => call[p].outcome \in DispatchStatus \ {"absent"}
    BY <1>4 DEF Claim, MarkRunning, Finish, CallsOK, CallOK, DispatchStatus, Outcomes,
                Startable, Retryable
  <2>2. {"dispatching", "running"} \subseteq DispatchStatus \ {"absent"}
    BY StatusTyping
  <2> QED
    BY <1>1, <1>2, <1>4, <2>1, <2>2 DEF Claim, MarkRunning, Finish, Swap
<1>5. ASSUME NEW k \in Key, Cancel(k) \/ Synchronize(k)
      PROVE  DispatchesOK' /\ Kept
  <2>1. status[k] \in DispatchStatus /\ Transitions["absent"] = {}
    BY DEF DispatchesOK, Transitions, DispatchStatus, Startable, Outcomes, Busy, Closed, Retryable
  <2>2. CASE Cancel(k)
    BY <1>1, <2>2, StatusTyping DEF Cancel
  <2>3. CASE Synchronize(k)
    BY <1>1, <2>1, <2>3, StatusTyping DEF Synchronize
  <2> QED
    BY <1>5, <2>2, <2>3
<1>6. ASSUME NEW a \in ApprovalId, Decide(a)
      PROVE  DispatchesOK' /\ Kept
  <2>1. Pending(a) => approval[a].key \in Key /\ status[approval[a].key] # "absent"
    BY DEF Pending, ApprovalsOK
  <2> QED
    BY <1>1, <1>2, <1>6, <2>1, StatusTyping
    DEF Decide, Approve, ApproveTooLate, Reject, ExpireOrClose, ReachDeadline, Move, rows
<1> QED
  BY <1>2, <1>3, <1>4, <1>5, <1>6
  DEF Next, Proceed, Enter, LookUp, InsertLost, ReadForDispatch, ReadForRetry, BeginAttempt,
      Execute, Crash, RequestApproval, vars, rows

(* Approval rows: what an approval is for is fixed once it is inserted,    *)
(* and one that was decided, expired or closed stays as it is.             *)
LEMMA ApprovalsStep ==
    ASSUME TypeInv, [Next]_vars
    PROVE  /\ ApprovalsOK'
           /\ \A a \in ApprovalId :
                 /\ approval[a].status # "absent" =>
                       approval'[a].status # "absent" /\ approval'[a].key = approval[a].key
                 /\ approval[a].status \notin {"absent", "requested"} =>
                       approval'[a].status = approval[a].status
<1> DEFINE Kept(a) == /\ approval[a].status # "absent" =>
                            approval'[a].status # "absent" /\ approval'[a].key = approval[a].key
                      /\ approval[a].status \notin {"absent", "requested"} =>
                            approval'[a].status = approval[a].status
           Goal == ApprovalsOK' /\ \A a \in ApprovalId : Kept(a)
<1> SUFFICES Goal
  OBVIOUS
<1> USE DEF TypeInv
<1>0. \A k \in Key : status[k] # "absent" => status'[k] # "absent"
  BY DispatchesStep
<1>1. ASSUME NEW a \in ApprovalId, NEW k \in Key, NEW d \in {"none", "ahead"},
             Fresh(a), status'[k] # "absent", InsertApproval(a, k, d)
      PROVE  Goal
  <2>1. [status |-> "requested", key |-> k, deadline |-> d] \in ApprovalRecord
    BY DEF ApprovalRecord, ApprovalStatus, Deadline
  <2> QED
    BY <1>0, <1>1, <2>1 DEF Fresh, InsertApproval, ApprovalsOK
<1>2. ASSUME NEW a \in ApprovalId, NEW v \in ApprovalStatus \ {"absent"},
             approval[a].status = "requested", Resolve(a, v)
      PROVE  Goal
  BY <1>0, <1>2 DEF Resolve, ApprovalsOK, ApprovalRecord
<1>3. ASSUME NEW a \in ApprovalId, ReachDeadline(a)
      PROVE  Goal
  BY <1>0, <1>3 DEF ReachDeadline, ApprovalsOK, ApprovalRecord, Deadline
<1>4. ASSUME NEW k \in Key, Cancel(k)
      PROVE  Goal
  BY <1>0, <1>4 DEF Cancel, Open, ApprovalsOK, ApprovalRecord, ApprovalStatus
<1>5. CASE UNCHANGED approval
  BY <1>0, <1>5 DEF ApprovalsOK
<1>6. ASSUME NEW p \in Caller, Insert(p)
      PROVE  Goal
  <2>1. call[p].key \in Key
    BY <1>6 DEF Insert, CallsOK, CallOK
  <2>2. CASE UNCHANGED approval
    BY <1>5, <2>2
  <2>3. CASE /\ status' = [status EXCEPT ![call[p].key] = "awaiting_approval"]
             /\ \E a \in ApprovalId, d \in {"none", "ahead"} :
                    Fresh(a) /\ InsertApproval(a, call[p].key, d)
    BY <1>1, <2>1, <2>3 DEF DispatchesOK
  <2> QED
    BY <1>6, <2>2, <2>3 DEF Insert
<1>7. ASSUME NEW k \in Key, NEW a \in ApprovalId, NEW d \in {"none", "ahead"},
             RequestApproval(k, a, d)
      PROVE  Goal
  BY <1>0, <1>1, <1>7 DEF RequestApproval
<1>8. ASSUME NEW a \in ApprovalId, Decide(a)
      PROVE  Goal
  BY <1>2, <1>3, <1>5, <1>8
  DEF Decide, Approve, ApproveTooLate, Reject, ExpireOrClose, Pending, rows, ApprovalStatus
<1> QED
  BY <1>4, <1>5, <1>6, <1>7, <1>8
  DEF Next, Proceed, Enter, LookUp, InsertLost, ReadForDispatch, ReadForRetry, Claim, MarkRunning,
      Swap, BeginAttempt, Execute, Finish, Crash, Synchronize, vars, rows

LEMMA HistoryStep == TypeInv /\ [Next]_vars => HistoryOK'
<1> SUFFICES ASSUME TypeInv, [Next]_vars PROVE HistoryOK'
  OBVIOUS
<1> USE DEF TypeInv
<1>1. ASSUME NEW p \in Caller, BeginAttempt(p)
      PROVE  HistoryOK'
  <2> DEFINE k == call[p].key
  <2>1. k \in Key /\ UNCHANGED <<executions, told>>
    BY <1>1 DEF BeginAttempt, CallsOK, CallOK
  <2>2. Append(attempts[k], "running") \in Seq({"running"} \cup Outcomes)
    BY <2>1 DEF HistoryOK
  <2>3. CASE attempts' = [attempts EXCEPT ![k] = Append(@, "running")]
    BY <2>1, <2>2, <2>3 DEF HistoryOK
  <2>4. CASE UNCHANGED attempts
    BY <2>1, <2>4 DEF HistoryOK
  <2> QED
    BY <1>1, <2>3, <2>4 DEF BeginAttempt
<1>2. ASSUME NEW p \in Caller, Execute(p)
      PROVE  HistoryOK'
  BY <1>2 DEF Execute, HistoryOK, rows
<1>3. ASSUME NEW p \in Caller, Finish(p)
      PROVE  HistoryOK'
  <2> DEFINE k == call[p].key
             n == call[p].attempt
             o == call[p].outcome
  <2>1. k \in Key /\ o \in Outcomes
    BY <1>3 DEF Finish, CallsOK, CallOK
  <2>2. ASSUME n \in DOMAIN attempts[k]
        PROVE  [attempts[k] EXCEPT ![n] = o] \in Seq({"running"} \cup Outcomes)
    BY <2>1, <2>2 DEF HistoryOK
  <2>3. UNCHANGED <<executions, told>>
    BY <1>3 DEF Finish
  <2>4. CASE attempts' = [attempts EXCEPT ![k][n] = o] /\ n \in DOMAIN attempts[k]
    BY <2>1, <2>2, <2>3, <2>4 DEF HistoryOK
  <2>5. CASE UNCHANGED attempts
    BY <2>3, <2>5 DEF HistoryOK
  <2> QED
    BY <1>3, <2>4, <2>5 DEF Finish
<1>4. ASSUME NEW a \in ApprovalId, ApproveTooLate(a)
      PROVE  HistoryOK'
  BY <1>4 DEF ApproveTooLate, HistoryOK, rows
<1>5. CASE UNCHANGED <<attempts, executions, told>>
  BY <1>5 DEF HistoryOK
<1> QED
  BY <1>1, <1>2, <1>3, <1>4, <1>5
  DEF Next, Proceed, Enter, LookUp, Insert, InsertLost, ReadForDispatch, ReadForRetry, Claim,
      MarkRunning, Swap, Crash, Cancel, Synchronize, RequestApproval, Decide, Approve, Reject,
      ExpireOrClose, ReachDeadline, vars, rows

LEMMA TypeInvInit == Init => TypeInv
<1> SUFFICES ASSUME Init PROVE TypeInv
  OBVIOUS
<1>1. DispatchesOK
  BY StatusTyping DEF Init, DispatchesOK
<1>2. ApprovalsOK
  BY DEF Init, ApprovalsOK, ApprovalRecord, ApprovalStatus, Deadline
<1>3. HistoryOK
  BY DEF Init, HistoryOK
<1> QED
  BY <1>1, <1>2, <1>3, CallsInit DEF TypeInv

LEMMA TypeInvStep == TypeInv /\ [Next]_vars => TypeInv'
BY CallsStep, DispatchesStep, ApprovalsStep, HistoryStep DEF TypeInv

LEMMA TypeInvAlways == Spec => []TypeInv
BY TypeInvInit, TypeInvStep, PTL DEF Spec

(* Every reachable state is well typed.                                    *)
THEOREM Typing == Spec => []TypeOK
BY TypeInvAlways, TypeInvImpliesTypeOK, PTL

-----------------------------------------------------------------------------
(* What a call that has read its row, or a dispatch past its approval,     *)
(* knows: approval-required work was granted.                              *)
Cleared(k) == status[k] # "absent" /\ (request[k].gated => Granted(k))

Released == DispatchStatus \ {"absent", "pending", "awaiting_approval", "rejected", "cancelled"}

(* The induction needs that the grant precedes every status and every      *)
(* stage of a call from which the agent can be reached, and that an        *)
(* approval-required dispatch is never merely pending.                     *)
GateInv ==
    /\ \A k \in Key : status[k] = "pending" => ~request[k].gated
    /\ \A k \in Key : status[k] \in Released => Cleared(k)
    /\ \A p \in Caller : call[p].at \notin {"idle", "creating"} => Cleared(call[p].key)
    /\ \A k \in Key : executions[k] > 0 => Cleared(k)

LEMMA ClearedStays ==
    ASSUME TypeInv, [Next]_vars, NEW k \in Key, Cleared(k)
    PROVE  Cleared(k)'
<1>1. status'[k] # "absent" /\ request'[k] = request[k]
  BY DispatchesStep DEF Cleared
<1>2. Granted(k) => Granted(k)'
  BY ApprovalsStep DEF Granted
<1> QED
  BY <1>1, <1>2 DEF Cleared

(* Once a dispatch is released it was cleared before the step or is now.   *)
LEMMA StatusStep ==
    ASSUME TypeInv, GateInv, [Next]_vars, NEW k \in Key
    PROVE  /\ status'[k] = "pending" => ~request'[k].gated
           /\ status'[k] \in Released => Cleared(k)'
<1> DEFINE Goal == /\ status'[k] = "pending" => ~request'[k].gated
                   /\ status'[k] \in Released => Cleared(k)'
<1> USE DEF TypeInv
<1>1. CASE UNCHANGED status
  BY <1>1, ClearedStays, DispatchesStep, StatusTyping DEF GateInv, DispatchesOK
<1>2. ASSUME NEW j \in Key, NEW s, status' = [status EXCEPT ![j] = s], status[j] # "absent",
             s # "pending", s \in Released => Cleared(j)'
      PROVE  Goal
  BY <1>2, ClearedStays, DispatchesStep, StatusTyping DEF GateInv, DispatchesOK
<1>3. ASSUME NEW p \in Caller, Insert(p)
      PROVE  Goal
  <2>1. call[p].key \in Key
    BY <1>3 DEF Insert, CallsOK, CallOK
  <2>2. CASE call[p].key = k
    BY <1>3, <2>1, <2>2 DEF Insert, DispatchesOK, Released
  <2>3. CASE call[p].key # k
    <3>1. status'[k] = status[k]
      BY <1>3, <2>1, <2>3 DEF Insert, DispatchesOK
    <3> QED
      BY <3>1, ClearedStays, DispatchesStep, StatusTyping DEF GateInv, DispatchesOK
  <2> QED
    BY <2>2, <2>3
<1>4. ASSUME NEW p \in Caller, Claim(p) \/ MarkRunning(p) \/ Finish(p)
      PROVE  Goal
  <2>1. PICK j \in Key : j = call[p].key /\ Cleared(j)
    BY <1>4 DEF Claim, MarkRunning, Finish, CallsOK, CallOK, GateInv
  <2>2. Cleared(j)'
    BY <2>1, ClearedStays
  <2>3. ASSUME NEW s, s # "pending", status' = [status EXCEPT ![call[p].key] = s]
        PROVE  Goal
    BY <2>1, <2>2, <2>3, <1>2 DEF Cleared
  <2>4. call[p].at = "finishing" => call[p].outcome # "pending"
    BY DEF CallsOK, CallOK, Outcomes
  <2> QED
    BY <1>1, <1>4, <2>3, <2>4 DEF Claim, MarkRunning, Finish, Swap
<1>5. ASSUME NEW j \in Key, Cancel(j)
      PROVE  Goal
  BY <1>2, <1>5 DEF Cancel, Released
<1>6. ASSUME NEW j \in Key, Synchronize(j)
      PROVE  Goal
  <2>1. PICK s \in Transitions[status[j]] \cap (Outcomes \cup {"pending", "running", "cancelled"}) :
            status' = [status EXCEPT ![j] = s]
    BY <1>6 DEF Synchronize
  <2>2. /\ status[j] # "absent" /\ s # "pending"
        /\ s \in Released => status[j] \in Released
    BY <2>1, StatusTyping
    DEF DispatchesOK, Transitions, Released, Outcomes, Retryable, Busy, Startable, Closed
  <2>3. s \in Released => Cleared(j)'
    BY <2>2, ClearedStays DEF GateInv
  <2> QED
    BY <1>2, <2>1, <2>2, <2>3
<1>7. ASSUME NEW a \in ApprovalId, Approve(a)
      PROVE  Goal
  <2>1. PICK j \in Key : j = approval[a].key /\ status[j] # "absent"
    BY <1>7 DEF Approve, Pending, ApprovalsOK
  <2>2. Granted(j)'
    BY <1>7, <2>1 DEF Approve, Resolve, Granted, ApprovalsOK, ApprovalRecord
  <2>3. Cleared(j)'
    BY <2>1, <2>2, DispatchesStep DEF Cleared
  <2> QED
    BY <1>2, <1>7, <2>1, <2>3 DEF Approve, Move
<1>8. ASSUME NEW a \in ApprovalId, Reject(a)
      PROVE  Goal
  <2>1. approval[a].key \in Key /\ status[approval[a].key] # "absent"
    BY <1>8 DEF Reject, Pending, ApprovalsOK
  <2> QED
    BY <1>2, <1>8, <2>1 DEF Reject, Move, Released
<1> QED
  BY <1>1, <1>3, <1>4, <1>5, <1>6, <1>7, <1>8
  DEF Next, Proceed, Enter, LookUp, InsertLost, ReadForDispatch, ReadForRetry, BeginAttempt,
      Execute, Crash, RequestApproval, Decide, ApproveTooLate, ExpireOrClose, ReachDeadline,
      vars, rows

LEMMA GateInvInit == Init => GateInv
BY DEF Init, GateInv, Idle, Released

LEMMA GateInvStep == TypeInv /\ GateInv /\ [Next]_vars => GateInv'
<1> SUFFICES ASSUME TypeInv, GateInv, [Next]_vars PROVE GateInv'
  OBVIOUS
<1> USE DEF TypeInv
<1>1. /\ \A k \in Key : status'[k] = "pending" => ~request'[k].gated
      /\ \A k \in Key : status'[k] \in Released => Cleared(k)'
  BY StatusStep
<1>2. ASSUME NEW p \in Caller, NEW j \in Key, call'[p].key = j, call'[p].at \notin {"idle", "creating"}
      PROVE  Cleared(j)'
  <2>1. CASE call[p].key = j /\ call[p].at \notin {"idle", "creating"}
    BY <2>1, ClearedStays DEF GateInv
  <2>2. ASSUME NEW q \in Caller, NEW k \in Key, ReadForDispatch(q, k) \/ ReadForRetry(q, k)
        PROVE  Cleared(j)'
    <3>1. Cleared(k)
      BY <2>2, StatusTyping
      DEF ReadForDispatch, ReadForRetry, GateInv, Startable, Retryable, Released, Cleared,
          DispatchesOK
    <3>2. CASE p = q
      <4>1. k = j
        BY <1>2, <2>2, <3>2 DEF ReadForDispatch, ReadForRetry, CallsOK, Idle
      <4> QED
        BY <3>1, <4>1, ClearedStays
    <3>3. CASE p # q
      BY <1>2, <2>1, <2>2, <3>3 DEF ReadForDispatch, ReadForRetry, CallsOK
    <3> QED
      BY <3>2, <3>3
  <2>3. ASSUME NEW q \in Caller, Return(q) \/ \E k \in Key, r \in Requests : LookUp(q, k, r)
        PROVE  Cleared(j)'
    <3>1. CASE Return(q)
      BY <1>2, <2>1, <3>1 DEF Return, Idle, CallsOK
    <3>2. ASSUME NEW k \in Key, NEW r \in Requests, LookUp(q, k, r)
          PROVE  Cleared(j)'
      <4>1. [Idle EXCEPT !.at = "creating", !.key = k, !.ask = r].at = "creating"
        BY DEF Idle
      <4> QED
        BY <1>2, <2>1, <3>2, <4>1 DEF LookUp, CallsOK
    <3> QED
      BY <2>3, <3>1, <3>2
  <2>4. ASSUME NEW q \in Caller, Claim(q) \/ MarkRunning(q) \/ BeginAttempt(q) \/ Execute(q)
        PROVE  Cleared(j)'
    <3>1. CASE Return(q)
      BY <2>3, <3>1
    <3>2. ASSUME NEW n, call' = [call EXCEPT ![q].at = n]
          PROVE  call'[p].key = call[p].key /\ (p # q => call'[p].at = call[p].at)
      BY <3>2 DEF CallsOK, CallRecord
    <3>3. ASSUME NEW n, NEW m, call' = [call EXCEPT ![q].at = n, ![q].attempt = m]
          PROVE  call'[p].key = call[p].key /\ (p # q => call'[p].at = call[p].at)
      BY <3>3 DEF CallsOK, CallRecord
    <3>4. ASSUME NEW n, NEW m, call' = [call EXCEPT ![q].at = n, ![q].outcome = m]
          PROVE  call'[p].key = call[p].key /\ (p # q => call'[p].at = call[p].at)
      BY <3>4 DEF CallsOK, CallRecord
    <3>5. call[q].at \notin {"idle", "creating"}
      BY <2>4 DEF Claim, MarkRunning, BeginAttempt, Execute
    <3>6. \/ Return(q)
          \/ call'[p].key = call[p].key /\ (p # q => call'[p].at = call[p].at)
      <4>1. CASE Claim(q) \/ MarkRunning(q)
        BY <3>2, <4>1 DEF Claim, MarkRunning, Swap
      <4>2. CASE BeginAttempt(q)
        BY <3>3, <4>2 DEF BeginAttempt
      <4>3. CASE Execute(q)
        BY <3>4, <4>3 DEF Execute
      <4> QED
        BY <2>4, <4>1, <4>2, <4>3
    <3> QED
      BY <1>2, <2>1, <3>1, <3>5, <3>6
  <2>5. CASE UNCHANGED call
    BY <1>2, <2>1, <2>5
  <2> QED
    BY <2>2, <2>3, <2>4, <2>5
    DEF Next, Proceed, Enter, Insert, InsertLost, Finish, Crash, Cancel, Synchronize,
        RequestApproval, Decide, Approve, ApproveTooLate, Reject, ExpireOrClose, ReachDeadline,
        vars, rows
<1>3. ASSUME NEW k \in Key, executions'[k] > 0
      PROVE  Cleared(k)'
  <2>1. CASE UNCHANGED executions
    BY <1>3, <2>1, ClearedStays DEF GateInv
  <2>2. ASSUME NEW p \in Caller, Execute(p), executions'[k] # executions[k]
        PROVE  Cleared(k)'
    <3>1. call[p].key = k /\ call[p].at = "executing"
      BY <2>2 DEF Execute, HistoryOK
    <3> QED
      BY <3>1, ClearedStays DEF GateInv
  <2>3. CASE executions'[k] = executions[k]
    BY <1>3, <2>3, ClearedStays DEF GateInv
  <2> QED
    BY <2>1, <2>2, <2>3
    DEF Next, Proceed, Enter, LookUp, Insert, InsertLost, ReadForDispatch, ReadForRetry, Claim,
        MarkRunning, Swap, BeginAttempt, Finish, Crash, Cancel, Synchronize, RequestApproval,
        Decide, Approve, ApproveTooLate, Reject, ExpireOrClose, ReachDeadline, vars, rows
<1>4. \A p \in Caller : call'[p].at \notin {"idle", "creating"} => call'[p].key \in Key
  BY CallsStep DEF CallsOK, CallOK
<1> QED
  BY <1>1, <1>2, <1>3, <1>4 DEF GateInv

LEMMA GateInvAlways == Spec => [](TypeInv /\ GateInv)
BY TypeInvInit, TypeInvStep, GateInvInit, GateInvStep, PTL DEF Spec

(* No agent is ever called for approval-required work that its owner has   *)
(* not approved, however many callers race to dispatch, retry or cancel it.*)
THEOREM GatedExecution == Spec => []ExecutionNeedsApproval
<1>1. TypeInv /\ GateInv => ExecutionNeedsApproval
  BY DEF GateInv, ExecutionNeedsApproval, Gated, Cleared
<1> QED
  BY <1>1, GateInvAlways, PTL

-----------------------------------------------------------------------------
(* Every change of a status is an insertion, an edge of _TRANSITIONS, or   *)
(* the cancellation of a failed dispatch, and attempts change only while   *)
(* the row is running.                                                     *)
Legal(from, to) ==
    \/ to = from
    \/ from = "absent" /\ to \in {"pending", "awaiting_approval"}
    \/ from # "absent" /\ to \in Transitions[from]
    \/ from \in Retryable /\ to = "cancelled"

LEMMA LegalMoves ==
    /\ \A s \in Startable \cup Retryable : Legal(s, "dispatching")
    /\ Legal("dispatching", "running")
    /\ \A o \in Outcomes : Legal("running", o)
    /\ \A s \in DispatchStatus \ (Closed \cup {"absent"}) : Legal(s, "cancelled")
    /\ Legal("awaiting_approval", "approved") /\ Legal("awaiting_approval", "rejected")
    /\ \A s \in DispatchStatus : \A t \in Transitions[s] : Legal(s, t)
BY DEF Legal, Transitions, DispatchStatus, Startable, Retryable, Outcomes, Closed, Busy

LEMMA StatusMoves ==
    ASSUME TypeInv, [Next]_vars, NEW k \in Key
    PROVE  /\ Legal(status[k], status'[k])
           /\ attempts'[k] = attempts[k] \/ status[k] = "running"
<1> DEFINE Goal == /\ Legal(status[k], status'[k])
                   /\ attempts'[k] = attempts[k] \/ status[k] = "running"
<1> USE DEF TypeInv
<1>0. Legal(status[k], status[k])
  BY DEF Legal
<1>1. CASE UNCHANGED <<status, attempts>>
  BY <1>0, <1>1
<1>2. ASSUME NEW j \in Key, NEW s, status' = [status EXCEPT ![j] = s], Legal(status[j], s),
             UNCHANGED attempts
      PROVE  Goal
  BY <1>0, <1>2 DEF DispatchesOK
<1>3. ASSUME NEW p \in Caller, Insert(p)
      PROVE  Goal
  <2>1. call[p].key \in Key
    BY <1>3 DEF Insert, CallsOK, CallOK
  <2>2. Legal("absent", "pending") /\ Legal("absent", "awaiting_approval")
    BY DEF Legal
  <2> QED
    BY <1>2, <1>3, <2>1, <2>2 DEF Insert
<1>4. ASSUME NEW p \in Caller, Claim(p) \/ MarkRunning(p)
      PROVE  Goal
  <2>1. call[p].key \in Key /\ (call[p].at = "starting" => call[p].seen \in Startable \cup Retryable)
    BY <1>4 DEF Claim, MarkRunning, CallsOK, CallOK
  <2> QED
    BY <1>1, <1>2, <1>4, <2>1, LegalMoves DEF Claim, MarkRunning, Swap
<1>5. ASSUME NEW p \in Caller, BeginAttempt(p)
      PROVE  Goal
  <2>1. call[p].key \in Key /\ UNCHANGED status
    BY <1>5 DEF BeginAttempt, CallsOK, CallOK
  <2> QED
    BY <1>0, <1>5, <2>1 DEF BeginAttempt, HistoryOK
<1>6. ASSUME NEW p \in Caller, Finish(p)
      PROVE  Goal
  <2>1. call[p].key \in Key /\ call[p].outcome \in Outcomes
    BY <1>6 DEF Finish, CallsOK, CallOK
  <2>2. Legal("running", call[p].outcome)
    BY <2>1, LegalMoves
  <2>3. status'[k] = IF status[call[p].key] = "running" /\ k = call[p].key
                     THEN call[p].outcome ELSE status[k]
    BY <1>6, <2>1 DEF Finish, DispatchesOK
  <2>4. attempts'[k] = attempts[k] \/ status[k] = "running"
    BY <1>6, <2>1 DEF Finish, HistoryOK
  <2> QED
    BY <1>0, <2>2, <2>3, <2>4
<1>7. ASSUME NEW j \in Key, Cancel(j) \/ Synchronize(j)
      PROVE  Goal
  BY <1>2, <1>7, LegalMoves DEF Cancel, Synchronize, DispatchesOK
<1>8. ASSUME NEW a \in ApprovalId, Decide(a)
      PROVE  Goal
  <2>1. Pending(a) => approval[a].key \in Key /\ status[approval[a].key] = "awaiting_approval"
    BY DEF Pending, ApprovalsOK
  <2> QED
    BY <1>1, <1>2, <1>8, <2>1, LegalMoves
    DEF Decide, Approve, ApproveTooLate, Reject, ExpireOrClose, ReachDeadline, Move, rows
<1> QED
  BY <1>1, <1>3, <1>4, <1>5, <1>6, <1>7, <1>8
  DEF Next, Proceed, Enter, LookUp, InsertLost, ReadForDispatch, ReadForRetry, Execute, Crash,
      RequestApproval, vars, rows

(* A dispatch that succeeded, was cancelled or was rejected is never       *)
(* touched again.                                                          *)
THEOREM ClosedIsFinal == Spec => ClosedStaysClosed
<1> DEFINE Step == \A k \in Key : status[k] \in Closed =>
                       status'[k] = status[k] /\ attempts'[k] = attempts[k]
<1>1. ASSUME TypeInv, [Next]_vars, NEW k \in Key, status[k] \in Closed
      PROVE  status'[k] = status[k] /\ attempts'[k] = attempts[k]
  <2>1. status[k] \in DispatchStatus
    BY <1>1 DEF TypeInv, DispatchesOK
  <2>2. \A s \in DispatchStatus : \A t : s \in Closed /\ Legal(s, t) => t = s
    BY DEF Legal, Transitions, Closed, Retryable, Outcomes, Startable, Busy, DispatchStatus
  <2> QED
    BY <1>1, <2>1, <2>2, StatusMoves DEF Closed
<1>2. TypeInv /\ [Next]_vars => [Step]_vars
  BY <1>1
<1> QED
  BY <1>2, TypeInvAlways, PTL DEF Spec, ClosedStaysClosed

-----------------------------------------------------------------------------
(* The decisions: DecisionsAgree and OneOpenApproval are inductive         *)
(* together with the FOREIGN KEY, because a status never returns to        *)
(* awaiting_approval and rejected is final.                                *)
DecisionInv == DecisionsAgree /\ OneOpenApproval

Undecided == {"absent", "pending", "awaiting_approval", "rejected"}

LEMMA DecisionInvInit == Init => DecisionInv
BY DEF Init, DecisionInv, DecisionsAgree, OneOpenApproval

LEMMA DecisionsPersist ==
    ASSUME TypeInv, [Next]_vars, NEW k \in Key
    PROVE  /\ status[k] \notin Undecided => status'[k] \notin Undecided
           /\ status[k] = "rejected" => status'[k] = "rejected"
<1>1. status[k] \in DispatchStatus /\ Legal(status[k], status'[k])
  BY StatusMoves DEF TypeInv, DispatchesOK
<1>2. \A s \in DispatchStatus : \A t : Legal(s, t) =>
         /\ s \notin Undecided => t \notin Undecided
         /\ s = "rejected" => t = "rejected"
  BY DEF Legal, Undecided, Transitions, DispatchStatus, Startable, Retryable, Outcomes, Closed, Busy
<1> QED
  BY <1>1, <1>2

LEMMA DecisionInvStep == TypeInv /\ DecisionInv /\ [Next]_vars => DecisionInv'
<1> SUFFICES ASSUME TypeInv, DecisionInv, [Next]_vars PROVE DecisionInv'
  OBVIOUS
<1> USE DEF TypeInv
<1>1. ASSUME \A a \in ApprovalId :
                /\ approval'[a].status \in {"requested", "approved", "rejected"} =>
                      approval'[a].status = approval[a].status
                /\ approval[a].status # "absent" => approval'[a].key = approval[a].key
      PROVE  DecisionInv'
  <2>1. ASSUME NEW a \in ApprovalId, approval'[a].status \in {"requested", "approved", "rejected"}
        PROVE  approval'[a].key \in Key /\ approval'[a].key = approval[a].key
                  /\ approval[a].status = approval'[a].status
    BY <1>1, <2>1 DEF ApprovalsOK
  <2>2. DecisionsAgree'
    BY <2>1, DecisionsPersist DEF DecisionInv, DecisionsAgree, Undecided
  <2>3. OneOpenApproval'
    BY <2>1 DEF DecisionInv, OneOpenApproval
  <2> QED
    BY <2>2, <2>3 DEF DecisionInv
<1>2. ASSUME NEW a \in ApprovalId, NEW k \in Key, NEW d, Fresh(a), Open(k) = {},
             InsertApproval(a, k, d)
      PROVE  DecisionInv'
  <2>1. \A b \in ApprovalId : b # a => approval'[b] = approval[b]
    BY <1>2 DEF InsertApproval, ApprovalsOK
  <2>2. approval'[a].status = "requested" /\ approval'[a].key = k
    BY <1>2 DEF InsertApproval, ApprovalsOK
  <2>3. \A b \in ApprovalId : b # a /\ approval[b].key = k => approval[b].status # "requested"
    BY <1>2 DEF Open
  <2>4. \A b \in ApprovalId : approval[b].status # "absent" => approval[b].key \in Key
    BY DEF ApprovalsOK
  <2>5. DecisionsAgree'
    <3> SUFFICES ASSUME NEW b \in ApprovalId, b # a
                 PROVE  /\ approval[b].status = "rejected" => status'[approval[b].key] = "rejected"
                        /\ approval[b].status = "approved" =>
                              /\ status'[approval[b].key] \notin Undecided
                              /\ \A c \in ApprovalId \ {b, a} :
                                    approval[c].key = approval[b].key =>
                                        approval[c].status \notin {"approved", "rejected"}
      BY <2>1, <2>2 DEF DecisionsAgree, Undecided
    <3> QED
      BY <2>4, DecisionsPersist DEF DecisionInv, DecisionsAgree, Undecided
  <2>6. OneOpenApproval'
    BY <2>1, <2>2, <2>3 DEF DecisionInv, OneOpenApproval
  <2> QED
    BY <2>5, <2>6 DEF DecisionInv
<1>3. ASSUME NEW a \in ApprovalId, Approve(a) \/ Reject(a)
      PROVE  DecisionInv'
  <2> PICK k \in Key : k = approval[a].key /\ status[k] = "awaiting_approval"
    BY <1>3 DEF Approve, Reject, Pending, ApprovalsOK
  <2>1. \A b \in ApprovalId : b # a => approval'[b] = approval[b]
    BY <1>3 DEF Approve, Reject, Resolve, ApprovalsOK
  <2>2. /\ approval'[a].key = k
        /\ \/ approval'[a].status = "approved" /\ status'[k] = "approved"
           \/ approval'[a].status = "rejected" /\ status'[k] = "rejected"
    BY <1>3 DEF Approve, Reject, Resolve, Move, ApprovalsOK, ApprovalRecord, DispatchesOK
  <2>3. \A b \in ApprovalId : b # a /\ approval[b].key = k =>
           approval[b].status \notin {"approved", "rejected"}
    BY DEF DecisionInv, DecisionsAgree
  <2>4. \A b \in ApprovalId : approval[b].status # "absent" => approval[b].key \in Key
    BY DEF ApprovalsOK
  <2>5. DecisionsAgree'
    <3>1. ASSUME NEW b \in ApprovalId, b # a
          PROVE  /\ approval[b].status = "rejected" => status'[approval[b].key] = "rejected"
                 /\ approval[b].status = "approved" =>
                       /\ status'[approval[b].key] \notin Undecided
                       /\ \A c \in ApprovalId \ {b} :
                             approval'[c].key = approval[b].key =>
                                 approval'[c].status \notin {"approved", "rejected"}
      <4>1. approval[b].status = "approved" => approval[b].key # k
        BY <3>1, <2>3
      <4> QED
        BY <2>1, <2>2, <2>4, <4>1, DecisionsPersist DEF DecisionInv, DecisionsAgree, Undecided
    <3>2. /\ approval'[a].status = "rejected" => status'[k] = "rejected"
          /\ approval'[a].status = "approved" => status'[k] \notin Undecided
          /\ \A c \in ApprovalId \ {a} :
                approval'[c].key = k => approval'[c].status \notin {"approved", "rejected"}
      BY <2>1, <2>2, <2>3 DEF Undecided
    <3> QED
      BY <2>1, <2>2, <3>1, <3>2 DEF DecisionsAgree, Undecided
  <2>6. OneOpenApproval'
    BY <2>1, <2>2 DEF DecisionInv, OneOpenApproval
  <2> QED
    BY <2>5, <2>6 DEF DecisionInv
<1>4. CASE UNCHANGED approval
  BY <1>1, <1>4
<1>5. ASSUME NEW k \in Key, Cancel(k)
      PROVE  DecisionInv'
  BY <1>1, <1>5 DEF Cancel, Open, ApprovalsOK, ApprovalRecord
<1>6. ASSUME NEW a \in ApprovalId, ExpireOrClose(a) \/ ReachDeadline(a)
      PROVE  DecisionInv'
  BY <1>1, <1>6 DEF ExpireOrClose, ReachDeadline, Resolve, ApprovalsOK, ApprovalRecord
<1>7. ASSUME NEW p \in Caller, Insert(p)
      PROVE  DecisionInv'
  <2>1. call[p].key \in Key /\ Open(call[p].key) = {}
    BY <1>7 DEF Insert, CallsOK, CallOK, Open, ApprovalsOK
  <2> QED
    BY <1>2, <1>4, <1>7, <2>1 DEF Insert
<1>8. ASSUME NEW k \in Key, NEW a \in ApprovalId, NEW d \in {"none", "ahead"},
             RequestApproval(k, a, d)
      PROVE  DecisionInv'
  BY <1>2, <1>8 DEF RequestApproval
<1> QED
  BY <1>3, <1>4, <1>5, <1>6, <1>7, <1>8
  DEF Next, Proceed, Enter, LookUp, InsertLost, ReadForDispatch, ReadForRetry, Claim, MarkRunning,
      Swap, BeginAttempt, Execute, Finish, Crash, Synchronize, Decide, ApproveTooLate, vars, rows

LEMMA DecisionInvAlways == Spec => []DecisionInv
BY TypeInvInit, TypeInvStep, DecisionInvInit, DecisionInvStep, PTL DEF Spec

(* The approvals of a dispatch and its status tell one story.              *)
THEOREM DecisionsAreConsistent == Spec => []DecisionsAgree
BY DecisionInvAlways, PTL DEF DecisionInv

(* At most one approval of a dispatch waits for the owner.                 *)
THEOREM OpenApprovalsAreUnique == Spec => []OneOpenApproval
BY DecisionInvAlways, PTL DEF DecisionInv

-----------------------------------------------------------------------------
(* A caller that has claimed a row has left the states before the work     *)
(* behind, and a status never returns to them.                             *)
Started == Busy \cup Outcomes \cup Closed

InFlightStep == {"claimed", "numbering", "executing", "finishing"}

StartedInv ==
    \A p \in Caller : call[p].at \in InFlightStep => status[call[p].key] \in Started

LEMMA StartedStays ==
    ASSUME TypeInv, [Next]_vars, NEW k \in Key, status[k] \in Started
    PROVE  status'[k] \in Started
<1>1. status[k] \in DispatchStatus /\ Legal(status[k], status'[k])
  BY StatusMoves DEF TypeInv, DispatchesOK
<1>2. \A s \in DispatchStatus : \A t : Legal(s, t) /\ s \in Started => t \in Started
  BY DEF Legal, Started, Transitions, DispatchStatus, Startable, Retryable, Outcomes, Closed, Busy
<1> QED
  BY <1>1, <1>2

(* How the locals of a caller change in a step: they stay, it returns, it  *)
(* reads a row, or it goes on with the row it is at.                       *)
Enters(p) ==
    \E k \in Key : /\ ReadForDispatch(p, k) \/ ReadForRetry(p, k)
                   /\ call'[p].at = "starting"
                   /\ call'[p].key = k

GoesOn(p) ==
    LET k == call[p].key
    IN  /\ call'[p].key = k
        /\ \/ /\ Claim(p) /\ call'[p].at = "claimed"
              /\ status[k] = call[p].seen /\ status'[k] = "dispatching"
           \/ /\ MarkRunning(p) /\ call'[p].at = "numbering"
              /\ status[k] = "dispatching" /\ status'[k] = "running"
           \/ BeginAttempt(p) /\ call'[p].at = "executing"
           \/ Execute(p) /\ call'[p].at = "finishing" /\ call'[p].attempt = call[p].attempt

Moves(p) ==
    \/ call'[p] \in {call[p], Idle}
    \/ call[p] = Idle /\ call'[p].at = "creating"
    \/ Enters(p)
    \/ GoesOn(p)

LEMMA CallerMoves ==
    ASSUME TypeInv, [Next]_vars, NEW p \in Caller
    PROVE  Moves(p)
<1> USE DEF Moves
<1>0. call \in [Caller -> CallRecord] /\ CallOK(call[p]) /\ status \in [Key -> DispatchStatus]
  BY DEF TypeInv, CallsOK, DispatchesOK
<1>1. ASSUME UNCHANGED call
      PROVE  Moves(p)
  BY <1>1
<1>2. ASSUME NEW q \in Caller, Return(q)
      PROVE  Moves(p)
  BY <1>0, <1>2 DEF Return
<1>3. ASSUME NEW q \in Caller, NEW c, call' = [call EXCEPT ![q] = c], q # p
      PROVE  Moves(p)
  BY <1>0, <1>3
<1>4. ASSUME NEW q \in Caller, NEW k \in Key, NEW r \in Requests, LookUp(q, k, r)
      PROVE  Moves(p)
  <2>1. call' = [call EXCEPT ![q] = [Idle EXCEPT !.at = "creating", !.key = k, !.ask = r]]
    BY <1>4 DEF LookUp
  <2>2. [Idle EXCEPT !.at = "creating", !.key = k, !.ask = r].at = "creating"
    BY DEF Idle
  <2>3. call[q] = Idle
    BY <1>4 DEF LookUp
  <2> QED
    BY <1>0, <1>3, <2>1, <2>2, <2>3
<1>5. ASSUME NEW q \in Caller, NEW k \in Key, ReadForDispatch(q, k)
      PROVE  Moves(p)
  <2>1. call' = [call EXCEPT ![q] = [Idle EXCEPT !.at = "starting", !.key = k, !.seen = status[k]]]
    BY <1>5 DEF ReadForDispatch
  <2>2. /\ [Idle EXCEPT !.at = "starting", !.key = k, !.seen = status[k]].at = "starting"
        /\ [Idle EXCEPT !.at = "starting", !.key = k, !.seen = status[k]].key = k
    BY DEF Idle
  <2>3. CASE q = p
    BY <1>0, <1>5, <2>1, <2>2, <2>3 DEF Enters
  <2> QED
    BY <1>3, <2>1, <2>3
<1>6. ASSUME NEW q \in Caller, NEW k \in Key, ReadForRetry(q, k)
      PROVE  Moves(p)
  <2>1. call' = [call EXCEPT ![q] = [Idle EXCEPT !.at = "starting", !.key = k, !.retry = TRUE,
                                                 !.seen = status[k]]]
    BY <1>6 DEF ReadForRetry
  <2>2. /\ [Idle EXCEPT !.at = "starting", !.key = k, !.retry = TRUE, !.seen = status[k]].at = "starting"
        /\ [Idle EXCEPT !.at = "starting", !.key = k, !.retry = TRUE, !.seen = status[k]].key = k
    BY DEF Idle
  <2>3. CASE q = p
    BY <1>0, <1>6, <2>1, <2>2, <2>3 DEF Enters
  <2> QED
    BY <1>3, <2>1, <2>3
<1>7. ASSUME NEW q \in Caller, Claim(q) \/ MarkRunning(q) \/ BeginAttempt(q) \/ Execute(q)
      PROVE  Moves(p)
  <2>1. CASE q # p
    <3>1. ASSUME NEW n, call' = [call EXCEPT ![q].at = n]
          PROVE  call'[p] = call[p]
      BY <1>0, <2>1, <3>1
    <3>2. ASSUME NEW n, NEW m, call' = [call EXCEPT ![q].at = n, ![q].attempt = m]
          PROVE  call'[p] = call[p]
      BY <1>0, <2>1, <3>2
    <3>3. ASSUME NEW n, NEW m, call' = [call EXCEPT ![q].at = n, ![q].outcome = m]
          PROVE  call'[p] = call[p]
      BY <1>0, <2>1, <3>3
    <3>4. CASE Claim(q) \/ MarkRunning(q)
      BY <1>2, <3>1, <3>4 DEF Claim, MarkRunning, Swap
    <3>5. CASE BeginAttempt(q)
      BY <1>2, <3>2, <3>5 DEF BeginAttempt
    <3>6. CASE Execute(q)
      BY <1>2, <3>3, <3>6 DEF Execute
    <3> QED
      BY <1>7, <3>4, <3>5, <3>6
  <2>2. CASE q = p
    <3>0. call[p].at # "idle" => call[p].key \in Key
      BY <1>0 DEF CallOK
    <3>1. CASE Claim(p)
      <4>1. CASE Return(p)
        BY <1>2, <4>1
      <4>2. CASE ~Return(p)
        <5>1. /\ status[call[p].key] = call[p].seen
              /\ status' = [status EXCEPT ![call[p].key] = "dispatching"]
              /\ call' = [call EXCEPT ![p].at = "claimed"]
          BY <3>1, <4>2 DEF Claim, Swap
        <5>2. call'[p].at = "claimed" /\ call'[p].key = call[p].key
          BY <1>0, <5>1 DEF CallRecord
        <5>3. status'[call[p].key] = "dispatching"
          BY <1>0, <3>0, <3>1, <5>1 DEF Claim
        <5> QED
          BY <3>1, <5>1, <5>2, <5>3 DEF GoesOn
      <4> QED
        BY <4>1, <4>2
    <3>2. CASE MarkRunning(p)
      <4>1. CASE Return(p)
        BY <1>2, <4>1
      <4>2. CASE ~Return(p)
        <5>1. /\ status[call[p].key] = "dispatching"
              /\ status' = [status EXCEPT ![call[p].key] = "running"]
              /\ call' = [call EXCEPT ![p].at = "numbering"]
          BY <3>2, <4>2 DEF MarkRunning, Swap
        <5>2. call'[p].at = "numbering" /\ call'[p].key = call[p].key
          BY <1>0, <5>1 DEF CallRecord
        <5>3. status'[call[p].key] = "running"
          BY <1>0, <3>0, <3>2, <5>1 DEF MarkRunning
        <5> QED
          BY <3>2, <5>1, <5>2, <5>3 DEF GoesOn
      <4> QED
        BY <4>1, <4>2
    <3>3. CASE BeginAttempt(p)
      <4>1. ASSUME NEW m, call' = [call EXCEPT ![p].at = "executing", ![p].attempt = m]
            PROVE  call'[p].key = call[p].key /\ call'[p].at = "executing"
        BY <1>0, <4>1 DEF CallRecord
      <4> QED
        BY <1>2, <3>3, <4>1 DEF BeginAttempt, GoesOn
    <3>4. CASE Execute(p)
      <4>1. ASSUME NEW m, call' = [call EXCEPT ![p].at = "finishing", ![p].outcome = m]
            PROVE  /\ call'[p].key = call[p].key /\ call'[p].at = "finishing"
                   /\ call'[p].attempt = call[p].attempt
        BY <1>0, <4>1 DEF CallRecord
      <4> QED
        BY <1>2, <3>4, <4>1 DEF Execute, GoesOn
    <3> QED
      BY <1>7, <2>2, <3>1, <3>2, <3>3, <3>4
  <2> QED
    BY <2>1, <2>2
<1> QED
  BY <1>1, <1>2, <1>4, <1>5, <1>6, <1>7
  DEF Next, Proceed, Enter, Insert, InsertLost, Finish, Crash, Cancel, Synchronize,
      RequestApproval, Decide, Approve, ApproveTooLate, Reject, ExpireOrClose, ReachDeadline, vars

LEMMA StartedInvInit == Init => StartedInv
BY DEF Init, StartedInv, InFlightStep, Idle

LEMMA StartedInvStep == TypeInv /\ StartedInv /\ [Next]_vars => StartedInv'
<1> SUFFICES ASSUME TypeInv, StartedInv, [Next]_vars,
                    NEW p \in Caller, call'[p].at \in InFlightStep
             PROVE  status'[call'[p].key] \in Started
  BY DEF StartedInv
<1>1. call[p].at # "idle" => call[p].key \in Key
  BY DEF TypeInv, CallsOK, CallOK
<1>2. CASE call'[p].key = call[p].key /\ call[p].at \in InFlightStep
  BY <1>1, <1>2, StartedStays DEF StartedInv, InFlightStep
<1>3. CASE Claim(p) /\ call'[p].key = call[p].key /\ status'[call[p].key] = "dispatching"
  BY <1>3 DEF Started, Busy
<1>4. Idle.at = "idle"
  BY DEF Idle
<1> QED
  BY <1>1, <1>2, <1>3, <1>4, CallerMoves
  DEF Moves, Enters, GoesOn, InFlightStep, MarkRunning, BeginAttempt, Execute

LEMMA StartedInvAlways == Spec => [](TypeInv /\ GateInv /\ StartedInv)
BY GateInvAlways, StartedInvInit, StartedInvStep, PTL DEF Spec

-----------------------------------------------------------------------------
(* The refinement. Phases, Guarded and Grants are what Gate's variables    *)
(* stand for.                                                              *)
Phases  == [k \in Key |-> PhaseOf(status[k])]
Guarded == {k \in Key : Gated(k)}
Grants  == {k \in Key : Granted(k)}

LEMMA PhaseTyping ==
    /\ PhaseOf("absent") = "none" /\ PhaseOf("awaiting_approval") = "waiting"
    /\ \A s \in Startable : PhaseOf(s) = "ready"
    /\ \A s \in Busy : PhaseOf(s) = "busy"
    /\ \A s \in Retryable : PhaseOf(s) = "faulted"
    /\ PhaseOf("succeeded") = "done"
    /\ PhaseOf("cancelled") = "closed" /\ PhaseOf("rejected") = "closed"
BY DEF PhaseOf, Startable, Busy, Retryable

(* A row that moves takes its phase along; the rest of the contract's      *)
(* state is that of the tables.                                            *)
LEMMA PhaseMoves ==
    ASSUME TypeInv, NEW k \in Key, NEW s, status' = [status EXCEPT ![k] = s]
    PROVE  Phases' = [Phases EXCEPT ![k] = PhaseOf(s)]
BY DEF TypeInv, DispatchesOK, Phases

LEMMA GuardedStays ==
    ASSUME TypeInv, [Next]_vars, \A k \in Key : status[k] = "absent" => status'[k] = "absent"
    PROVE  Guarded' = Guarded
BY DispatchesStep DEF Guarded, Gated

(* Only Approve grants.                                                    *)
LEMMA GrantsStay ==
    ASSUME TypeInv, [Next]_vars,
           \A a \in ApprovalId : approval'[a].status = "approved" => approval[a].status = "approved"
    PROVE  Grants' = Grants
BY ApprovalsStep DEF Grants, Granted

LEMMA GateStutters ==
    ASSUME TypeInv, [Next]_vars, UNCHANGED <<status, executions>>,
           \A a \in ApprovalId : approval'[a].status = "approved" => approval[a].status = "approved"
    PROVE  UNCHANGED Gate!vars
<1>1. Guarded' = Guarded /\ Grants' = Grants
  BY GuardedStays, GrantsStay
<1>2. Phases' = Phases
  BY DEF Phases
<1> QED
  BY <1>1, <1>2 DEF Gate!vars, Guarded, Grants, Phases

LEMMA GateInit == Init => Gate!Init
BY PhaseTyping DEF Init, Gate!Init, Gated, Granted

LEMMA GateStep ==
    ASSUME TypeInv, GateInv, StartedInv, [Next]_vars
    PROVE  [Gate!Next]_(Gate!vars)
<1> DEFINE Goal == [Gate!Next]_(Gate!vars)
<1> SUFFICES Goal
  OBVIOUS
<1> USE DEF TypeInv
<1>0. status \in [Key -> DispatchStatus]
  BY DEF DispatchesOK
(* A status that moves while no approval is granted and no agent called.   *)
<1>1. ASSUME NEW k \in Key, NEW s, status' = [status EXCEPT ![k] = s], status[k] # "absent",
             UNCHANGED executions,
             \A a \in ApprovalId : approval'[a].status = "approved" => approval[a].status = "approved"
      PROVE  /\ Phases' = [Phases EXCEPT ![k] = PhaseOf(s)]
             /\ Phases[k] = PhaseOf(status[k])
             /\ Guarded' = Guarded /\ Grants' = Grants /\ executions' = executions
  <2>1. \A j \in Key : status[j] = "absent" => status'[j] = "absent"
    BY <1>0, <1>1
  <2> QED
    BY <1>1, <2>1, PhaseMoves, GuardedStays, GrantsStay DEF Phases
<1>2. ASSUME NEW k \in Key, NEW s, status' = [status EXCEPT ![k] = s], status[k] # "absent",
             UNCHANGED executions,
             \A a \in ApprovalId : approval'[a].status = "approved" => approval[a].status = "approved",
             \/ PhaseOf(s) = PhaseOf(status[k])
             \/ PhaseOf(s) = "busy" /\ PhaseOf(status[k]) \in {"ready", "faulted"} /\ Cleared(k)
             \/ PhaseOf(s) \in {"done", "faulted"} /\ PhaseOf(status[k]) = "busy"
             \/ PhaseOf(s) = "closed" /\ PhaseOf(status[k]) \in Gate!Phase \ {"none", "done", "closed"}
      PROVE  Goal
  <2>0. /\ Phases' = [Phases EXCEPT ![k] = PhaseOf(s)]
        /\ Phases[k] = PhaseOf(status[k])
        /\ Guarded' = Guarded /\ Grants' = Grants /\ executions' = executions
    BY <1>1, <1>2
  <2>1. CASE PhaseOf(s) = PhaseOf(status[k])
    <3>1. Phases' = Phases
      BY <2>0, <2>1 DEF Phases
    <3> QED
      BY <2>0, <3>1 DEF Gate!vars, Phases, Guarded, Grants
  <2>2. CASE PhaseOf(s) = "busy" /\ PhaseOf(status[k]) \in {"ready", "faulted"} /\ Cleared(k)
    <3>1. k \in Guarded => k \in Grants
      BY <2>2 DEF Cleared, Guarded, Grants, Gated
    <3>2. Gate!Start(k)
      BY <2>0, <2>2, <3>1 DEF Gate!Start, Gate!Allowed, Gate!Move, Phases, Guarded, Grants
    <3> QED
      BY <3>2 DEF Gate!Next
  <2>3. CASE PhaseOf(s) \in {"done", "faulted"} /\ PhaseOf(status[k]) = "busy"
    <3>1. Gate!End(k)
      BY <2>0, <2>3 DEF Gate!End, Gate!Move, Phases, Guarded, Grants
    <3> QED
      BY <3>1 DEF Gate!Next
  <2>4. CASE PhaseOf(s) = "closed" /\ PhaseOf(status[k]) \in Gate!Phase \ {"none", "done", "closed"}
    <3>1. Gate!Close(k)
      BY <2>0, <2>4 DEF Gate!Close, Gate!Move, Phases, Guarded, Grants
    <3> QED
      BY <3>1 DEF Gate!Next
  <2> QED
    BY <1>2, <2>1, <2>2, <2>3, <2>4
(* A call that inserts its row.                                            *)
<1>3. ASSUME NEW p \in Caller, Insert(p)
      PROVE  Goal
  <2> DEFINE k == call[p].key
             s == IF call[p].ask.gated THEN "awaiting_approval" ELSE "pending"
  <2>1. k \in Key /\ status[k] = "absent" /\ call[p].ask \in Requests
    BY <1>3 DEF Insert, CallsOK, CallOK
  <2>2. /\ status' = [status EXCEPT ![k] = s] /\ request' = [request EXCEPT ![k] = call[p].ask]
        /\ executions' = executions
    BY <1>3, <2>1, DispatchAssumption DEF Insert
  <2>3. Grants' = Grants
    <3>1. \A a \in ApprovalId : approval'[a].status = "approved" => approval[a].status = "approved"
      BY <1>3 DEF Insert, InsertApproval, ApprovalsOK
    <3> QED
      BY <3>1, GrantsStay
  <2>4. Guarded' = IF call[p].ask.gated THEN Guarded \cup {k} ELSE Guarded
    BY <1>0, <2>1, <2>2, DispatchAssumption DEF Guarded, Gated, DispatchesOK
  <2>5. /\ Phases' = [Phases EXCEPT ![k] = PhaseOf(s)] /\ Phases[k] = "none"
        /\ PhaseOf("awaiting_approval") = "waiting" /\ PhaseOf("pending") = "ready"
    BY <2>1, <2>2, PhaseMoves, PhaseTyping DEF Phases, Startable
  <2>6. Gate!Submit(k)
    BY <2>2, <2>3, <2>4, <2>5 DEF Gate!Submit, Gate!Move, Phases, Guarded, Grants
  <2> QED
    BY <2>1, <2>6 DEF Gate!Next
<1>4. ASSUME NEW p \in Caller, Claim(p) \/ MarkRunning(p) \/ Finish(p)
      PROVE  Goal
  <2> DEFINE k == call[p].key
  <2>1. /\ k \in Key /\ Cleared(k)
        /\ call[p].at = "starting" => call[p].seen \in Startable \cup Retryable
        /\ call[p].at = "finishing" => call[p].outcome \in Outcomes
    BY <1>4 DEF Claim, MarkRunning, Finish, CallsOK, CallOK, GateInv
  <2>2. UNCHANGED <<approval, executions>> /\ status[k] # "absent"
    BY <1>4, <2>1 DEF Claim, MarkRunning, Finish, Swap, Cleared
  <2>3. CASE UNCHANGED status
    BY <2>2, <2>3, GateStutters
  <2>4. CASE Claim(p) /\ ~UNCHANGED status
    <3>1. /\ status' = [status EXCEPT ![k] = "dispatching"]
          /\ status[k] \in Startable \cup Retryable
      BY <2>1, <2>4 DEF Claim, Swap
    <3> QED
      BY <1>2, <2>1, <2>2, <3>1, PhaseTyping DEF Busy
  <2>5. CASE MarkRunning(p) /\ ~UNCHANGED status
    <3>1. status' = [status EXCEPT ![k] = "running"] /\ status[k] = "dispatching"
      BY <2>5 DEF MarkRunning, Swap
    <3> QED
      BY <1>2, <2>1, <2>2, <3>1, PhaseTyping DEF Busy
  <2>6. CASE Finish(p) /\ ~UNCHANGED status
    <3>1. /\ status' = [status EXCEPT ![k] = call[p].outcome] /\ status[k] = "running"
          /\ call[p].outcome \in Outcomes
      BY <2>1, <2>6 DEF Finish
    <3>2. PhaseOf(call[p].outcome) \in {"done", "faulted"}
      BY <3>1, PhaseTyping DEF Outcomes, Retryable
    <3> QED
      BY <1>2, <2>1, <2>2, <3>1, <3>2, PhaseTyping DEF Busy
  <2> QED
    BY <1>4, <2>3, <2>4, <2>5, <2>6
(* The call of the agent.                                                  *)
<1>5. ASSUME NEW p \in Caller, Execute(p)
      PROVE  Goal
  <2> DEFINE k == call[p].key
  <2>1. k \in Key /\ Cleared(k) /\ status[k] \in Started /\ UNCHANGED <<status, approval>>
    BY <1>5 DEF Execute, CallsOK, CallOK, GateInv, StartedInv, InFlightStep, rows
  <2>2. CASE UNCHANGED executions
    BY <2>1, <2>2, GateStutters
  <2>3. CASE executions' = [executions EXCEPT ![k] = @ + 1]
    <3>1. k \in Guarded => k \in Grants
      BY <2>1 DEF Cleared, Guarded, Grants, Gated
    <3>2. Phases[k] \notin {"none", "waiting", "ready"}
      <4>1. \A s \in Started : PhaseOf(s) \notin {"none", "waiting", "ready"}
        BY DEF Started, PhaseOf, Busy, Outcomes, Closed, Startable, Retryable
      <4> QED
        BY <2>1, <4>1 DEF Phases
    <3>3. Phases' = Phases
      BY <2>1 DEF Phases
    <3>4. Guarded' = Guarded /\ Grants' = Grants
      BY <2>1, GuardedStays, GrantsStay
    <3>5. Gate!Run(k)
      BY <2>3, <3>1, <3>2, <3>3, <3>4 DEF Gate!Run, Gate!Allowed, Phases, Guarded, Grants
    <3> QED
      BY <2>1, <3>5 DEF Gate!Next
  <2> QED
    BY <1>5, <2>2, <2>3 DEF Execute
<1>6. ASSUME NEW k \in Key, Cancel(k)
      PROVE  Goal
  <2>1. \A a \in ApprovalId : approval'[a].status = "approved" => approval[a].status = "approved"
    BY <1>6 DEF Cancel, Open, ApprovalsOK, ApprovalRecord
  <2>2. /\ status' = [status EXCEPT ![k] = "cancelled"] /\ status[k] \notin Closed \cup {"absent"}
        /\ UNCHANGED executions
    BY <1>6 DEF Cancel
  <2>3. \A s \in DispatchStatus \ (Closed \cup {"absent"}) :
           PhaseOf(s) \in Gate!Phase \ {"none", "done", "closed"}
    BY DEF PhaseOf, Gate!Phase, DispatchStatus, Busy, Outcomes, Closed, Startable, Retryable
  <2> QED
    BY <1>0, <1>2, <2>1, <2>2, <2>3, PhaseTyping
<1>7. ASSUME NEW k \in Key, Synchronize(k)
      PROVE  Goal
  <2>1. PICK s \in Transitions[status[k]] \cap (Outcomes \cup {"pending", "running", "cancelled"}) :
            status' = [status EXCEPT ![k] = s]
    BY <1>7 DEF Synchronize
  <2>2. /\ status[k] # "absent"
        /\ \/ PhaseOf(s) = PhaseOf(status[k])
           \/ PhaseOf(s) \in {"done", "faulted"} /\ PhaseOf(status[k]) = "busy"
           \/ PhaseOf(s) = "closed" /\ PhaseOf(status[k]) \in Gate!Phase \ {"none", "done", "closed"}
    BY <1>0, <2>1, StatusTyping
    DEF PhaseOf, Gate!Phase, Transitions, Busy, Outcomes, Closed, Startable, Retryable
  <2> QED
    BY <1>2, <1>7, <2>1, <2>2 DEF Synchronize
<1>8. ASSUME NEW a \in ApprovalId, Approve(a)
      PROVE  Goal
  <2>1. PICK k \in Key : k = approval[a].key /\ status[k] = "awaiting_approval"
    BY <1>8 DEF Approve, Pending, ApprovalsOK
  <2>2. status' = [status EXCEPT ![k] = "approved"] /\ UNCHANGED executions
    BY <1>8, <2>1 DEF Approve, Move
  <2>3. Grants' = Grants \cup {k}
    <3>1. approval' = [approval EXCEPT ![a].status = "approved"]
      BY <1>8 DEF Approve, Resolve
    <3>2. \A b \in ApprovalId : approval'[b].key = approval[b].key
      BY <3>1 DEF ApprovalsOK, ApprovalRecord
    <3>3. \A b \in ApprovalId : approval'[b].status = "approved" <=> b = a \/ approval[b].status = "approved"
      BY <3>1 DEF ApprovalsOK, ApprovalRecord
    <3> QED
      BY <2>1, <3>2, <3>3 DEF Grants, Granted
  <2>4. Guarded' = Guarded
    BY <1>0, <2>1, <2>2, GuardedStays
  <2>5. /\ Phases' = [Phases EXCEPT ![k] = "ready"] /\ Phases[k] = "waiting"
    <3>1. PhaseOf("approved") = "ready" /\ PhaseOf("awaiting_approval") = "waiting"
      BY PhaseTyping DEF Startable
    <3>2. Phases' = [Phases EXCEPT ![k] = PhaseOf("approved")]
      BY <2>2, PhaseMoves
    <3>3. Phases[k] = PhaseOf(status[k])
      BY DEF Phases
    <3> QED
      BY <2>1, <3>1, <3>2, <3>3
  <2>6. Gate!Grant(k)
    BY <2>2, <2>3, <2>4, <2>5 DEF Gate!Grant, Gate!Move, Phases, Guarded, Grants
  <2> QED
    BY <2>6 DEF Gate!Next
<1>9. ASSUME NEW a \in ApprovalId, Reject(a)
      PROVE  Goal
  <2>1. PICK k \in Key : k = approval[a].key /\ status[k] = "awaiting_approval"
    BY <1>9 DEF Reject, Pending, ApprovalsOK
  <2>2. status' = [status EXCEPT ![k] = "rejected"] /\ UNCHANGED executions
    BY <1>9, <2>1 DEF Reject, Move
  <2>3. \A b \in ApprovalId : approval'[b].status = "approved" => approval[b].status = "approved"
    BY <1>9 DEF Reject, Resolve, ApprovalsOK, ApprovalRecord
  <2>4. "waiting" \in Gate!Phase \ {"none", "done", "closed"}
    BY DEF Gate!Phase
  <2> QED
    BY <1>2, <2>1, <2>2, <2>3, <2>4, PhaseTyping
<1>10. CASE /\ UNCHANGED <<status, executions>>
            /\ \A a \in ApprovalId : approval'[a].status = "approved" => approval[a].status = "approved"
  BY <1>10, GateStutters
<1>11. ASSUME NEW a \in ApprovalId, ExpireOrClose(a) \/ ReachDeadline(a) \/ ApproveTooLate(a)
       PROVE  Goal
  BY <1>10, <1>11
  DEF ExpireOrClose, ReachDeadline, ApproveTooLate, Resolve, ApprovalsOK, ApprovalRecord, rows
<1>12. ASSUME NEW k \in Key, NEW a \in ApprovalId, NEW d \in {"none", "ahead"},
              RequestApproval(k, a, d)
       PROVE  Goal
  BY <1>10, <1>12 DEF RequestApproval, InsertApproval, ApprovalsOK
<1> QED
  BY <1>3, <1>4, <1>5, <1>6, <1>7, <1>8, <1>9, <1>10, <1>11, <1>12
  DEF Next, Proceed, Enter, LookUp, InsertLost, ReadForDispatch, ReadForRetry, BeginAttempt,
      Crash, Decide, vars, rows

(* The dispatches and approvals implement the owner's contract: guarded    *)
(* work reaches an agent only after its grant, which is one step with its  *)
(* release, and nothing happens any more to work that is done or closed.   *)
THEOREM GateIsImplemented == Spec => ImplementsGate
<1>1. TypeInv /\ GateInv /\ StartedInv /\ [Next]_vars => [Gate!Next]_(Gate!vars)
  BY GateStep
<1> QED
  BY <1>1, GateInit, StartedInvAlways, PTL DEF Spec, ImplementsGate, Gate!Spec

-----------------------------------------------------------------------------
(* Attempts are first made when a row has left Early, and a call that is   *)
(* on its way to number one found room for it, so that attempts and such   *)
(* calls together are bounded.                                             *)
Early == {"absent", "awaiting_approval"} \cup Startable

Coming(k) == {p \in Caller : call[p].key = k /\ call[p].at \in {"starting", "claimed", "numbering"}}

OverrunInv ==
    \A k \in Key :
        /\ status[k] \in Early => attempts[k] = <<>>
        /\ status[k] # "absent" =>
              Len(attempts[k]) + Cardinality(Coming(k)) < request[k].max + Cardinality(Caller)

LEMMA ComingIsFinite ==
    ASSUME IsFiniteSet(Caller), NEW S \in SUBSET Caller
    PROVE  IsFiniteSet(S) /\ Cardinality(S) \in Nat /\ Cardinality(S) <= Cardinality(Caller)
BY FS_Subset, FS_CardinalityType

LEMMA Sizes ==
    ASSUME TypeInv, NEW k \in Key
    PROVE  /\ Len(attempts[k]) \in Nat
           /\ status[k] # "absent" => request[k].max \in 1..10
<1>1. attempts[k] \in Seq({"running"} \cup Outcomes)
  BY DEF TypeInv, HistoryOK
<1>2. status[k] # "absent" => request[k] \in Requests
  BY DEF TypeInv, DispatchesOK
<1> QED
  BY <1>1, <1>2, DispatchAssumption

LEMMA EarlyIsUntried ==
    ASSUME TypeInv, OverrunInv, [Next]_vars, NEW k \in Key, status'[k] \in Early
    PROVE  attempts'[k] = <<>>
<1>1. status[k] \in DispatchStatus /\ Legal(status[k], status'[k])
  BY StatusMoves DEF TypeInv, DispatchesOK
<1>2. \A s \in DispatchStatus : \A t : Legal(s, t) /\ t \in Early => s \in Early /\ s # "running"
  BY DEF Legal, Early, Transitions, DispatchStatus, Startable, Retryable, Outcomes, Closed, Busy
<1> QED
  BY <1>1, <1>2, StatusMoves DEF OverrunInv

(* Who makes a row's list of attempts longer.                              *)
Numbers(p, k) ==
    /\ BeginAttempt(p) /\ call[p].key = k
    /\ Len(attempts'[k]) = Len(attempts[k]) + 1
    /\ call'[p].at = "executing"
    /\ status[k] = "running"

LEMMA LengthStep ==
    ASSUME TypeInv, [Next]_vars, NEW k \in Key
    PROVE  Len(attempts'[k]) = Len(attempts[k]) \/ \E p \in Caller : Numbers(p, k)
<1> USE DEF TypeInv
<1>0. attempts \in [Key -> Seq({"running"} \cup Outcomes)] /\ call \in [Caller -> CallRecord]
  BY DEF HistoryOK, CallsOK
<1>1. ASSUME NEW p \in Caller, BeginAttempt(p)
      PROVE  Len(attempts'[k]) = Len(attempts[k]) \/ Numbers(p, k)
  <2> DEFINE j == call[p].key
  <2>1. CASE UNCHANGED attempts
    BY <2>1
  <2>2. CASE attempts' = [attempts EXCEPT ![j] = Append(@, "running")] /\ status[j] = "running"
             /\ call' = [call EXCEPT ![p].at = "executing", ![p].attempt = Len(attempts[j]) + 1]
    <3>1. call'[p].at = "executing"
      BY <1>0, <2>2 DEF CallRecord
    <3>2. CASE j = k
      <4>1. Len(attempts'[k]) = Len(attempts[k]) + 1
        BY <1>0, <2>2, <3>2
      <4> QED
        BY <1>1, <2>2, <3>1, <3>2, <4>1 DEF Numbers
    <3>3. CASE j # k
      BY <1>0, <2>2, <3>3
    <3> QED
      BY <3>2, <3>3
  <2> QED
    BY <1>1, <2>1, <2>2 DEF BeginAttempt
<1>2. ASSUME NEW p \in Caller, Finish(p)
      PROVE  Len(attempts'[k]) = Len(attempts[k])
  <2> DEFINE j == call[p].key
             n == call[p].attempt
             o == call[p].outcome
  <2>1. CASE UNCHANGED attempts
    BY <2>1
  <2>2. CASE attempts' = [attempts EXCEPT ![j][n] = o] /\ n \in DOMAIN attempts[j]
    <3>1. Len([attempts[k] EXCEPT ![n] = o]) = Len(attempts[k])
      BY <1>0
    <3> QED
      BY <1>0, <2>2, <3>1
  <2> QED
    BY <1>2, <2>1, <2>2 DEF Finish
<1>3. CASE UNCHANGED attempts
  BY <1>3
<1> QED
  BY <1>1, <1>2, <1>3
  DEF Next, Proceed, Enter, LookUp, Insert, InsertLost, ReadForDispatch, ReadForRetry, Claim,
      MarkRunning, Swap, Execute, Crash, Cancel, Synchronize, RequestApproval, Decide, Approve,
      ApproveTooLate, Reject, ExpireOrClose, ReachDeadline, vars, rows

LEMMA OverrunInvInit == Init => OverrunInv
BY DEF Init, OverrunInv

LEMMA OverrunInvStep ==
    ASSUME IsFiniteSet(Caller), TypeInv, OverrunInv, [Next]_vars
    PROVE  OverrunInv'
<1> USE DEF TypeInv
<1> SUFFICES ASSUME NEW k \in Key, status'[k] # "absent"
             PROVE  Len(attempts'[k]) + Cardinality(Coming(k)') < request'[k].max + Cardinality(Caller)
  BY EarlyIsUntried DEF OverrunInv
<1> DEFINE C == Coming(k)
           D == Coming(k)'
           m == request'[k].max
<1>1. /\ C \in SUBSET Caller /\ D \in SUBSET Caller
      /\ Len(attempts[k]) \in Nat /\ Len(attempts'[k]) \in Nat
      /\ m \in Nat /\ m >= 1
      /\ status[k] # "absent" => request[k] = request'[k]
  <2>1. C \in SUBSET Caller /\ D \in SUBSET Caller
    BY DEF Coming
  <2>2. status[k] # "absent" => request[k] = request'[k]
    BY DispatchesStep
  <2>3. attempts'[k] \in Seq({"running"} \cup Outcomes) /\ request'[k] \in Requests
    BY DispatchesStep, HistoryStep DEF HistoryOK, DispatchesOK
  <2>4. Len(attempts'[k]) \in Nat /\ request'[k].max \in 1..10
    BY <2>3, DispatchAssumption
  <2> QED
    BY <2>1, <2>2, <2>4, Sizes
<1>2. /\ IsFiniteSet(C) /\ Cardinality(C) \in Nat /\ Cardinality(D) \in Nat /\ Cardinality(Caller) \in Nat
      /\ Cardinality(D) <= Cardinality(Caller)
      /\ D \subseteq C => Cardinality(D) <= Cardinality(C)
  BY <1>1, ComingIsFinite, FS_Subset, FS_CardinalityType
<1>0. status[k] # "absent" =>
         Len(attempts[k]) + Cardinality(C) < request[k].max + Cardinality(Caller)
  BY DEF OverrunInv
<1>8. \A p \in Caller : p \in D /\ p \notin C => Len(attempts'[k]) < m
  <2> SUFFICES ASSUME NEW p \in Caller, p \in D, p \notin C
               PROVE  Len(attempts'[k]) < m
    OBVIOUS
  <2>1. call[p].at # "idle" => call[p].key \in Key
    BY DEF CallsOK, CallOK
  <2>2. Enters(p) /\ call'[p].key = k
    BY <2>1, CallerMoves DEF Moves, GoesOn, Coming, Idle, Claim, MarkRunning
  <2>3. ReadForDispatch(p, k) \/ ReadForRetry(p, k)
    BY <2>2 DEF Enters
  <2>4. /\ attempts'[k] = attempts[k] /\ request'[k] = request[k]
        /\ status[k] \in Startable \/ Len(attempts[k]) < request[k].max
    BY <2>3 DEF ReadForDispatch, ReadForRetry, rows
  <2>5. status[k] \in Startable => Len(attempts[k]) = 0
    BY DEF OverrunInv, Early
  <2> QED
    BY <1>1, <2>4, <2>5
<1>3. CASE Len(attempts'[k]) < m
  BY <1>1, <1>2, <1>3
<1>4. CASE D \subseteq C /\ status[k] # "absent" /\ Len(attempts'[k]) = Len(attempts[k])
  <2>1. m = request[k].max
    BY <1>1, <1>4 DEF m
  <2> QED
    BY <1>0, <1>1, <1>2, <1>4, <2>1
<1>5. ASSUME NEW p \in Caller, Numbers(p, k), D \subseteq C
      PROVE  Len(attempts'[k]) + Cardinality(D) < m + Cardinality(Caller)
  <2>1. p \in C /\ p \notin D /\ status[k] # "absent"
    BY <1>5 DEF Numbers, BeginAttempt, Coming, C, D
  <2>2. Cardinality(C \ {p}) = Cardinality(C) - 1 /\ IsFiniteSet(C \ {p})
    BY <1>2, <2>1, FS_RemoveElement
  <2>3. Cardinality(D) <= Cardinality(C) - 1
    BY <1>5, <2>1, <2>2, FS_Subset
  <2> QED
    <3>1. m = request[k].max /\ Len(attempts'[k]) = Len(attempts[k]) + 1
      BY <1>1, <1>5, <2>1 DEF m, Numbers
    <3> QED
      BY <1>0, <1>1, <1>2, <2>1, <2>3, <3>1
<1>7. CASE status[k] = "absent"
  <2>1. attempts'[k] = <<>>
    BY <1>7, StatusMoves DEF OverrunInv, Early
  <2> QED
    BY <1>1, <1>3, <2>1
<1> QED
  <2>1. D \subseteq C => Len(attempts'[k]) + Cardinality(D) < m + Cardinality(Caller)
    BY <1>4, <1>5, <1>7, LengthStep
  <2>2. ~(D \subseteq C) => Len(attempts'[k]) + Cardinality(D) < m + Cardinality(Caller)
    BY <1>1, <1>3, <1>8
  <2> QED
    BY <2>1, <2>2 DEF m, D

(* Stale reads let retries overrun max_attempts, but by no more than one   *)
(* attempt for every other caller, whatever crashes, is cancelled or       *)
(* synchronized meanwhile.                                                 *)
THEOREM OverrunStaysBounded == ASSUME IsFiniteSet(Caller) PROVE Spec => []OverrunIsBounded
<1>1. TypeInv /\ OverrunInv => OverrunIsBounded
  <2> SUFFICES ASSUME TypeInv, OverrunInv, NEW k \in Key, status[k] # "absent"
               PROVE  Len(attempts[k]) < request[k].max + Cardinality(Caller)
    BY DEF OverrunIsBounded
  <2>1. Cardinality(Coming(k)) \in Nat /\ Cardinality(Caller) \in Nat
    BY ComingIsFinite, FS_CardinalityType DEF Coming
  <2>2. Len(attempts[k]) \in Nat /\ request[k].max \in Nat
    BY Sizes
  <2> QED
    BY <2>1, <2>2 DEF OverrunInv
<1>2. TypeInv /\ OverrunInv /\ [Next]_vars => OverrunInv'
  BY OverrunInvStep
<1> QED
  BY <1>1, <1>2, OverrunInvInit, TypeInvAlways, PTL DEF Spec

-----------------------------------------------------------------------------
(* Along the status changes the services make themselves (Syncs = 0) a row *)
(* is busy for the one caller that claimed it: only that caller or a       *)
(* cancellation moves it on.                                               *)
FlightInv ==
    /\ OneCallInFlight
    /\ \A p \in Caller :
          /\ call[p].at = "claimed" => status[call[p].key] \in Closed \cup {"dispatching"}
          /\ call[p].at \in InFlightStep \ {"claimed"} =>
                status[call[p].key] \in Closed \cup {"running"}

LEMMA BusyStep ==
    ASSUME Syncs = 0, TypeInv, [Next]_vars, NEW k \in Key, status[k] \in Busy
    PROVE  \/ status'[k] \in {status[k], "cancelled"}
           \/ \E p \in Caller :
                 /\ call[p].key = k
                 /\ \/ MarkRunning(p) /\ call'[p].at = "numbering" /\ status'[k] = "running"
                    \/ Finish(p) /\ call'[p] = Idle /\ status[k] = "running"
<1> DEFINE Goal == \/ status'[k] \in {status[k], "cancelled"}
                   \/ \E p \in Caller :
                         /\ call[p].key = k
                         /\ \/ MarkRunning(p) /\ call'[p].at = "numbering" /\ status'[k] = "running"
                            \/ Finish(p) /\ call'[p] = Idle /\ status[k] = "running"
<1> SUFFICES Goal
  OBVIOUS
<1> USE DEF TypeInv
<1>0. status \in [Key -> DispatchStatus] /\ call \in [Caller -> CallRecord]
  BY DEF DispatchesOK, CallsOK
<1>1. CASE UNCHANGED status
  BY <1>1
<1>2. ASSUME NEW p \in Caller, Insert(p)
      PROVE  Goal
  <2>1. status'[k] = status[k]
    BY <1>0, <1>2 DEF Insert, Busy
  <2> QED
    BY <2>1
<1>3. ASSUME NEW p \in Caller, Claim(p)
      PROVE  Goal
  <2>1. call[p].seen \in Startable \cup Retryable
    BY <1>3 DEF Claim, CallsOK, CallOK
  <2>2. status'[k] = status[k]
    BY <1>0, <1>3, <2>1 DEF Claim, Swap, Busy, Startable, Retryable
  <2> QED
    BY <2>2
<1>4. ASSUME NEW p \in Caller, MarkRunning(p)
      PROVE  Goal
  <2>1. CASE UNCHANGED status
    BY <1>1, <2>1
  <2>2. CASE status' = [status EXCEPT ![call[p].key] = "running"] /\ call' = [call EXCEPT ![p].at = "numbering"]
    <3>1. call'[p].at = "numbering"
      BY <1>0, <2>2 DEF CallRecord
    <3>2. status'[k] = status[k] \/ (call[p].key = k /\ status'[k] = "running")
      BY <1>0, <2>2
    <3> QED
      BY <1>4, <3>1, <3>2
  <2> QED
    BY <1>4, <2>1, <2>2 DEF MarkRunning, Swap
<1>5. ASSUME NEW p \in Caller, Finish(p)
      PROVE  Goal
  <2>1. call'[p] = Idle
    BY <1>0, <1>5 DEF Finish, Return
  <2>2. status'[k] = status[k] \/ (call[p].key = k /\ status[k] = "running")
    BY <1>0, <1>5 DEF Finish
  <2> QED
    BY <1>5, <2>1, <2>2
<1>6. ASSUME NEW j \in Key, Cancel(j)
      PROVE  Goal
  <2>1. status'[k] \in {status[k], "cancelled"}
    BY <1>0, <1>6 DEF Cancel
  <2> QED
    BY <2>1
<1>7. ASSUME NEW j \in Key, Synchronize(j)
      PROVE  Goal
  <2>1. executions[j] \in Nat
    BY DEF HistoryOK
  <2> QED
    BY <1>7, <2>1 DEF Synchronize
<1>8. ASSUME NEW a \in ApprovalId, Approve(a) \/ Reject(a)
      PROVE  Goal
  <2>1. status'[k] = status[k]
    BY <1>0, <1>8 DEF Approve, Reject, Pending, Move, Busy
  <2> QED
    BY <2>1
<1> QED
  BY <1>1, <1>2, <1>3, <1>4, <1>5, <1>6, <1>7, <1>8
  DEF Next, Proceed, Enter, LookUp, InsertLost, ReadForDispatch, ReadForRetry, BeginAttempt,
      Execute, Crash, RequestApproval, Decide, ApproveTooLate, ExpireOrClose, ReachDeadline,
      vars, rows

(* In one step at most one caller claims, and only a row nobody holds.     *)
LEMMA ClaimStep ==
    ASSUME TypeInv, FlightInv, [Next]_vars, NEW p \in Caller,
           call'[p].at \in InFlightStep
    PROVE  /\ call'[p].key = call[p].key /\ call[p].key \in Key
           /\ \/ call[p].at \in InFlightStep
              \/ /\ call'[p].at = "claimed" /\ status'[call[p].key] = "dispatching"
                 /\ InFlight(call[p].key) = {}
                 /\ \A q \in Caller \ {p} : call'[q] = call[q]
<1>0. call \in [Caller -> CallRecord] /\ CallOK(call[p])
  BY DEF TypeInv, CallsOK
<1>1. Idle.at = "idle"
  BY DEF Idle
<1>2. \/ call'[p] = call[p]
      \/ GoesOn(p)
  BY <1>1, CallerMoves DEF Moves, Enters, InFlightStep
<1>3. call'[p].key = call[p].key /\ call[p].key \in Key
  BY <1>0, <1>2 DEF GoesOn, CallOK, InFlightStep, Claim, MarkRunning, BeginAttempt, Execute
<1>4. ASSUME call[p].at \notin InFlightStep
      PROVE  /\ call'[p].at = "claimed" /\ status'[call[p].key] = "dispatching"
             /\ InFlight(call[p].key) = {}
             /\ \A q \in Caller \ {p} : call'[q] = call[q]
  <2>1. /\ Claim(p) /\ call'[p].at = "claimed"
        /\ status[call[p].key] = call[p].seen /\ status'[call[p].key] = "dispatching"
    BY <1>2, <1>4 DEF GoesOn, InFlightStep, MarkRunning, BeginAttempt, Execute
  <2>2. call[p].seen \in Startable \cup Retryable
    BY <1>0, <2>1 DEF Claim, CallOK
  <2>3. \A q \in Caller : call[q].at \in InFlightStep => status[call[q].key] \notin Startable \cup Retryable
    BY DEF FlightInv, InFlightStep, Closed, Startable, Retryable
  <2>4. InFlight(call[p].key) = {}
    BY <2>1, <2>2, <2>3 DEF InFlight, InFlightStep
  <2>5. \A q \in Caller \ {p} : call'[q] = call[q]
    <3>1. call' = [call EXCEPT ![p].at = "claimed"] \/ Return(p)
      BY <2>1 DEF Claim, Swap
    <3> QED
      BY <1>0, <3>1 DEF Return
  <2> QED
    BY <2>1, <2>4, <2>5
<1> QED
  BY <1>3, <1>4

LEMMA FlightInvInit == Init => FlightInv
BY DEF Init, FlightInv, OneCallInFlight, InFlight, InFlightStep, Idle

LEMMA FlightInvStep ==
    ASSUME Syncs = 0, TypeInv, FlightInv, [Next]_vars
    PROVE  FlightInv'
<1>0. \A p \in Caller : call[p].at \in InFlightStep => p \in InFlight(call[p].key)
  BY DEF InFlight, InFlightStep
<1>1. OneCallInFlight'
  <2> SUFFICES ASSUME NEW k \in Key, NEW p \in Caller, NEW q \in Caller,
                      call'[p].key = k, call'[p].at \in InFlightStep,
                      call'[q].key = k, call'[q].at \in InFlightStep
               PROVE  p = q
    BY DEF OneCallInFlight, InFlight, InFlightStep
  <2>1. call[p].key = k /\ call[q].key = k
    BY ClaimStep
  <2>2. CASE call[p].at \in InFlightStep /\ call[q].at \in InFlightStep
    BY <1>0, <2>1, <2>2 DEF FlightInv, OneCallInFlight
  <2>3. CASE call[p].at \notin InFlightStep
    <3>1. InFlight(k) = {} /\ (q # p => call'[q] = call[q])
      BY <2>1, <2>3, ClaimStep
    <3> QED
      BY <1>0, <2>1, <3>1
  <2>4. CASE call[q].at \notin InFlightStep
    <3>1. InFlight(k) = {} /\ (p # q => call'[p] = call[p])
      BY <2>1, <2>4, ClaimStep
    <3> QED
      BY <1>0, <2>1, <3>1
  <2> QED
    BY <2>2, <2>3, <2>4
<1>2. ASSUME NEW p \in Caller, NEW k \in Key, call'[p].key = k, call'[p].at \in InFlightStep
      PROVE  /\ call'[p].at = "claimed" => status'[k] \in Closed \cup {"dispatching"}
             /\ call'[p].at # "claimed" => status'[k] \in Closed \cup {"running"}
  <2>1. call[p].key = k
    BY <1>2, ClaimStep
  <2>2. CASE call[p].at \notin InFlightStep
    BY <1>2, <2>1, <2>2, ClaimStep
  <2>3. CASE call[p].at \in InFlightStep /\ status[k] \in Closed
    <3>1. status'[k] = status[k]
      <4>1. status[k] \in DispatchStatus /\ Legal(status[k], status'[k])
        BY StatusMoves DEF TypeInv, DispatchesOK
      <4>2. \A s \in DispatchStatus : \A t : s \in Closed /\ Legal(s, t) => t = s
        BY DEF Legal, Transitions, Closed, Retryable, Outcomes, Startable, Busy, DispatchStatus
      <4> QED
        BY <2>3, <4>1, <4>2
    <3> QED
      BY <2>3, <3>1
  <2>4. CASE call[p].at \in InFlightStep /\ status[k] \notin Closed
    <3>1. \/ call[p].at = "claimed" /\ status[k] = "dispatching"
          \/ call[p].at # "claimed" /\ status[k] = "running"
      BY <2>1, <2>4 DEF FlightInv, InFlightStep
    <3>2. p \in InFlight(k)
      BY <1>0, <2>1, <2>4
    <3>3. \A q \in Caller : q \in InFlight(k) => q = p
      BY <3>2 DEF FlightInv, OneCallInFlight
    <3>4. CASE status'[k] = "cancelled"
      BY <3>4 DEF Closed
    <3>5. CASE status'[k] = status[k]
      <4>1. \/ call'[p].at = call[p].at
            \/ call'[p].at = "numbering" /\ call[p].at = "claimed" /\ status'[k] = "running"
            \/ call[p].at # "claimed" /\ call'[p].at # "claimed"
        <5>1. Idle.at = "idle"
          BY DEF Idle
        <5>2. call'[p] = call[p] \/ GoesOn(p)
          BY <1>2, <2>4, <5>1, CallerMoves DEF Moves, Enters, InFlightStep
        <5>3. GoesOn(p) => \/ call[p].at = "claimed" /\ call'[p].at = "numbering" /\ status'[k] = "running"
                           \/ call[p].at # "claimed" /\ call'[p].at \in {"executing", "finishing"}
          BY <2>1, <2>4 DEF GoesOn, InFlightStep, Claim, MarkRunning, BeginAttempt, Execute
        <5> QED
          BY <5>2, <5>3
      <4> QED
        BY <3>1, <3>5, <4>1
    <3>6. ASSUME NEW q \in Caller, call[q].key = k, MarkRunning(q), call'[q].at = "numbering",
                 status'[k] = "running"
          PROVE  status'[k] = "running" /\ call'[p].at # "claimed"
      <4>1. q = p
        BY <3>3, <3>6 DEF MarkRunning, InFlight
      <4> QED
        BY <3>6, <4>1
    <3>7. ASSUME NEW q \in Caller, call[q].key = k, Finish(q), call'[q] = Idle
          PROVE  FALSE
      <4>1. q = p
        BY <3>3, <3>7 DEF Finish, InFlight
      <4> QED
        BY <1>2, <3>7, <4>1 DEF Idle, InFlightStep
    <3> QED
      BY <3>1, <3>4, <3>5, <3>6, <3>7, BusyStep DEF Busy
  <2> QED
    BY <2>2, <2>3, <2>4
<1> QED
  BY <1>1, <1>2, ClaimStep DEF FlightInv, InFlightStep

LEMMA FlightInvAlways == ASSUME Syncs = 0 PROVE Spec => [](TypeInv /\ FlightInv)
<1>1. TypeInv /\ FlightInv /\ [Next]_vars => FlightInv'
  BY FlightInvStep
<1> QED
  BY <1>1, FlightInvInit, TypeInvInit, TypeInvStep, PTL DEF Spec

(* Two callers never work on one dispatch at the same time, so its agent   *)
(* is not called twice at once, however they race, retry, cancel or crash, *)
(* as long as nobody calls synchronize_status.                             *)
THEOREM CallsAreExclusive == ASSUME Syncs = 0 PROVE Spec => []OneCallInFlight
BY FlightInvAlways, PTL DEF FlightInv

(* Nobody is at work any more on a row whose work succeeded.               *)
DoneInv == \A k \in Key : status[k] = "succeeded" => InFlight(k) = {}

LEMMA DoneInvInit == Init => DoneInv
BY DEF Init, DoneInv

LEMMA DoneInvStep ==
    ASSUME Syncs = 0, TypeInv, FlightInv, DoneInv, [Next]_vars
    PROVE  DoneInv'
<1> SUFFICES ASSUME NEW k \in Key, status'[k] = "succeeded", NEW p \in Caller,
                    call'[p].key = k, call'[p].at \in InFlightStep
             PROVE  FALSE
  BY DEF DoneInv, InFlight, InFlightStep
<1>1. call[p].key = k /\ call[p].at \in InFlightStep
  BY ClaimStep
<1>2. p \in InFlight(k)
  BY <1>1 DEF InFlight, InFlightStep
<1>3. status[k] \notin Closed
  <2>1. status[k] \in DispatchStatus /\ Legal(status[k], status'[k])
    BY StatusMoves DEF TypeInv, DispatchesOK
  <2>2. \A s \in Closed : Legal(s, "succeeded") => s = "succeeded"
    BY DEF Legal, Transitions, Closed, Retryable, Outcomes, Startable, Busy, DispatchStatus
  <2> QED
    BY <1>2, <2>1, <2>2 DEF DoneInv
<1>4. status[k] \in Busy
  BY <1>1, <1>3 DEF FlightInv, InFlightStep, Busy
<1>5. PICK q \in Caller : call[q].key = k /\ Finish(q) /\ call'[q] = Idle
  BY <1>4, BusyStep DEF Busy
<1>6. q = p
  BY <1>2, <1>5 DEF Finish, InFlight, FlightInv, OneCallInFlight
<1> QED
  BY <1>5, <1>6 DEF Idle, InFlightStep

-----------------------------------------------------------------------------
(* The attempt a caller is at is the last one of its row, so that its      *)
(* outcome is written to it.                                               *)
AtLast(p) ==
    call[p].at \in {"executing", "finishing"} /\ status[call[p].key] = "running" =>
        attempts[call[p].key] # <<>> /\ call[p].attempt = Len(attempts[call[p].key])

RecordInv == OutcomeIsRecorded /\ \A p \in Caller : AtLast(p)

LEMMA RecordInvInit == Init => RecordInv
BY DEF Init, RecordInv, OutcomeIsRecorded, AtLast, Idle, Outcomes

(* While a caller executes or finishes a row that runs, nobody else writes *)
(* the row's attempts.                                                     *)
LEMMA AttemptsOf ==
    ASSUME Syncs = 0, TypeInv, FlightInv, [Next]_vars, NEW p \in Caller,
           call[p].at \in {"executing", "finishing"}, call'[p].at \in {"executing", "finishing"}
    PROVE  attempts'[call[p].key] = attempts[call[p].key]
<1> DEFINE k == call[p].key
<1> USE DEF TypeInv
<1>0. /\ attempts \in [Key -> Seq({"running"} \cup Outcomes)] /\ call \in [Caller -> CallRecord]
      /\ k \in Key
  BY DEF HistoryOK, CallsOK, CallOK
<1>1. \A q \in Caller : q \in InFlight(k) => q = p
  <2>1. p \in InFlight(k)
    BY DEF InFlight
  <2>2. \A q \in Caller, r \in Caller : q \in InFlight(k) /\ r \in InFlight(k) => q = r
    BY <1>0 DEF FlightInv, OneCallInFlight
  <2> QED
    BY <2>1, <2>2
<1>2. ASSUME NEW q \in Caller, BeginAttempt(q)
      PROVE  attempts'[k] = attempts[k]
  <2>1. call[q].key # k
    BY <1>1, <1>2 DEF BeginAttempt, InFlight
  <2> QED
    BY <1>0, <1>2, <2>1 DEF BeginAttempt
<1>3. ASSUME NEW q \in Caller, Finish(q)
      PROVE  attempts'[k] = attempts[k]
  <2>1. call[q].key # k
    <3>1. call[q].key = k => q = p
      BY <1>1, <1>3 DEF Finish, InFlight
    <3>2. call'[q] = Idle
      BY <1>0, <1>3 DEF Finish, Return
    <3> QED
      BY <3>1, <3>2 DEF Idle
  <2> QED
    BY <1>0, <1>3, <2>1 DEF Finish
<1>4. CASE UNCHANGED attempts
  BY <1>4
<1> QED
  BY <1>2, <1>3, <1>4
  DEF Next, Proceed, Enter, LookUp, Insert, InsertLost, ReadForDispatch, ReadForRetry, Claim,
      MarkRunning, Swap, Execute, Crash, Cancel, Synchronize, RequestApproval, Decide, Approve,
      ApproveTooLate, Reject, ExpireOrClose, ReachDeadline, vars, rows

LEMMA AtLastStep ==
    ASSUME Syncs = 0, TypeInv, FlightInv, RecordInv, [Next]_vars, NEW p \in Caller
    PROVE  AtLast(p)'
<1> SUFFICES ASSUME NEW k \in Key, call'[p].key = k, call'[p].at \in {"executing", "finishing"},
                    status'[k] = "running"
             PROVE  attempts'[k] # <<>> /\ call'[p].attempt = Len(attempts'[k])
  BY CallsStep DEF AtLast, CallsOK, CallOK
<1>0. /\ attempts \in [Key -> Seq({"running"} \cup Outcomes)] /\ call \in [Caller -> CallRecord]
      /\ status \in [Key -> DispatchStatus]
  BY DEF TypeInv, HistoryOK, CallsOK, DispatchesOK
<1>1. call[p].key = k /\ call[p].at \in InFlightStep
  BY ClaimStep DEF InFlightStep
<1>2. Idle.at = "idle"
  BY DEF Idle
<1>3. call'[p] = call[p] \/ GoesOn(p)
  BY <1>1, <1>2, CallerMoves DEF Moves, Enters, InFlightStep
<1>4. CASE BeginAttempt(p)
  <2>1. status[k] = "running"
    BY <1>1, <1>4 DEF BeginAttempt
  <2>2. /\ attempts' = [attempts EXCEPT ![k] = Append(@, "running")]
        /\ call' = [call EXCEPT ![p].at = "executing", ![p].attempt = Len(attempts[k]) + 1]
    BY <1>1, <1>4, <2>1 DEF BeginAttempt
  <2>3. attempts'[k] = Append(attempts[k], "running")
    BY <1>0, <2>2
  <2>4. call'[p].attempt = Len(attempts[k]) + 1
    BY <1>0, <2>2 DEF CallRecord
  <2>5. attempts[k] \in Seq({"running"} \cup Outcomes)
    BY <1>0
  <2> QED
    BY <2>3, <2>4, <2>5
<1>5. CASE ~BeginAttempt(p)
  <2>1. call[p].at \in {"executing", "finishing"} /\ call'[p].attempt = call[p].attempt
    BY <1>3, <1>5 DEF GoesOn, Execute
  <2>2. attempts'[k] = attempts[k]
    BY <1>1, <2>1, AttemptsOf
  <2>3. status[k] = "running"
    <3>1. status[k] \in Closed \cup {"running"}
      BY <1>1, <2>1 DEF FlightInv, InFlightStep
    <3>2. status[k] \in DispatchStatus /\ Legal(status[k], "running")
      BY <1>0, StatusMoves
    <3>3. \A s \in Closed : ~Legal(s, "running")
      BY DEF Legal, Transitions, Closed, Retryable, Outcomes, Startable, Busy, DispatchStatus
    <3> QED
      BY <3>1, <3>2, <3>3
  <2> QED
    BY <1>1, <2>1, <2>2, <2>3 DEF RecordInv, AtLast
<1> QED
  BY <1>4, <1>5

(* A row comes to an outcome by Finish alone.                              *)
LEMMA OutcomeStep ==
    ASSUME Syncs = 0, TypeInv, [Next]_vars, NEW k \in Key,
           status'[k] \in Outcomes, status'[k] # status[k]
    PROVE  \E p \in Caller : Finish(p) /\ call[p].key = k
<1>1. status[k] \in DispatchStatus /\ Legal(status[k], status'[k])
  BY StatusMoves DEF TypeInv, DispatchesOK
<1>2. \A s \in DispatchStatus : \A t \in Outcomes : Legal(s, t) /\ t # s => s \in Busy
  BY DEF Legal, Transitions, Closed, Retryable, Outcomes, Startable, Busy, DispatchStatus
<1>3. status[k] \in Busy
  BY <1>1, <1>2
<1> QED
  BY <1>3, BusyStep DEF Outcomes

LEMMA RecordInvStep ==
    ASSUME Syncs = 0, TypeInv, FlightInv, RecordInv, [Next]_vars
    PROVE  RecordInv'
<1> SUFFICES ASSUME NEW k \in Key, status'[k] \in Outcomes
             PROVE  attempts'[k] # <<>> /\ attempts'[k][Len(attempts'[k])] = status'[k]
  BY AtLastStep DEF RecordInv, OutcomeIsRecorded
<1>0. /\ attempts \in [Key -> Seq({"running"} \cup Outcomes)]
      /\ status \in [Key -> DispatchStatus]
  BY DEF TypeInv, HistoryOK, DispatchesOK
<1>1. CASE status'[k] = status[k]
  <2>1. attempts'[k] = attempts[k]
    BY <1>1, StatusMoves DEF Outcomes
  <2> QED
    BY <1>1, <2>1 DEF RecordInv, OutcomeIsRecorded
<1>2. CASE status'[k] # status[k]
  <2>1. PICK p \in Caller : Finish(p) /\ call[p].key = k
    BY <1>2, OutcomeStep
  <2> DEFINE n == Len(attempts[k])
             o == call[p].outcome
  <2>2. status[k] = "running" /\ status'[k] = o
    BY <1>0, <1>2, <2>1 DEF Finish
  <2>3. attempts[k] # <<>> /\ call[p].attempt = n
    BY <2>1, <2>2 DEF RecordInv, AtLast, Finish
  <2>4. n \in DOMAIN attempts[k]
    BY <1>0, <2>3
  <2>5. attempts' = [attempts EXCEPT ![k][n] = o]
    BY <2>1, <2>2, <2>3, <2>4 DEF Finish
  <2>6. attempts'[k] = [attempts[k] EXCEPT ![n] = o]
    BY <1>0, <2>5
  <2>7. attempts'[k] # <<>> /\ Len(attempts'[k]) = n /\ attempts'[k][n] = o
    BY <1>0, <2>3, <2>4, <2>6
  <2> QED
    BY <2>2, <2>7
<1> QED
  BY <1>1, <1>2

(* The outcome on the dispatch is the outcome of its last attempt row, as  *)
(* long as nobody calls synchronize_status.                                *)
THEOREM OutcomesAreRecorded == ASSUME Syncs = 0 PROVE Spec => []OutcomeIsRecorded
<1>1. TypeInv /\ FlightInv /\ RecordInv /\ [Next]_vars => RecordInv'
  BY RecordInvStep
<1>2. Spec => [](TypeInv /\ FlightInv)
  BY FlightInvAlways
<1> QED
  BY <1>1, <1>2, RecordInvInit, PTL DEF Spec, RecordInv
=============================================================================
