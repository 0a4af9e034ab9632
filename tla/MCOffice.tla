----------------------------- MODULE MCOffice -----------------------------
(* Instances of components that share no state and whose progress is       *)
(* checked: every behaviour follows one of them, chosen at the start, and  *)
(* leaves the others as they are.                                          *)
EXTENDS Naturals, TLC

CONSTANTS Parts,            \* the components that are followed
          Process, Execution, NoExecution, Errors,
          Route, Question, Day, Period,
          Action, Draft, ApprovalId, Caller, NoAction, NoDraft, NoApproval, NoRequest

VARIABLES part,
          state, gated, approved, log, runs, at,              \* Execution
          breaker, ask,                                       \* ProviderGateway
          clock, schedule, mode, manual, briefed, tick,       \* NightSchedule
          draft, action, loc, writes, documents,              \* WorkspaceAction
          status, request, attempts, approval, call, executions, told   \* Dispatch, and within WorkspaceAction

runVars      == <<state, gated, approved, log, runs, at>>
gatewayVars  == <<breaker, ask>>
scheduleVars == <<clock, schedule, mode, manual, briefed, tick>>
dispatchVars == <<status, request, attempts, approval, call, executions, told>>
documentVars == <<draft, action, loc, writes, documents>>
actionVars   == <<documentVars, dispatchVars>>
vars == <<part, runVars, gatewayVars, scheduleVars, actionVars>>

-----------------------------------------------------------------------------
(* Execution: 2 processes, one row.                                        *)
E == INSTANCE Execution

(* ProviderGateway. Bounds: a chain of three routes, of which the first is *)
(* the specialist of coding, 2 of 3 live calls, a threshold of 2 failures. *)
G == INSTANCE ProviderGateway WITH
        Request <- Question, Task <- {"coding", "other"},
        Specialist <- ("coding" :> "k1"),
        Combo <- ("generic" :> <<"k2", "k1", "k3">>),
        Eligible <- ("coding" :> Route @@ "other" :> {"k2", "k3"}),
        MaxLive <- 2, Threshold <- 2

(* NightSchedule. Bounds: a day of six minutes; a window around midnight,  *)
(* the default one, and a window within the day.                           *)
S == INSTANCE NightSchedule WITH
        Schedules <- {[start |-> 5, end |-> 1, brief |-> 2], [start |-> 1, end |-> 3, brief |-> 4]}

(* WorkspaceAction without crashes: one action, a draft and its revision,  *)
(* which may supersede it even when it is ready, 2 callers.                *)
W == INSTANCE WorkspaceAction WITH Crashes <- FALSE

(* Dispatch without crashes and without synchronize_status: one dispatch,  *)
(* approval-free with one attempt, gated with two, or of an agent whose    *)
(* adapter is missing, 2 callers, and no workspace action made of it.      *)
DispatchRequests ==
    {[gated |-> FALSE, registered |-> TRUE, max |-> 1, text |-> "report"],
     [gated |-> TRUE, registered |-> TRUE, max |-> 2, text |-> "publish"],
     [gated |-> FALSE, registered |-> FALSE, max |-> 1, text |-> "report"]}

D == INSTANCE Dispatch WITH
        Key <- Action, NoKey <- NoAction, Crashes <- FALSE, Syncs <- 0,
        Requests <- DispatchRequests

(* What the components assume of their constants.                          *)
ASSUME OfficeAssumption ==
    /\ G!Configured
    /\ Period \in Nat
    /\ NoAction \notin Action /\ NoDraft \notin Draft /\ NoApproval \notin ApprovalId
    /\ NoRequest # W!DocsRequest
    /\ NoRequest \notin DispatchRequests

-----------------------------------------------------------------------------
(* A schedule that is not followed stands in one state.                    *)
Init ==
    /\ part \in Parts
    /\ E!Init /\ G!Init /\ S!Init /\ W!Init
    /\ part # "schedule" => clock = 0 /\ schedule.start = 5

Next ==
    \/ part = "execution" /\ E!Next /\ UNCHANGED <<part, gatewayVars, scheduleVars, actionVars>>
    \/ part = "gateway" /\ G!Next /\ UNCHANGED <<part, runVars, scheduleVars, actionVars>>
    \/ part = "schedule" /\ S!Next /\ UNCHANGED <<part, runVars, gatewayVars, actionVars>>
    \/ /\ part = "action" /\ (W!Next \/ \E d, e \in Draft : W!SupersedeReady(d, e))
       /\ UNCHANGED <<part, runVars, gatewayVars, scheduleVars>>
    \/ /\ part = "dispatch" /\ D!Next
       /\ UNCHANGED <<part, runVars, gatewayVars, scheduleVars, documentVars>>

(* The component that is followed is treated fairly: the service manager   *)
(* starts processes, and a method that was entered goes on; time passes    *)
(* and the timers fire; a command waits for SQLite's write lock and for    *)
(* Google's answer, which has a timeout, and for nothing else.             *)
Fairness ==
    /\ \A p \in Process : /\ WF_runVars(part = "execution" /\ E!Start(p))
                          /\ SF_runVars(part = "execution" /\ E!Sweep(p))
                          /\ WF_runVars(part = "execution" /\ E!Step(p))
                          /\ WF_scheduleVars(part = "schedule" /\ S!Start(p))
                          /\ WF_scheduleVars(part = "schedule" /\ (S!Tick(p) \/ S!Wake(p)))
    /\ WF_scheduleVars(part = "schedule" /\ S!Pass)
    /\ \A p \in Caller : /\ WF_actionVars(part = "action" /\ W!Proceed(p))
                         /\ WF_dispatchVars(part = "dispatch" /\ D!Proceed(p))

Spec == Init /\ [][Next]_vars /\ Fairness

-----------------------------------------------------------------------------
(* An execution runs at most once, and gated work after its approval.      *)
RunsOnceApproved == E!RunsOnceApproved

(* The audit log of an execution agrees with its row.                      *)
LogIsTrue == E!LogIsTrue

(* A running execution ends if processes go on being restarted.            *)
RunningEnds == E!RunningEnds

(* The fallback loop keeps its limit and leaves a route only for a reason. *)
TriesAreJustified == G!TriesAreJustified

(* A route whose circuit is open is not called before the reset timeout.   *)
FailingRoutesAreSpared == G!FailingRoutesAreSpared

(* Without an override the mode follows the window, day after day.         *)
ScheduleIsFollowed == S!ScheduleIsFollowed

(* A superseded draft is not written, whoever found it current before.     *)
SupersededNeverWritten == W!SupersededNeverWritten

(* A claimed action comes to an outcome.                                   *)
ClaimedIsFinished == W!ClaimedIsFinished

(* Two callers are never at work on one dispatch.                          *)
OneCallInFlight == part = "dispatch" => D!OneCallInFlight

(* The outcome of a dispatch is that of its last attempt.                  *)
OutcomeIsRecorded == part = "dispatch" => D!OutcomeIsRecorded

(* A dispatch that was claimed comes to an outcome if its agent has an     *)
(* adapter.                                                                *)
EveryRunEnds == part = "dispatch" => D!EveryRunEnds

-----------------------------------------------------------------------------
(* What the documents say and the code does not do.                        *)

(* SPRINT_5A1 10: exactly one morning brief per calendar day.              *)
BriefComes == S!BriefComes

(* NightShiftRepository.set_mode: a stale tick does not end quiet or       *)
(* maintenance.                                                            *)
QuietIsKept == S!QuietIsKept
=============================================================================
