-------------------------- MODULE MCDispatchUsers --------------------------
(* What the owner has done through a dispatch: workspace actions and agent *)
(* assignments. They share the tables of module Dispatch and no row of     *)
(* them: every behaviour follows one of the two, chosen at the start.      *)
EXTENDS WorkspaceAction, AssignmentRequest, TLC

CONSTANTS Parts,               \* the components that are followed
          Approvals, Servers   \* ApprovalId and Caller of Assignment

VARIABLES part,
          row, desk, retries   \* Assignment; desk: its loc

A == INSTANCE Assignment WITH ApprovalId <- Approvals, Caller <- Servers, loc <- desk

recordVars == <<draft, action, loc, writes, documents>>
assignmentVars == <<row, desk, retries>>
partVars == <<part, vars, assignmentVars>>

NoRecords ==
    /\ draft = [d \in Draft |-> [status |-> "absent", follows |-> NoDraft]]
    /\ action = [w \in Action |-> [status |-> "absent", draft |-> NoDraft, approval |-> NoApproval]]
    /\ loc = [p \in Caller |-> Idle]
    /\ writes = [w \in Action |-> 0]
    /\ documents = [w \in Action |-> 0]

PartInit ==
    /\ part \in Parts
    /\ row = [i \in Assignment |-> A!Absent]
    /\ desk = [p \in Servers |-> A!Idle]
    /\ retries = [i \in Assignment |-> 0]
    /\ \/ part = "actions" /\ Init
       \/ part = "assignments" /\ NoRecords /\ A!D!Init

PartNext ==
    \/ part = "actions" /\ Next /\ UNCHANGED <<part, assignmentVars>>
    \/ part = "assignments" /\ A!Next /\ UNCHANGED <<part, recordVars>>

PartSpec == PartInit /\ [][PartNext]_partVars

-----------------------------------------------------------------------------
(* A bound: one assignment at a time has a dispatch; the other is there to *)
(* replace it.                                                             *)
OneDispatch ==
    part = "assignments" => Cardinality({i \in Assignment : status[i] # "absent"}) <= 1

(* Either component is symmetric in its own sets, whatever the other's are *)
(* put to; moving two of them at once keeps the group small.               *)
Moves(S) == {f \in Permutations(S) : \A x \in S : f[x] # x}
Symmetries ==
    Permutations(Approvals) \cup Permutations(Servers)
        \cup {f @@ g : f \in Moves(Actor), g \in Moves(Draft)}
        \cup {f @@ g : f \in Moves(Assignment), g \in Moves(Caller)}

-----------------------------------------------------------------------------
(* An assignment in progress has a dispatch that was tried or put before   *)
(* the owner.                                                              *)
ProgressIsBacked == part = "assignments" => A!ProgressIsBacked

(* The agent of an assignment is called once, and once more per retry.     *)
WorkIsDoneOnce == part = "assignments" => A!WorkIsDoneOnce
=============================================================================
