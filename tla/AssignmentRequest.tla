------------------------- MODULE AssignmentRequest -------------------------
(* What an agent assignment asks of dispatch.                              *)
EXTENDS Integers

CONSTANTS
    Assignment,    \* rows of agent_assignments
    Actor,         \* who may ask for a start: dispatches.requested_by
    NoAssignment, NoAsk,
    MaxAttempts    \* max_attempts of a request that does not say: 3

(* The capability of an assignment matters by whether it is                *)
(* approval-required, the agent by whether its adapter is registered; the  *)
(* agent without one (workspace_agent) has no approval-required capability  *)
(* that an assignment may have.                                            *)
Work == {w \in [gated : BOOLEAN, registered : BOOLEAN] : w.gated => w.registered}

RequestOf(w, actor) ==
    [gated |-> w.gated, registered |-> w.registered, max |-> MaxAttempts, text |-> actor]

Asks == {RequestOf(w, o) : w \in Work, o \in Actor}

ASSUME AssignmentAssumption ==
    /\ NoAssignment \notin Assignment
    /\ NoAsk \notin Asks
    /\ MaxAttempts \in 1..10
=============================================================================
