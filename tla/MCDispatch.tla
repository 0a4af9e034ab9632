---------------------------- MODULE MCDispatch ----------------------------
(* Instances of Dispatch for TLC.                                          *)
EXTENDS Dispatch, TLC

MCRequest(gated, registered, max, text) ==
    [gated |-> gated, registered |-> registered, max |-> max, text |-> text]

(* An approval-free and an approval-required request.                      *)
BothKinds == {MCRequest(FALSE, TRUE, 1, "report"), MCRequest(TRUE, TRUE, 2, "publish")}

(* The same, and an agent whose adapter is not registered.                 *)
AllKinds == BothKinds \cup {MCRequest(FALSE, FALSE, 2, "workspace")}

OneGated == {MCRequest(TRUE, TRUE, 2, "publish")}

(* Bound: once a dispatch was executed so often, no further step is taken. *)
FewExecutions == \A k \in Key : executions[k] <= 3

Symmetries == Permutations(Caller) \cup Permutations(ApprovalId) \cup Permutations(Key)
=============================================================================
