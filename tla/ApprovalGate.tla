---------------------------- MODULE ApprovalGate ----------------------------
(***************************************************************************)
(* What controlled dispatch promises its owner, with no callers, attempts, *)
(* approval rows or transactions: work that needs approval starts, and     *)
(* reaches an agent, only after it was granted, and nothing happens any    *)
(* more to work that was done or closed.                                   *)
(***************************************************************************)
EXTENDS Naturals

CONSTANT Work

VARIABLES
    phase,    \* Work -> where it stands
    guarded,  \* the work that needs the owner's approval
    granted,  \* the work the owner approved
    runs      \* Work -> how often it reached an agent

vars == <<phase, guarded, granted, runs>>

Phase == {"none", "waiting", "ready", "busy", "faulted", "done", "closed"}

TypeOK ==
    /\ phase \in [Work -> Phase]
    /\ guarded \subseteq Work
    /\ granted \subseteq Work
    /\ runs \in [Work -> Nat]

Allowed(w) == w \in guarded => w \in granted

Init ==
    /\ phase = [w \in Work |-> "none"]
    /\ guarded = {}
    /\ granted = {}
    /\ runs = [w \in Work |-> 0]

Move(w, from, to) ==
    /\ phase[w] \in from
    /\ phase' = [phase EXCEPT ![w] = to]

Submit(w) ==
    /\ \/ Move(w, {"none"}, "waiting") /\ guarded' = guarded \cup {w}
       \/ Move(w, {"none"}, "ready") /\ UNCHANGED guarded
    /\ UNCHANGED <<granted, runs>>

(* One indivisible step: the owner's decision and the release of the work. *)
Grant(w) ==
    /\ Move(w, {"waiting"}, "ready")
    /\ granted' = granted \cup {w}
    /\ UNCHANGED <<guarded, runs>>

Start(w) ==
    /\ Allowed(w)
    /\ Move(w, {"ready", "faulted"}, "busy")
    /\ UNCHANGED <<guarded, granted, runs>>

(* Work cancelled while its agent is being called still reaches it.        *)
Run(w) ==
    /\ Allowed(w)
    /\ phase[w] \notin {"none", "waiting", "ready"}
    /\ runs' = [runs EXCEPT ![w] = @ + 1]
    /\ UNCHANGED <<phase, guarded, granted>>

End(w) ==
    /\ Move(w, {"busy"}, "done") \/ Move(w, {"busy"}, "faulted")
    /\ UNCHANGED <<guarded, granted, runs>>

Close(w) ==
    /\ Move(w, Phase \ {"none", "done", "closed"}, "closed")
    /\ UNCHANGED <<guarded, granted, runs>>

Next == \E w \in Work : Submit(w) \/ Grant(w) \/ Start(w) \/ Run(w) \/ End(w) \/ Close(w)

Spec == Init /\ [][Next]_vars
=============================================================================
