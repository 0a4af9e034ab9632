--------------------------- MODULE ControlTower ---------------------------
(***************************************************************************)
(* Work items and what they depend on, decisions that supersede one        *)
(* another, and approval links (ControlTowerService over                   *)
(* ControlTowerRepository). Every write is one BEGIN IMMEDIATE transaction.*)
(* Nothing is ever deleted, so what a service found to exist before its    *)
(* transaction still exists in it; a status it read may have changed.      *)
(***************************************************************************)
EXTENDS Naturals, FiniteSets

CONSTANTS
    Process, Item, Decision, Link,
    NoItem, NoDecision

VARIABLES
    works,       \* Item -> the row of control_tower_work_items, its dependencies
    decisions,   \* Decision -> the row of control_tower_decisions
    links,       \* Link -> the status of control_tower_approval_links
    desk         \* Process -> the item it moves, and the status it read

towerVars == <<works, decisions, links, desk>>

-----------------------------------------------------------------------------
Open       == {"inbox", "clarification_needed", "planned", "in_progress", "awaiting_approval", "deferred"}
WorkStatus == Open \cup {"absent", "completed", "cancelled"}

(* WORK_ITEM_TRANSITIONS.                                                  *)
Transitions(s) ==
    CASE s = "inbox"                -> {"clarification_needed", "planned", "in_progress", "deferred", "cancelled"}
      [] s = "clarification_needed" -> {"planned", "in_progress", "deferred", "cancelled"}
      [] s = "planned"              -> {"in_progress", "awaiting_approval", "deferred", "cancelled"}
      [] s = "in_progress"          -> {"awaiting_approval", "completed", "deferred", "cancelled"}
      [] s = "awaiting_approval"    -> {"in_progress", "completed", "deferred", "cancelled"}
      [] s = "deferred"             -> {"planned", "cancelled"}
      [] OTHER                      -> {}

Captured == {i \in Item : works[i].status # "absent"}
Made     == {d \in Decision : decisions[d].status # "absent"}

(* The dependencies unresolved_blocker_count counts.                       *)
Blockers(i) == {j \in works[i].deps : works[j].status \in Open}

Idle == [item |-> NoItem, seen |-> "absent"]

-----------------------------------------------------------------------------
Init ==
    /\ works = [i \in Item |-> [status |-> "absent", deps |-> {}]]
    /\ decisions = [d \in Decision |-> [status |-> "absent", supersedes |-> NoDecision, by |-> NoDecision]]
    /\ links = [a \in Link |-> "absent"]
    /\ desk = [p \in Process |-> Idle]

(* A capture that takes the ids it is given.                               *)
CaptureUnchecked(i, deps) ==
    /\ works[i].status = "absent"
    /\ works' = [works EXCEPT ![i] = [status |-> "inbox", deps |-> deps \ {i}]]
    /\ UNCHANGED <<decisions, links, desk>>

(* capture_work: its dependencies are there.                               *)
CaptureWork(i, deps) ==
    /\ works[i].status = "absent"
    /\ deps \subseteq Captured
    /\ works' = [works EXCEPT ![i] = [status |-> "inbox", deps |-> deps]]
    /\ UNCHANGED <<decisions, links, desk>>

(* transition_work_item: its reads and checks.                             *)
ReadForTransition(p, i) ==
    /\ desk[p] = Idle
    /\ Transitions(works[i].status) # {}
    /\ desk' = [desk EXCEPT ![p] = [item |-> i, seen |-> works[i].status]]
    /\ UNCHANGED <<works, decisions, links>>

(* The update without the status it expects.                               *)
BlindTransition(p, to) ==
    /\ desk[p] # Idle
    /\ to \in Transitions(desk[p].seen)
    /\ works' = [works EXCEPT ![desk[p].item].status = to]
    /\ desk' = [desk EXCEPT ![p] = Idle]
    /\ UNCHANGED <<decisions, links>>

(* Its transaction: a compare-and-swap on the status that was read.        *)
Transition(p, to) ==
    LET i == desk[p].item
    IN  /\ desk[p] # Idle
        /\ to \in Transitions(desk[p].seen)
        /\ works' = IF works[i].status = desk[p].seen THEN [works EXCEPT ![i].status = to] ELSE works
        /\ desk' = [desk EXCEPT ![p] = Idle]
        /\ UNCHANGED <<decisions, links>>

(* register_decision, of one that supersedes another.                      *)
Supersede(d, s) ==
    decisions' = [decisions EXCEPT ![d] = [status |-> "active", supersedes |-> s, by |-> NoDecision],
                                   ![s].status = "superseded", ![s].by = d]

(* create_decision takes back its insertion if another decision was there  *)
(* first.                                                                  *)
RegisterInstead(d, s) ==
    /\ decisions[d].status = "absent"
    /\ s \in Made
    /\ decisions[s].by = NoDecision
    /\ Supersede(d, s)
    /\ UNCHANGED <<works, links, desk>>

Register(d) ==
    /\ decisions[d].status = "absent"
    /\ decisions' = [decisions EXCEPT ![d].status = "active"]
    /\ UNCHANGED <<works, links, desk>>

(* request_approval, resolve_approval.                                     *)
RequestApproval(a) ==
    /\ links[a] = "absent"
    /\ links' = [links EXCEPT ![a] = "pending"]
    /\ UNCHANGED <<works, decisions, desk>>

ResolveApproval(a, verdict) ==
    /\ links[a] = "pending"
    /\ links' = [links EXCEPT ![a] = verdict]
    /\ UNCHANGED <<works, decisions, desk>>

WorkNext ==
    \/ \E i \in Item, deps \in SUBSET Item : CaptureWork(i, deps)
    \/ \E p \in Process : \/ \E i \in Item : ReadForTransition(p, i)
                          \/ \E to \in WorkStatus : Transition(p, to)

RecordNext ==
    \/ \E d \in Decision : Register(d) \/ \E s \in Decision : RegisterInstead(d, s)
    \/ \E a \in Link : RequestApproval(a) \/ \E v \in {"approved", "rejected"} : ResolveApproval(a, v)

Next == WorkNext \/ RecordNext

Spec == Init /\ [][Next]_towerVars

-----------------------------------------------------------------------------
(* While work is open some open item waits for no other, so that it never  *)
(* says of everything that it is blocked on dependencies                   *)
(* (next_action_for); and of the decisions every superseded one names its  *)
(* one successor, which names it.                                          *)
ChainsAreSound ==
    /\ (\E i \in Item : works[i].status \in Open)
          => \E i \in Item : works[i].status \in Open /\ Blockers(i) = {}
    /\ \A d \in Decision : decisions[d].status = "superseded" <=> decisions[d].by # NoDecision
    /\ \A d, e \in Decision : decisions[d].by = e <=> decisions[e].supersedes = d

(* A status moves along the table, however long ago it was read; what is   *)
(* completed, cancelled, superseded, approved or rejected stays so.        *)
MovesLegally ==
    [][/\ \A i \in Item :
            works'[i].status # works[i].status /\ works[i].status # "absent"
              => works'[i].status \in Transitions(works[i].status)
       /\ \A d \in Decision : decisions[d].status = "superseded" => decisions'[d] = decisions[d]
       /\ \A a \in Link : links[a] \in {"approved", "rejected"} => links'[a] = links[a]]_towerVars
=============================================================================
