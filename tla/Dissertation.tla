--------------------------- MODULE Dissertation ---------------------------
(***************************************************************************)
(* Document versions, review jobs and gaps with their states, paragraph    *)
(* maps, and research tasks and decisions kept by the Control Tower        *)
(* (DissertationService over DissertationRepository). Every SELECT and     *)
(* every write is a step of its own: no operation here opens a transaction *)
(* before it reads. Nothing is deleted, so what was found stays found.     *)
(***************************************************************************)
EXTENDS Naturals

CONSTANTS
    Process,
    Version, Job, Gap,   \* rows with a state
    Task,                \* research tasks and decisions to be linked
    Counts,              \* paragraph counts build_paragraph_map is called with
    NoRow

VARIABLES
    states,      \* row -> its state
    map,         \* Version -> the ordinals of its paragraph map
    whole,       \* Version -> counts whose builder inserted every paragraph
    stage,       \* Task -> how much of it there is
    author       \* Process -> the locals of its call

dissertationVars == <<states, map, whole, stage, author>>

-----------------------------------------------------------------------------
Row == Version \cup Job \cup Gap

Initial(r) == CASE r \in Version -> "original" [] r \in Job -> "queued" [] r \in Gap -> "open"

(* VERSION_STATE_TRANSITIONS, REVIEW_JOB_TRANSITIONS, GAP_TRANSITIONS.     *)
VersionTransitions(s) ==
    CASE s = "original" -> {"working"} [] s = "working" -> {"reviewed"}
      [] s = "reviewed" -> {"approved"} [] OTHER -> {}

JobTransitions(s) ==
    CASE s = "queued" -> {"in_progress"} [] s = "in_progress" -> {"completed", "failed"} [] OTHER -> {}

GapTransitions(s) ==
    CASE s = "open"        -> {"in_progress", "deferred", "resolved"}
      [] s = "in_progress" -> {"resolved", "deferred", "open"}
      [] s = "deferred"    -> {"open", "in_progress"}
      [] OTHER             -> {}

Transitions(r, s) == CASE r \in Version -> VersionTransitions(s)
                       [] r \in Job     -> JobTransitions(s)
                       [] r \in Gap     -> GapTransitions(s)

Idle == [place |-> "idle", row |-> NoRow, seen |-> "absent", next |-> 0, count |-> 0]

Goto(p, new) == author' = [author EXCEPT ![p] = new]

-----------------------------------------------------------------------------
Init ==
    /\ states = [r \in Row |-> "absent"]
    /\ map = [v \in Version |-> {}] /\ whole = [v \in Version |-> {}]
    /\ stage = [t \in Task |-> "none"]
    /\ author = [p \in Process |-> Idle]

(* create_document_version, create_review_job, create_gap.                 *)
Create(r) ==
    /\ states[r] = "absent"
    /\ states' = [states EXCEPT ![r] = Initial(r)]
    /\ UNCHANGED <<map, whole, stage, author>>

(* update_document_version_state, update_review_job_status,                *)
(* update_gap_status: the row is read, and moved if it still is as read.   *)
ReadState(p, r) ==
    /\ author[p] = Idle
    /\ states[r] # "absent"
    /\ Transitions(r, states[r]) # {}
    /\ Goto(p, [Idle EXCEPT !.place = "moving", !.row = r, !.seen = states[r]])
    /\ UNCHANGED <<states, map, whole, stage>>

Move(p, to) ==
    LET r == author[p].row
    IN  /\ author[p].place = "moving"
        /\ to \in Transitions(r, author[p].seen)
        /\ states' = IF states[r] = author[p].seen THEN [states EXCEPT ![r] = to] ELSE states
        /\ Goto(p, Idle)
        /\ UNCHANGED <<map, whole, stage>>

(* build_paragraph_map: a version with a map is answered with it, or       *)
(* refused if it is of another size; otherwise the paragraphs follow, each *)
(* in a transaction of its own.                                            *)
OpenMap(p, v, n) ==
    /\ author[p] = Idle
    /\ states[v] # "absent"
    /\ map[v] = {}
    /\ Goto(p, [Idle EXCEPT !.place = "mapping", !.row = v, !.next = 1, !.count = n])
    /\ UNCHANGED <<states, map, whole, stage>>

Advance(p, v) ==
    IF author[p].next = author[p].count
    THEN whole' = [whole EXCEPT ![v] = @ \cup {author[p].count}] /\ Goto(p, Idle)
    ELSE Goto(p, [author[p] EXCEPT !.next = @ + 1]) /\ UNCHANGED whole

(* An insertion that takes what is there already for its own.              *)
InsertOrIgnore(p) ==
    LET v == author[p].row
    IN  /\ author[p].place = "mapping"
        /\ map' = [map EXCEPT ![v] = @ \cup {author[p].next}]
        /\ Advance(p, v)
        /\ UNCHANGED <<states, stage>>

(* create_paragraph_map: an ordinal that is there already ends the build.  *)
InsertParagraph(p) ==
    LET v == author[p].row
    IN  /\ author[p].place = "mapping"
        /\ IF author[p].next \in map[v]
           THEN Goto(p, Idle) /\ UNCHANGED <<map, whole>>
           ELSE map' = [map EXCEPT ![v] = @ \cup {author[p].next}] /\ Advance(p, v)
        /\ UNCHANGED <<states, stage>>

(* create_research_task, create_decision_link: the Control Tower's record, *)
(* the link to it, the audit entry, in three transactions.                 *)
CaptureTask(p, t) ==
    /\ author[p] = Idle
    /\ stage[t] = "none"
    /\ stage' = [stage EXCEPT ![t] = "captured"]
    /\ Goto(p, [Idle EXCEPT !.place = "linking", !.row = t])
    /\ UNCHANGED <<states, map, whole>>

LinkTask(p) ==
    /\ author[p].place = "linking"
    /\ stage' = [stage EXCEPT ![author[p].row] = "linked"]
    /\ Goto(p, [author[p] EXCEPT !.place = "auditing"])
    /\ UNCHANGED <<states, map, whole>>

AuditTask(p) ==
    /\ author[p].place = "auditing"
    /\ stage' = [stage EXCEPT ![author[p].row] = "audited"]
    /\ Goto(p, Idle)
    /\ UNCHANGED <<states, map, whole>>

(* What is due fails (a link to a chapter that does not exist), or the     *)
(* process dies before it.                                                 *)
Break(p) ==
    /\ author[p] # Idle
    /\ Goto(p, Idle)
    /\ UNCHANGED <<states, map, whole, stage>>

StateNext ==
    \/ \E r \in Row : Create(r)
    \/ \E p \in Process : \/ \E r \in Row : ReadState(p, r)
                          \/ \E r \in Row : \E to \in Transitions(r, author[p].seen) :
                                author[p].row = r /\ Move(p, to)

MapNext ==
    \/ \E v \in Version : Create(v)
    \/ \E p \in Process : \/ \E v \in Version, n \in Counts : OpenMap(p, v, n)
                          \/ InsertParagraph(p) \/ Break(p)

TaskNext == \E p \in Process : \/ \E t \in Task : CaptureTask(p, t)
                               \/ LinkTask(p) \/ AuditTask(p) \/ Break(p)

Next == StateNext \/ MapNext \/ TaskNext

Spec == Init /\ [][Next]_dissertationVars

-----------------------------------------------------------------------------
(* A paragraph map has no holes, it is the work of one caller although     *)
(* several may begin, and one that was completed stays as long as its      *)
(* builder was told (DissertationService.build_paragraph_map).             *)
MapsAreWhole ==
    \A v \in Version :
        /\ \A i \in map[v] : 1..i \subseteq map[v]
        /\ \A n \in whole[v] : map[v] = 1..n

(* Versions, review jobs and gaps move along their tables, however long    *)
(* ago their state was read.                                               *)
MovesLegally ==
    [][\A r \in Row : states'[r] # states[r] /\ states[r] # "absent"
          => states'[r] \in Transitions(r, states[r])]_dissertationVars
=============================================================================
