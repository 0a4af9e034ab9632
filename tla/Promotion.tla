---------------------------- MODULE Promotion ----------------------------
(***************************************************************************)
(* What the owner pastes (message intake) and what the Google services     *)
(* show (workspace bridge) waits as a row for his word, and is then made a *)
(* record of another component: a work item, note or decision in one       *)
(* transaction, or a knowledge item in four (IntakeService,                *)
(* WorkspaceBridgeService, KnowledgeService and their repositories).       *)
(*                                                                         *)
(* An action is a transaction. Two processes may serve the owner           *)
(* (scripts/run_local.sh does not take the lock of run_singleton); a       *)
(* command whose process died before it was acknowledged comes again.      *)
(***************************************************************************)
EXTENDS Naturals, FiniteSets

CONSTANTS
    Process,
    Intake, Ref,   \* the rows of external_message_intake, of workspace_source_refs
    Update,        \* messages from Telegram, all of them with the same text
    MaxTries,      \* bound: promotions that are begun
    None

VARIABLES
    rows,          \* Row -> its status, message and target
    items,         \* records made of rows, named by the row and the promotion
    sources,       \* knowledge sources, likewise
    tries,         \* promotions begun
    told,          \* promotions that were answered with success
    doing          \* Process -> the locals of its handler

promotionVars == <<rows, items, sources, tries, told, doing>>

-----------------------------------------------------------------------------
Row    == Intake \cup Ref
Status == {"absent", "pending", "confirmed", "dismissed"}
Try    == 1..MaxTries
Made   == [row : Row, try : Try]

Place == {"idle", "looking", "inserting", "recording", "sourcing", "auditing_source",
          "itemizing", "auditing_item", "resolving", "dismissing"}

Idle == [place |-> "idle", row |-> None, update |-> None, try |-> 0]

Doing == [place : Place, row : Row \cup {None}, update : Update \cup {None}, try : 0..MaxTries]

Goto(p, new)      == doing' = [doing EXCEPT ![p] = new]
Continue(p, step) == Goto(p, [doing[p] EXCEPT !.place = step])

(* The record the promotion of p makes.                                    *)
Mine(p) == [row |-> doing[p].row, try |-> doing[p].try]

Seen(u) == \E n \in Intake : rows[n].status # "absent" /\ rows[n].update = u

-----------------------------------------------------------------------------
Init ==
    /\ rows = [r \in Row |-> [status |-> "absent", update |-> None, fresh |-> FALSE, target |-> 0]]
    /\ items = {} /\ sources = {}
    /\ tries = 0 /\ told = {}
    /\ doing = [p \in Process |-> Idle]

(* capture: a message that has a row already is answered with that row.    *)
OpenCapture(p, u) ==
    /\ doing[p] = Idle
    /\ ~Seen(u)
    /\ Goto(p, [Idle EXCEPT !.place = "looking", !.update = u])
    /\ UNCHANGED <<rows, items, sources, tries, told>>

(* find_recent_pending_by_fingerprint: so is a text pasted twice within    *)
(* five minutes, if it still waits.                                        *)
FindDuplicate(p) ==
    /\ doing[p].place = "looking"
    /\ IF \E n \in Intake : rows[n].status = "pending" /\ rows[n].fresh
       THEN Goto(p, Idle)
       ELSE Continue(p, "inserting")
    /\ UNCHANGED <<rows, items, sources, tries, told>>

(* create: the unique index on the message refuses a second row of it.     *)
Insert(p) ==
    /\ doing[p].place = "inserting"
    /\ IF Seen(doing[p].update)
       THEN UNCHANGED rows
       ELSE \E n \in Intake :
               /\ rows[n].status = "absent"
               /\ rows' = [rows EXCEPT ![n] = [status |-> "pending", update |-> doing[p].update,
                                               fresh |-> TRUE, target |-> 0]]
    /\ Goto(p, Idle)
    /\ UNCHANGED <<items, sources, tries, told>>

(* create_or_get of the bridge, one transaction.                           *)
Propose(p, r) ==
    /\ doing[p] = Idle
    /\ rows[r].status = "absent"
    /\ rows' = [rows EXCEPT ![r].status = "pending"]
    /\ UNCHANGED <<items, sources, tries, told, doing>>

(* Five minutes are over.                                                  *)
Age(n) ==
    /\ rows[n].fresh
    /\ rows' = [rows EXCEPT ![n].fresh = FALSE]
    /\ UNCHANGED <<items, sources, tries, told, doing>>

-----------------------------------------------------------------------------
(* confirm, commit: the row must still wait.                               *)
OpenPromote(p, r, first) ==
    /\ doing[p] = Idle
    /\ rows[r].status = "pending"
    /\ tries < MaxTries
    /\ tries' = tries + 1
    /\ Goto(p, [Idle EXCEPT !.place = first, !.row = r, !.try = tries'])
    /\ UNCHANGED <<rows, items, sources, told>>

(* capture_work, create_note, register_decision.                           *)
Record(p) ==
    /\ doing[p].place = "recording"
    /\ items' = items \cup {Mine(p)}
    /\ Continue(p, "resolving")
    /\ UNCHANGED <<rows, sources, tries, told>>

(* create_source, its audit entry, create_item, its audit entry.           *)
MakeSource(p) ==
    /\ doing[p].place = "sourcing"
    /\ sources' = sources \cup {Mine(p)}
    /\ Continue(p, "auditing_source")
    /\ UNCHANGED <<rows, items, tries, told>>

AuditSource(p) ==
    /\ doing[p].place = "auditing_source"
    /\ Continue(p, "itemizing")
    /\ UNCHANGED <<rows, items, sources, tries, told>>

MakeItem(p) ==
    /\ doing[p].place = "itemizing"
    /\ items' = items \cup {Mine(p)}
    /\ Continue(p, "auditing_item")
    /\ UNCHANGED <<rows, sources, tries, told>>

AuditItem(p) ==
    /\ doing[p].place = "auditing_item"
    /\ Continue(p, "resolving")
    /\ UNCHANGED <<rows, items, sources, tries, told>>

(* A resolution that does not look at the status again.                    *)
BlindResolve(p) ==
    /\ doing[p].place = "resolving"
    /\ rows' = [rows EXCEPT ![doing[p].row].status = "confirmed", ![doing[p].row].target = doing[p].try]
    /\ told' = told \cup {doing[p].try}
    /\ Goto(p, Idle)
    /\ UNCHANGED <<items, sources, tries>>

(* resolve, mark_committed: a compare-and-swap on the status.              *)
Resolve(p) ==
    LET r == doing[p].row
    IN  /\ doing[p].place = "resolving"
        /\ IF rows[r].status = "pending"
           THEN /\ rows' = [rows EXCEPT ![r].status = "confirmed", ![r].target = doing[p].try]
                /\ told' = told \cup {doing[p].try}
           ELSE UNCHANGED <<rows, told>>
        /\ Goto(p, Idle)
        /\ UNCHANGED <<items, sources, tries>>

(* dismiss, mark_dismissed.                                                *)
OpenDismiss(p, r) ==
    /\ doing[p] = Idle
    /\ rows[r].status = "pending"
    /\ Goto(p, [Idle EXCEPT !.place = "dismissing", !.row = r])
    /\ UNCHANGED <<rows, items, sources, tries, told>>

Dismiss(p) ==
    LET r == doing[p].row
    IN  /\ doing[p].place = "dismissing"
        /\ rows' = IF rows[r].status = "pending" THEN [rows EXCEPT ![r].status = "dismissed"] ELSE rows
        /\ Goto(p, Idle)
        /\ UNCHANGED <<items, sources, tries, told>>

(* What is due fails or is refused (a text too long for an item, with its  *)
(* source already there), or the process dies before it.                   *)
Break(p) ==
    /\ doing[p] # Idle
    /\ Goto(p, Idle)
    /\ UNCHANGED <<rows, items, sources, tries, told>>

Next ==
    \/ \E n \in Intake : Age(n)
    \/ \E p \in Process :
          \/ \E u \in Update : OpenCapture(p, u)
          \/ \E r \in Ref : Propose(p, r)
          \/ \E r \in Row, first \in {"recording", "sourcing"} : OpenPromote(p, r, first)
          \/ \E r \in Row : OpenDismiss(p, r)
          \/ FindDuplicate(p) \/ Insert(p) \/ Dismiss(p) \/ Break(p)
          \/ Record(p) \/ MakeSource(p) \/ AuditSource(p) \/ MakeItem(p) \/ AuditItem(p) \/ Resolve(p)

Spec == Init /\ [][Next]_promotionVars

-----------------------------------------------------------------------------
(* Every variable has its type.                                            *)
TypeOK ==
    /\ rows \in [Row -> [status : Status, update : Update \cup {None}, fresh : BOOLEAN, target : 0..MaxTries]]
    /\ items \subseteq Made /\ sources \subseteq Made
    /\ tries \in 0..MaxTries /\ told \subseteq Try
    /\ doing \in [Process -> Doing]

(* A message has one row; a confirmed row names a record that exists, and  *)
(* the promotion that made it is the only one of the row answered with     *)
(* success; what a broken or late promotion leaves behind is named nowhere *)
(* (IntakeService.confirm, WorkspaceBridgeService.commit).                 *)
PromotedOnce ==
    /\ \A m, n \in Intake : rows[m].update = rows[n].update /\ rows[m].update # None => m = n
    /\ \A r \in Row :
          /\ rows[r].status = "confirmed" <=> rows[r].target \in Try
          /\ rows[r].status = "confirmed" => [row |-> r, try |-> rows[r].target] \in items
    /\ told = {rows[r].target : r \in Row} \cap Try
    /\ told \cap {doing[p].try : p \in Process} = {}
=============================================================================
