----------------------------- MODULE MCRecords -----------------------------
(* Instances of the components that keep records, hold a token, read       *)
(* Google or start the bot. They share no state: every behaviour follows   *)
(* one of them, chosen at the start, and leaves the others as they are.    *)
EXTENDS Naturals, Sequences, FiniteSets, TLC

CONSTANTS Parts,                          \* the components that are followed
          Process, None,
          Intake, Ref, Update, MaxTries,
          Chat, User, MaxQuestion, Menu, Contextual, Reply,
          Item, Decision, Link,
          Account,
          Version, Job, Gap, Topic, Counts,
          Tasks, Title, Priorities, Moments, NextActions, Others,
          Entry, Hidden, Page, Limit, MaxSize, MaxCopies

ASSUME RecordsAssumption ==
    /\ MaxTries \in Nat
    /\ Counts \subseteq Nat \ {0}
    /\ None \notin Decision \cup Process

ASSUME ConversationAssumption ==
    /\ MaxQuestion \in Nat
    /\ Menu \subseteq Seq([index : Reply \ Contextual, label : Reply, high : BOOLEAN]) \ {<<>>}

ASSUME MemoryAssumption ==
    /\ Tasks \subseteq Nat \ {0} /\ IsFiniteSet(Tasks)
    /\ Priorities \subseteq Nat
    /\ Others \subseteq Nat
    /\ Moments \subseteq Nat

ASSUME ReadsAssumption ==
    /\ IsFiniteSet(Page)
    /\ Limit \in Nat \ {0} /\ MaxSize \in Nat /\ MaxCopies \in Nat

VARIABLES part,
          rows, items, sources, tries, told, doing,      \* Promotion
          questions,                                     \* Conversation
          works, decisions, links, desk,                 \* ControlTower
          token, cache, session, wish, stale, spoiled,   \* TokenStore
          states, map, whole, stage, author,             \* Dissertation
          tasks, clerk, latest,                          \* WorkspaceMemory
          read, copy, disk,                              \* Reads
          plan,                                          \* Router
          hosts, lock, columns, dispatches, recorded, shelf, shelved   \* Startup

promotionVars    == <<rows, items, sources, tries, told, doing>>
towerVars        == <<works, decisions, links, desk>>
tokenVars        == <<token, cache, session, wish, stale, spoiled>>
dissertationVars == <<states, map, whole, stage, author>>
memoryVars       == <<tasks, clerk, latest>>
readVars         == <<read, copy, disk>>
startupVars      == <<hosts, lock, columns, dispatches, recorded, shelf, shelved>>
vars == <<part, promotionVars, questions, towerVars, tokenVars, dissertationVars,
          memoryVars, readVars, plan, startupVars>>

-----------------------------------------------------------------------------
(* Promotion, of the intake's rows or of the bridge's. Bounds: 2 messages  *)
(* of one text or one reference, and 2 promotions begun (MaxTries), so     *)
(* that one breaks and another succeeds.                                   *)
P == INSTANCE Promotion

(* Conversation. Bounds: 3 questions (MaxQuestion), so that one supersedes *)
(* another and a third is of another chat; menus (Menus) whose label is    *)
(* another's number, is a contextual word, and the one that is refused.    *)
push  == [index |-> "1", label |-> "push", high |-> FALSE]
drop  == [index |-> "2", label |-> "drop", high |-> TRUE]
Menus == {<<push>>, <<[push EXCEPT !.label = "2"], drop>>,
          <<[push EXCEPT !.label = "ok"], drop>>, <<push, [drop EXCEPT !.label = "ok"]>>}
C == INSTANCE Conversation

(* ControlTower. Its work items and its records do not meet.               *)
T == INSTANCE ControlTower WITH NoItem <- None, NoDecision <- None

(* TokenStore: the read and the write authenticator of each process.       *)
A == INSTANCE TokenStore WITH Authenticator <- Process

(* Dissertation. Bounds: maps of at most 3 paragraphs (Counts).            *)
D == INSTANCE Dissertation WITH Task <- Topic, NoRow <- None

(* WorkspaceMemory. Bounds: 2 tasks, with at most 197 others of either     *)
(* kind (Others), so that the percentage comes to its edges at 0 and 100;  *)
(* sessions of 2 seconds (Moments), with or without a next action.         *)
M == INSTANCE WorkspaceMemory WITH Task <- Tasks

(* Reads. Bounds: a limit of 2 of 3 entries, so that a page may be cut; a  *)
(* file of at most 2 chunks, and 3 copies begun.                           *)
R == INSTANCE Reads WITH Token <- Page, NoToken <- None

W == INSTANCE Router

(* Startup. Bounds: 2 dispatches, one of them of the older release.        *)
S == INSTANCE Startup WITH NoProcess <- None, MaxRows <- 2

-----------------------------------------------------------------------------
(* The tables of an older release only where the start is followed.        *)
Init ==
    /\ part \in Parts
    /\ P!Init /\ C!Init /\ T!Init /\ A!Init /\ D!Init /\ M!Init /\ R!Init /\ W!Init /\ S!Init
    /\ part # "startup" => dispatches.form = "none"

Promote  ==
    /\ part \in {"intake", "bridge"} /\ P!Next
    /\ \A r \in (IF part = "intake" THEN Ref ELSE Intake) : rows'[r] = rows[r]
    /\ UNCHANGED <<part, questions, towerVars, tokenVars, dissertationVars, memoryVars, readVars, plan, startupVars>>
Converse == part = "conversation" /\ C!Next
               /\ UNCHANGED <<part, promotionVars, towerVars, tokenVars, dissertationVars, memoryVars, readVars, plan, startupVars>>
Work     == part = "work" /\ T!WorkNext
               /\ UNCHANGED <<part, promotionVars, questions, tokenVars, dissertationVars, memoryVars, readVars, plan, startupVars>>
Decide   == part = "decisions" /\ T!RecordNext
               /\ UNCHANGED <<part, promotionVars, questions, tokenVars, dissertationVars, memoryVars, readVars, plan, startupVars>>
Connect  == part = "token" /\ A!Next
               /\ UNCHANGED <<part, promotionVars, questions, towerVars, dissertationVars, memoryVars, readVars, plan, startupVars>>
Review   == part = "states" /\ D!StateNext
               /\ UNCHANGED <<part, promotionVars, questions, towerVars, tokenVars, memoryVars, readVars, plan, startupVars>>
MapOut   == part = "maps" /\ D!MapNext
               /\ UNCHANGED <<part, promotionVars, questions, towerVars, tokenVars, memoryVars, readVars, plan, startupVars>>
Research == part = "research" /\ D!TaskNext
               /\ UNCHANGED <<part, promotionVars, questions, towerVars, tokenVars, memoryVars, readVars, plan, startupVars>>
Remember == part = "memory" /\ M!Next
               /\ UNCHANGED <<part, promotionVars, questions, towerVars, tokenVars, dissertationVars, readVars, plan, startupVars>>
Search   == part = "reads" /\ R!ReadNext
               /\ UNCHANGED <<part, promotionVars, questions, towerVars, tokenVars, dissertationVars, memoryVars, plan, startupVars>>
Download == part = "copies" /\ R!CopyNext
               /\ UNCHANGED <<part, promotionVars, questions, towerVars, tokenVars, dissertationVars, memoryVars, plan, startupVars>>
Route    == part = "router" /\ W!Next
               /\ UNCHANGED <<part, promotionVars, questions, towerVars, tokenVars, dissertationVars, memoryVars, readVars, startupVars>>
Start    == part = "startup" /\ S!Next
               /\ UNCHANGED <<part, promotionVars, questions, towerVars, tokenVars, dissertationVars, memoryVars, readVars, plan>>

Next == \/ Promote \/ Converse \/ Work \/ Decide \/ Connect \/ Review \/ MapOut \/ Research
        \/ Remember \/ Search \/ Download \/ Route \/ Start

Spec == Init /\ [][Next]_vars

-----------------------------------------------------------------------------
(* A confirmed row names the one record its answered promotion made.       *)
PromotedOnce == P!PromotedOnce

(* A high-risk choice is never taken by a contextual word.                 *)
ChoicesAreMeant == C!ChoicesAreMeant

(* Open work is never all blocked; a superseded decision names its one     *)
(* successor.                                                              *)
ChainsAreSound == T!ChainsAreSound

(* The statuses of work items, decisions, links, versions, review jobs and *)
(* gaps move along their tables, however long ago they were read.          *)
StatusesMoveLegally == T!MovesLegally /\ D!MovesLegally

(* The token is of the account the owner last connected.                   *)
TokenIsTheOwners == A!TokenIsTheOwners

(* A paragraph map has no holes and keeps its size.                        *)
MapsAreWhole == D!MapsAreWhole

(* Completions, the recommendation and the percentage say what is so.      *)
ProgressIsHonest == M!ProgressIsHonest

(* A read says whether pages are left, and a downloaded file is whole.     *)
ReadsAreHonest == R!ReadsAreHonest /\ R!CopiesAreWhole

(* What the words of a message may change of its plan.                     *)
WordsDecide == W!WordsDecide

(* Who polls finds every table, and every row ever recorded.               *)
PollingIsWhole == S!PollingIsWhole

(* So it is of the knowledge rows, says the comment of their rebuild.      *)
KnowledgeIsPreserved == S!KnowledgeIsPreserved
=============================================================================
