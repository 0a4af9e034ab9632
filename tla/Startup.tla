------------------------------ MODULE Startup ------------------------------
(***************************************************************************)
(* From a launch to polling: the single-instance lock of the service, the  *)
(* settings, and the stores whose tables an older release left in another  *)
(* form - columns that are added, the dispatches table that is rebuilt in  *)
(* one transaction, the knowledge tables that are rebuilt one committed    *)
(* statement after another. The other stores only CREATE ... IF NOT EXISTS *)
(* and are left out.                                                       *)
(*                                                                         *)
(* scripts/run_local.sh starts the bot without the lock, so two processes  *)
(* may go through it at once; either may die or fail anywhere, and the     *)
(* service manager starts it again.                                        *)
(***************************************************************************)
EXTENDS Naturals, Sequences

CONSTANTS
    Process,   \* what the service manager and the owner's shell may start
    NoProcess, \* nobody holds the lock
    MaxRows    \* bound: dispatches recorded

VARIABLES
    hosts,      \* per process: how it was started and how far it is
    lock,       \* data/nova.lock
    columns,    \* the stores that have the columns of this release
    dispatches, \* the table: its form and its rows
    recorded,   \* history: how many dispatches were ever recorded
    shelf,      \* the tables of knowledge, and their legacy copies
    shelved     \* history: what was ever written to them

startupVars == <<hosts, lock, columns, dispatches, recorded, shelf, shelved>>

-----------------------------------------------------------------------------
(* main, in its order, the stores with a migration.                        *)
Order == <<"night_shift", "approvals", "dispatch", "tower", "dissertation", "knowledge", "gateway", "polling">>
Additive  == {"night_shift", "tower", "dissertation"}
Migrating == {"approvals", "dispatch"}   \* both apply the schema of dispatch

Place(p) == IF hosts[p].at = 0 THEN "off" ELSE Order[hosts[p].at]
Polls(p) == Place(p) = "polling"

Capability == {"google", "drive", "gateway"}

(* What the environment says: the required values, the numbers and flags,  *)
(* the two paths of Google, the folder allowlist, the provider.            *)
Environment == [required : BOOLEAN, numbers : BOOLEAN, secrets : BOOLEAN, token : BOOLEAN,
                folders : {"absent", "sound", "malformed"}, provider : BOOLEAN]

(* load_settings: what raises ConfigurationError.                          *)
Refused(env) == \/ ~env.required \/ ~env.numbers
                \/ env.secrets # env.token
                \/ env.folders = "malformed"

(* No bundle without both paths, and Drive only as a part of it.           *)
Configured(env) ==
         (IF env.secrets THEN {"google"} ELSE {})
    \cup (IF env.secrets /\ env.folders = "sound" THEN {"drive"} ELSE {})
    \cup (IF env.provider THEN {"gateway"} ELSE {})

Off == [how |-> "local", at |-> 0, step |-> 0, old |-> FALSE, able |-> {}]

-----------------------------------------------------------------------------
Table  == {"sources", "items"}
Nobody == [form |-> "absent", rows |-> {}]
Empty  == [form |-> "wide", rows |-> {}]

(* _widen_source_type_check, its script: no statement waits for another    *)
(* commit than its own.                                                    *)
Widening == << <<"rename", "items">>, <<"rename", "sources">>, <<"create", "sources">>, <<"create", "items">>,
               <<"copy", "sources">>, <<"copy", "items">>, <<"drop", "items">>, <<"drop", "sources">> >>

(* What a table and its legacy copy must be for the statement not to       *)
(* raise; rows copied over others have ids that are taken.                 *)
CanRun(verb, t) ==
    CASE verb = "rename" -> t.now # Nobody /\ t.legacy = Nobody
      [] verb = "create" -> t.now = Nobody
      [] verb = "copy"   -> Nobody \notin {t.now, t.legacy} /\ {} \in {t.now.rows, t.legacy.rows}
      [] verb = "drop"   -> t.legacy # Nobody

Run(verb, t) ==
    CASE verb = "rename" -> [now |-> Nobody, legacy |-> t.now]
      [] verb = "create" -> [t EXCEPT !.now = Empty]
      [] verb = "copy"   -> [t EXCEPT !.now.rows = @ \cup t.legacy.rows]
      [] verb = "drop"   -> [t EXCEPT !.legacy = Nobody]

-----------------------------------------------------------------------------
(* A new installation, one of before SPRINT_8D (its knowledge sources have *)
(* no gmail_message), one of before SPRINT_8E, and one whose dispatches    *)
(* were renamed by a rebuild that stopped.                                 *)
Release == {"fresh", "narrow", "legacy", "orphaned"}

Init ==
    \E release \in Release :
        LET written == IF release = "fresh" THEN {} ELSE {"before"}
            source  == CASE release = "fresh"  -> Nobody
                         [] release = "narrow" -> [form |-> "narrow", rows |-> written]
                         [] OTHER              -> [form |-> "wide", rows |-> written]
            item    == IF release = "fresh" THEN Nobody ELSE [form |-> "wide", rows |-> written]
        IN  /\ hosts = [p \in Process |-> Off]
            /\ lock = NoProcess
            /\ columns = IF release \in {"fresh", "narrow"} THEN {} ELSE Additive
            /\ dispatches = CASE release = "fresh"    -> [form |-> "none", rows |-> 0]
                              [] release = "orphaned" -> [form |-> "orphaned", rows |-> 1]
                              [] OTHER                -> [form |-> "legacy", rows |-> 1]
            /\ recorded = IF release = "fresh" THEN 0 ELSE 1
            /\ shelf = [t \in Table |-> [now |-> IF t = "sources" THEN source ELSE item, legacy |-> Nobody]]
            /\ shelved = [t \in Table |-> written]

-----------------------------------------------------------------------------
Goto(p, new) == hosts' = [hosts EXCEPT ![p] = new]
Opened(p)    == Goto(p, [hosts[p] EXCEPT !.at = @ + 1, !.step = 0, !.old = FALSE])
Read(p, old) == Goto(p, [hosts[p] EXCEPT !.step = 1, !.old = old])

SameTables == UNCHANGED <<columns, dispatches, recorded, shelf, shelved>>

(* run_singleton: flock without waiting; a second service exits with 1 and *)
(* so does a refused configuration.                                        *)
AcquireLock(p, how) ==
    /\ how = "service" => lock = NoProcess
    /\ lock' = IF how = "service" THEN p ELSE lock

Launch(p, how) ==
    /\ Place(p) = "off"
    /\ AcquireLock(p, how)
    /\ Goto(p, [Off EXCEPT !.how = how, !.at = 1])
    /\ SameTables

(* A death, or an exception of a store: main returns 1 or it escapes, and  *)
(* the lock goes with the process.                                         *)
Die(p) ==
    /\ Place(p) # "off"
    /\ Goto(p, Off)
    /\ lock' = IF lock = p THEN NoProcess ELSE lock
    /\ SameTables

(* PRAGMA table_info, and then ALTER TABLE ADD COLUMN, which raises if     *)
(* another process has added it since.                                     *)
ReadColumns(p) ==
    /\ Place(p) \in Additive /\ hosts[p].step = 0
    /\ Read(p, Place(p) \notin columns)
    /\ UNCHANGED lock /\ SameTables

AddColumns(p) ==
    /\ Place(p) \in Additive /\ hosts[p].step = 1
    /\ hosts[p].old => Place(p) \notin columns
    /\ columns' = columns \cup {Place(p)}
    /\ Opened(p)
    /\ UNCHANGED <<lock, dispatches, recorded, shelf, shelved>>

(* _dispatch_schema_includes_workspace_action: nothing to rebuild when the *)
(* table is missing - but a copy that still holds data makes it raise. The *)
(* form is read before a transaction is open.                              *)
ReadForm(p) ==
    /\ Place(p) \in Migrating /\ hosts[p].step = 0
    /\ dispatches.form # "orphaned"
    /\ Read(p, dispatches.form = "legacy")
    /\ UNCHANGED lock /\ SameTables

(* A rebuild that expects nothing to copy unless the form is still old.    *)
RebuiltEmpty(table) == [form |-> "current", rows |-> IF table.form = "legacy" THEN table.rows ELSE 0]

(* RENAME, CREATE, copy, DROP in one transaction: a process that read the  *)
(* old form does it even if another has done it since.                     *)
Rebuilt(table) == [table EXCEPT !.form = "current"]

ApplySchema(p) ==
    /\ Place(p) \in Migrating /\ hosts[p].step = 1
    /\ dispatches' = IF hosts[p].old THEN Rebuilt(dispatches)
                     ELSE [dispatches EXCEPT !.form = IF @ = "none" THEN "current" ELSE @]
    /\ Opened(p)
    /\ UNCHANGED <<lock, columns, recorded, shelf, shelved>>

(* apply_schema of knowledge: the tables that are missing are made,        *)
CreateKnowledge(p) ==
    /\ Place(p) = "knowledge" /\ hosts[p].step = 0
    /\ shelf' = [t \in Table |-> [shelf[t] EXCEPT !.now = IF @ = Nobody THEN Empty ELSE @]]
    /\ Goto(p, [hosts[p] EXCEPT !.step = 1])
    /\ UNCHANGED <<lock, columns, dispatches, recorded, shelved>>

(* the form of the sources is read,                                        *)
ReadSources(p) ==
    /\ Place(p) = "knowledge" /\ hosts[p].step = 1
    /\ shelf["sources"].now # Nobody
    /\ IF shelf["sources"].now.form = "narrow" THEN Goto(p, [hosts[p] EXCEPT !.step = 2]) ELSE Opened(p)
    /\ UNCHANGED lock /\ SameTables

(* and both are rebuilt.                                                   *)
Widen(p) ==
    /\ Place(p) = "knowledge" /\ hosts[p].step > 1
    /\ LET i == hosts[p].step - 1
           verb == Widening[i][1]
           t == Widening[i][2]
       IN  /\ CanRun(verb, shelf[t])
           /\ shelf' = [shelf EXCEPT ![t] = Run(verb, @)]
           /\ IF i = Len(Widening) THEN Opened(p) ELSE Goto(p, [hosts[p] EXCEPT !.step = @ + 1])
    /\ UNCHANGED <<lock, columns, dispatches, recorded, shelved>>

(* A gateway that fails to start is left out, and so is a Drive service    *)
(* that refuses its folders; the bot goes on without. What load_settings   *)
(* read at the launch shows here first.                                    *)
OpenGateway(p, env, failed) ==
    /\ Place(p) = "gateway"
    /\ ~Refused(env)
    /\ failed \subseteq {"gateway", "drive"}
    /\ Goto(p, [hosts[p] EXCEPT !.at = @ + 1, !.able = Configured(env) \ failed])
    /\ UNCHANGED lock /\ SameTables

-----------------------------------------------------------------------------
(* A polling process records a dispatch (create_dispatch),                 *)
RecordDispatch(p) ==
    /\ Polls(p)
    /\ recorded < MaxRows
    /\ dispatches' = [dispatches EXCEPT !.rows = @ + 1]
    /\ recorded' = recorded + 1
    /\ UNCHANGED <<hosts, lock, columns, shelf, shelved>>

(* a knowledge source, or an item of that source.                          *)
Shelve(p, t) ==
    /\ Polls(p)
    /\ shelf[t].now # Nobody
    /\ t = "items" => "since" \in shelf["sources"].now.rows
    /\ shelf' = [shelf EXCEPT ![t].now.rows = @ \cup {"since"}]
    /\ shelved' = [shelved EXCEPT ![t] = @ \cup {"since"}]
    /\ UNCHANGED <<hosts, lock, columns, dispatches, recorded>>

Next ==
    \E p \in Process :
        \/ \E how \in {"service", "local"} : Launch(p, how)
        \/ Die(p)
        \/ ReadColumns(p) \/ AddColumns(p)
        \/ ReadForm(p) \/ ApplySchema(p)
        \/ CreateKnowledge(p) \/ ReadSources(p) \/ Widen(p)
        \/ \E env \in Environment, failed \in SUBSET {"gateway", "drive"} : OpenGateway(p, env, failed)
        \/ RecordDispatch(p)
        \/ \E t \in Table : Shelve(p, t)

Spec == Init /\ [][Next]_startupVars

-----------------------------------------------------------------------------
(* Who polls finds every column, a dispatches table of the current form    *)
(* with every row ever recorded, and Drive only within a Google bundle;    *)
(* at most one polls as the service. And whatever two processes rebuild    *)
(* and wherever they stop, no knowledge is dropped that is not held by a   *)
(* table or by its legacy copy (main, acquire_lock,                        *)
(* _migrate_dispatch_source_constraint, _widen_source_type_check).         *)
PollingIsWhole ==
    /\ \A p \in Process : Polls(p) =>
           /\ columns = Additive
           /\ dispatches = [form |-> "current", rows |-> recorded]
           /\ "drive" \in hosts[p].able => "google" \in hosts[p].able
    /\ \A p, q \in Process : Polls(p) /\ Polls(q) /\ {hosts[p].how, hosts[q].how} = {"service"} => p = q
    /\ \A t \in Table : shelved[t] \subseteq shelf[t].now.rows \cup shelf[t].legacy.rows

-----------------------------------------------------------------------------
(* What a comment says and the code does not do.                           *)

(* _widen_source_type_check: "preserving existing knowledge rows".         *)
KnowledgeIsPreserved ==
    (\E p \in Process : Polls(p)) => \A t \in Table : shelved[t] \subseteq shelf[t].now.rows
=============================================================================
