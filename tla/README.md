# NOVA AI Office: a TLA+ model of the code

NOVA is a single-user office assistant: one Telegram bot process, one SQLite
database, a scheduler tick every five minutes, language-model providers and
Google Workspace behind it. Its owner is the only user; its promise is that
nothing consequential happens without the owner's recorded approval, that
nothing is done twice, and that a crash or a slow reply never leaves a record
that lies about what was done. The modules here state those promises about the
Python code in `src/app`, TLC checks them on small instances, and TLAPS proves
the most important ones for instances of every size.

## 1. The system

### How code runs

- Every service method works on `MemoryDatabase.connection()`
  (`memory/database.py`): one SQLite transaction, committed when the block ends,
  rolled back when it raises. A method with several such blocks can be
  interleaved with others, and can die, between any two of them. This is what
  "one action" means in every module. A block that selects before it has begun a
  transaction is two actions where it writes by what it selected.
- The bot is one asyncio loop. Handlers run without interruption between
  `await`s; `/ask` awaits a provider, so the tick runs meanwhile.
  `_nightshift_tick` has no `await`; work it dispatches to a provider runs on a
  thread of its own, for which the loop waits.
- `run_singleton.py` holds a file lock, but `scripts/run_local.sh` starts without
  it, and the tests drive the services from threads. So the modules allow several
  callers inside one service. launchd or `service.sh` restarts a process that dies.
- There is no message queue. What can be delayed, lost or repeated is a Telegram
  command, a tick, an answer of a provider or of Google.

### Inventory

| Component (`src/app/`) | State it keeps | Operations | Talks to | What makes it correct |
|---|---|---|---|---|
| `dispatch` | `dispatches`, `dispatch_attempts`, `approvals` | create, dispatch, retry, cancel, synchronize, request/approve/reject/expire approval | agent adapters; called by nearly everything | no agent call without approval; one call at a time; outcomes recorded; closed rows final |
| `nightshift` worker and queue | `night_queue_jobs` with leases, runtime mode | enqueue, claim, execute, retry, defer, recover, cancel | `dispatch` | drafts are earned; finished work not redone nor lost; jobs settle |
| `nightshift` schedule | mode, schedule, notifications, briefs | tick, set mode, wake, brief | worker reads the mode | the mode follows the window; an override is kept unless it falls into a tick; a brief each morning |
| `workspace_actions` | `workspace_actions` | request, approve, reject, observe, execute, finalize | `drafting`, `dispatch`, Google Docs | one write at most, approved, of the current draft, truthfully recorded |
| `drafting` | `prepared_workspace_actions` | prepare, revise, mark ready | language model for text | a ready draft is the latest revision |
| `google_workspace` | token file, account namespace cache | authenticate, refresh, disconnect; read calls, downloads; create document | Google | the token is of the account the owner connected; a read says whether it is complete; outcome classes are true |
| `agent_assignment` | `agent_assignments` | propose, accept, start, complete, cancel, reassign | `dispatch` | an assignment in progress has its dispatch; one live assignment per dispatch |
| `execution` | `executions`, audit log | submit, approve, cancel, reconcile at start | local adapter | approved before run; nothing queued or running for ever |
| `providers` | circuits in memory, request log | generate_text | 9Router, specialists; `router` | at most three live calls; open circuits are left alone |
| `conversation` | pending interactions | ask, resolve by reply, expire | bot | one open question per chat; high-risk choices named exactly |
| `intake`, `workspace_bridge` | captured messages, source references | capture, confirm/commit, dismiss | `control_tower`, `memory`, `knowledge` | promoted once |
| `control_tower` | work items, decisions, approval links | capture, transition, decide, aggregate | most read from it | legal transitions; open work is never all blocked; one successor per decision |
| `dissertation` | chapters, versions, paragraph maps, review jobs, sources, gaps, links | record keeping | `control_tower` | maps have no holes; states move legally |
| `memory`, `knowledge` | projects, tasks, notes, work sessions; sources, items | create, list, update, recommend | | completions, progress and recommendation say what is so; no knowledge is lost |
| `router` | none (pure) | classify, risk, plan | `providers`, `execution` | risk never underestimated |
| `brief`, `dashboard`, `workspace_intel` | none | read-only views | all of the above | |
| `telegram_bot`, `main`, `run_singleton`, `config` | the lock file; the schemas of all tables | commands; start-up and migration | all services | who polls finds every table in its present form with every row |

### Where it is hard

- Interleavings: read-check-write over two transactions in `retry_dispatch`,
  `observe_approval`, `execute`, `revise`, `transition_night_job`, `tick`. And a block
  of one connection without `BEGIN IMMEDIATE` is no transaction until its first
  write (Python's `sqlite3`): what it selects before that can be stale when it
  writes, as in `set_mode` and `reconcile_running_to_failed_with_ids`.
- Crashes: between an agent's success and the row that says so; between a
  dispatch and the row it is linked to; between two status changes of one job.
- Uncertain outcomes: Google may have created the document when the answer is
  an error; a lease may run out while its worker still works.
- Retries: of dispatches beyond `max_attempts`, of night jobs under another
  idempotency key, of approved work under an old approval.
- Partial failure: intake promotion, assignment start, paragraph maps, research
  tasks; migrations that stop half-way.
- Two processes that share a file: a token refresh that began before the owner
  disconnected writes after it.

`PROJECT.json` lists each hazard at its line with the properties that cover it.

## 2. The modules

| Module | Models | Notes |
|---|---|---|
| `ApprovalGate` | the owner's contract, abstractly | refined by `Dispatch` and by `WorkspaceAction` |
| `Dispatch` | `DispatchService`, `ApprovalService`, `DispatchRepository` | instantiated by the three below |
| `NightShift` | `NightShiftWorker`, the queue, `_nightshift_tick` | its dispatch calls are actions of `Dispatch` |
| `Assignment` | `AgentAssignmentService`, with `/approve`, `/reject`, `/canceldispatch`, `/retrydispatch` | runs the actions of `Dispatch` one by one; `AssignmentRequest` has what it asks of it |
| `WorkspaceAction` | `WorkspaceActionService`, docs memos of `DraftingService`, `DocsWriteService`, `/approve`, `/reject` | its dispatch and approval records are those of `Dispatch` |
| `Execution` | `ExecutionService`, its repository and audit log, `/run`, `/runapprove`, `/cancelrun` | |
| `ProviderGateway` | `select_provider_chain`, `generate_text`, `CircuitBreaker` | |
| `NightSchedule` | the scheduler part of the tick, mode changes, configuration, brief | `NightShift` has the mode it sets as an input |
| `Promotion` | `IntakeService`, `WorkspaceBridgeService`, the knowledge writes they call | the stores they promote to are a set of records |
| `Conversation` | `ConversationService` and its repository | |
| `ControlTower` | `ControlTowerService` and its repository | |
| `TokenStore` | `GoogleAuthenticator`, `SecureFileTokenStorage` | |
| `Dissertation` | the stateful part of `DissertationService` | |
| `WorkspaceMemory` | the tasks and the latest session of `WorkspaceMemoryService` | |
| `Reads` | `search_events`, `search_files`, `search_messages`, `_stream_download_safe` | |
| `Router` | `classify_intent`, `assess_risk`, `get_workflow`, `generate_plan` | pure: operators over what is found in a message |
| `Startup` | `main`, `run_singleton`, `load_settings`, the migrating stores | |
| `MCOffice` | `Execution`, `ProviderGateway`, `NightSchedule`, and `WorkspaceAction` and `Dispatch` without crashes; one followed per behaviour | where liveness is checked |
| `MCRecords` | `Promotion` to `Startup`, one followed per behaviour | they share no state |
| `MCDispatchUsers` | `WorkspaceAction` and `Assignment`, one followed per behaviour | they share `Dispatch` and no row |
| `MCNightShiftPair` | `NightShift` with two processes, in a calm or a rough setting | |
| `MCDispatch`, `MCNightShift` | constants, symmetry for TLC | |
| `DispatchProofs` | theorems about `Dispatch`; that it implements `ApprovalGate` | |
| `NightShiftProofs` | theorems about `NightShift` | |
| `WorkspaceActionProofs` | theorems about `WorkspaceAction`; that it implements `ApprovalGate` | use those about `Dispatch` |
| `AssignmentProofs` | theorems about `Assignment` | use those about `Dispatch` |
| `ExecutionProofs` | theorems about `Execution` | |
| `ProviderGatewayProofs` | theorems about `ProviderGateway` | |
| `OfficeProofs` | every safety property of `MCOffice` | uses the theorems of its components |
| `RecordsProofs` | every property of `MCRecords` | theorems about `Promotion`, `Conversation`, `ControlTower`, `TokenStore`, `Dissertation`, `WorkspaceMemory`, `Reads`, `Router`, `Startup` |

A definition that models code is listed in `PROJECT.json` under `map` with the
lines it stands for. Definitions that show how the code could be wrong
(`BlindClaim`, `TrustCheck`, ...) stand before the definition they vary; the
specification does not use them, and each property is known to fail with the
variant that `mutants` names.

### Dispatch

A dispatch row is identified with its UNIQUE `(source_type, source_id,
idempotency_key)` triple (a `Key`). `status`, `request` and `attempts` are its
columns and attempt rows; `approval` is the approvals table with the deadline
reduced to none, ahead or passed; `call[p]` holds the local variables of the
method a caller is in; `executions` counts entries into the adapter. `dispatch()`
is the sequence `ReadForDispatch`, `Claim`, `MarkRunning`, `BeginAttempt`,
`Execute`, `Finish`; `retry_dispatch()` enters by `ReadForRetry` and shares the
rest, with the two differences the code has (it ignores the -1 of
`increment_attempt_in` and resolves the adapter inside its `try`). `_transition`
is `Swap`. A step that raises and rolls back changes only `call`: that is why
`ApproveTooLate` writes nothing, its two writes being rolled back by the
exception raised inside the same block. Audit rows, texts and actors are left
out; no code reads them back.

`ApprovalGate` is the contract: guarded work runs only after a grant, a grant
and the release of the work are one step, and work that is done or closed stays
so. `ImplementsGate` maps the rows to it.

### NightShift

`job` is the table with the lease reduced to free, held or expired, `loc[w]` the
place and locals of a process in its tick or command, `kind` the classification
of the job's type (which another release may change: `Deploy`), `night` the
runtime mode. A tick is `Loop`: the claim loop over the listed jobs, then the
recovery loop over those preparing. Abstractions: reads that follow one another
with no write between them are one action; whether a lease has run out is
evaluated when the list is read; the order of a loop's list is arbitrary; the
five-minute period is left out, so a process may tick whenever it is idle. A job
awaiting approval is moved on by no code of the application. Approvals asked for
a deferred job sit on a dispatch that stays pending.

A second process is outside what `SPRINT_5F.md:96` supports. It is modelled all
the same, since `run_local.sh` allows it, but what it breaks (the unconditional
`release_lease`, a lost `attempt_count`, work repeated by two live processes)
is recorded as a limit and not as a finding.

### WorkspaceAction

`draft` and `action` are the two tables, `loc[p]` the place and locals of a
command, `writes` and `documents` what was asked of Google and what exists
there. The dispatch of an action is a record only: the claim is the
compare-and-swap approved -> executing on the action's row, between two checks
that the draft is still current. `Generic` is the approve-then-dispatch branch of
`/approve` for an approval bound to no action. `Reports` pairs what
`create_private_document` reports with what Google holds: a failure may have left a
document, since server errors and answers without a document id are failures, too
(`google_workspace/docs/service.py:70`, `:97`). The chat binding, the
fingerprint (whose content is immutable: it changes only with the status of the
draft) and the text of a document are abstracted. `mark_ready_for_action` and
`revise` have no Telegram command but are public; nothing in the code supersedes
a ready draft, so `SupersedeReady` is no part of `Next`: `MCOffice` adds it, since
SPRINT_8E argues about it and its tests do it in SQL. `ExecuteCall` is the direct call of the
concurrency test. `expire_or_close` has no caller and is only in `Dispatch`.

### Assignment

`row` is `agent_assignments`, `loc[p]` the place and locals of a caller. The
idempotency key of an assignment's dispatch is made of the assignment's id, so
the two share their identity and `Dispatch` is instantiated with assignments as
keys. A start is `Start`, `Create`, `InsertDispatch`, then `AskApproval` or the
steps of `dispatch()` (`StartDispatch`, `RunDispatch`), and `Link`: each is one
transaction, between which the owner may cancel, complete or reassign the
assignment and may approve, reject, cancel or retry the dispatch. The request names no
`max_attempts`, so that the default of 3 holds (`MaxAttempts`), and `/retrydispatch`
(`RetryCommand`) has a failed agent called again, whatever became of the assignment;
`retries` counts the `retry_started` events. A capability is
reduced to whether it needs approval, an agent to whether its adapter is
registered; the requester of a start is kept because it is what makes a second
start a duplicate or a conflict. The human's display fields, the notes and the
audit entries are left out.

### Execution

`state`, `approved` and `log` are the row and its audit entries, `gated` the risk
that the router found, `runs` counts entries into the adapter, `at[p]` is the
method a process is in with its locals. Each transaction is an action: the swap
(`Swap` is `transition_state`), the audit entry after it, the adapter. Time and
output limits are failures of the adapter. Two processes may share the database,
so the reconciliation of a starting one meets executions that another still runs:
`Start` selects what is running, `Sweep` fails what is running by then, and
`NoteReconciled` notes every id that was selected, also one that another process ended
in between. The instruction, of which the code stores only a hash, is left out.

### ProviderGateway

`breaker` is the circuit of each route, `ask[r]` the locals of one `generate_text`:
its chain and the verdict on each route tried. What happens between two answers
of adapters is one action (`Ask`, `Answer`), for it contains no `await`. Time is
reduced to whether the reset timeout of a route has passed (`Cool`). Which adapters
are available is chosen anew at each step. The chain is computed (`ChainOf`) from
constants that stand for the configuration and the registry.

### NightSchedule

`clock` is the minute of the local day, `schedule`, `mode`, `manual` and `briefed` are
the rows, `tick[p]` the timer and locals of a process. `CompareMode` and `WriteMode` are
the two halves of `set_mode`, whose comparison is made outside of the transaction of its
upsert. The clock stands still while
a tick or command is under way and advances when no timer is due, so ticks come
exactly `Period` minutes apart, as `run_repeating` has it. `/wake` itself fails in
the code, since it calls a method that does not exist (`telegram_bot.py:1467`);
`Wake` is the service's `wake_now`.

### Promotion

A `Row` is a captured message (`Intake`) or a candidate of the bridge (`Ref`).
`confirm` and `commit` are one handler: the row must wait (`OpenPromote`), a record
is made of it by one transaction (`Record`) or, as knowledge, by four
(`MakeSource` to `AuditItem`), and `resolve` is the compare-and-swap afterwards.
`items` and `sources` are what other components hold, named by the row and the
promotion (`try`) that made them; `told` are the promotions that were answered with
success. `Break` is the failure of what is due, or the death of the process: the
code does nothing for either. The two ways to find a duplicate message are
`Seen` (the update's id, with a unique index) and `FindDuplicate` (the text, while
it is fresh).

### Conversation

`questions` is the table, one row per question with its chat, user, menu, expiry.
All operations are single transactions. A menu is reduced to the index, the label
and the risk of its choices, a reply to the words that match one of them or are
contextual ("ok").

### ControlTower

`works`, `decisions` and `links` are its tables, `desk[p]` the status a process read
for `transition_work_item`. Dependencies are given at capture only, so that they
point to older items; that is why open work is never all blocked.

### TokenStore

`token` is the file, `session[a]` what an authenticator holds in its memory while it
talks to Google, `cache[a]` the account it remembers. `wish`, `stale` and `spoiled` are
history: what the owner asked for last, which authenticators have anything from
before, and whether one of them has written the file since. They state how far the
promise goes; no action reads them in a guard.

### Dissertation

`states` are the versions, review jobs and gaps, moved by read and
compare-and-swap; `map[v]` are the ordinals in the paragraph map of a version, one
transaction each, where a collision ends the build; `stage[t]` is how much of a
research task or decision link there is: the Control Tower's record, the link, the
audit entry.

### WorkspaceMemory

`tasks` is the table of one project, `clerk[p]` what `update_task_status` has read.
`Named` is `resolve_task`, `Percentage` is `progress` with Python's rounding. `latest` is
the latest work session: `create_session` reads the clock before it inserts, so one that
started earlier may come later. `Recommended` is `continue_context`: what the latest
session says is next, or else a task. Its three reads are one here; the code makes them
one after the other, so that it may name a task that was done in between.

### Reads

`read` is one search under way: Google answers each request with any page and any
next token, or fails. `copy` and `disk` are a download into the workspace directory
by temporary file and `os.replace`. Google is external; the loops, their limits, the
page sizes and what they report are the code's.

### Router

A message is what the keyword sets and the risk patterns find in it, with at most
two hits per category told apart. `plan` holds the message under consideration; the
properties compare the plan of one message with that of another that has one word
more.

### Startup

`hosts[p]` is how far a process is on its way from launch to polling, `lock` the file
lock, `columns`, `dispatches` and `shelf` the tables an older release left. A migration
step is a statement where the code commits each statement (`Widen`) and a
transaction where it does not (`ApplySchema`). `Init` has the four forms of database
the code handles: new, before SPRINT_8D, before SPRINT_8E, and with a renamed
table left over.

### MCOffice and MCRecords

`part` chooses at the start which component a behaviour follows; the others stay
as they are, and fairness is that of the component followed. This checks them in
one run as thoroughly as in one each, because they share no state: the state of a
behaviour is that of the component followed and a constant. Within `MCRecords` a
component whose tables do not meet is followed in pieces (`work` and `decisions`,
`states` and `maps` and `research`, `reads` and `copies`).

## 3. What the runs check

All bounds are constants of the `.cfg` files. One key, job or action is enough
for most runs because rows of different keys share nothing but the callers;
two or three callers give every race a winner, a loser and a bystander. Deadlock
is not checked where identifiers can run out (a fresh approval, a new process)
or where all work may be over; it is checked in the Night Shift run of two
processes, which has no crashes.

| Run | Bounds | Shows |
|---|---|---|
| `dispatch` | 1 key, 2 approvals, 2 callers, gated/free/unregistered requests, crashes, `synchronize_status` before the first execution, at most 4 executions (`FewExecutions`) | `TypeOK`, `ExecutionNeedsApproval`, `DecisionsAgree`, `OneOpenApproval`, `OverrunIsBounded`, `ClosedStaysClosed`, and the contract `ImplementsGate` |
| `nightshift` | 1 job, 3 successive processes, 2 approvals, 2 attempts; crashes, lease expiry, mode changes, database errors, the owner's commands, reclassification after the job was enqueued and before a process starts (`EarlyReleases`) | `DraftsAreEarned`, `NoWorkAfterTheEnd`, `OrphansAreRecovered` |
| `nightshift_pair` | 1 job, 2 processes at once, 2 approvals, 2 attempts, the mode stays night, no crash; calm: leases hold and no transaction fails; rough: leases run out, database errors, reclassification before they start | calm: `CalmWorkersKeepApart` (`OneWorkerPerJob`), `CalmJobsSettle` (`JobsSettle`); both: `TerminalStays` |
| `dispatch_users` | actions: 1 action, 2 drafts, 1 approval, 3 callers, crashes; assignments: 2 assignments, 2 requesters, 2 approvals, 2 callers, 2 attempts (3 in the code), crashes, one dispatch at a time (`OneDispatch`) | `OutcomeIsTrue`, `ReadyIsLatest`, the contract `ImplementsGate`; `ProgressIsBacked`, `WorkIsDoneOnce` |
| `office` | executions: 1 row, 2 processes, failing transactions; gateway: 3 routes, 2 of 3 live calls, threshold 2, 2 requests; schedule: a day of 6 minutes, ticks every 2, a window around midnight and one within the day, 2 processes; workspace action: 1 action, 2 drafts, 2 approvals, 2 callers, drafts superseded when ready; dispatch: 1 key, 2 approvals, 2 callers | `RunsOnceApproved`, `LogIsTrue`, `RunningEnds`; `TriesAreJustified`, `FailingRoutesAreSpared`; `ScheduleIsFollowed`; `SupersededNeverWritten`, `ClaimedIsFinished`; `OneCallInFlight`, `OutcomeIsRecorded`, `EveryRunEnds` |
| `records` | 2 processes; 2 messages or 1 reference and 2 promotions; 3 questions, 2 chats, 2 users; 2 work items, 3 decisions, 1 link; 2 accounts; 1 version, review job and gap, maps of at most 3 paragraphs, 2 research tasks; 2 tasks with up to 197 others, sessions of 2 seconds that say something is next or nothing; a limit of 2 of 3 entries, 2 page tokens, 3 downloads; 2 dispatches | `PromotedOnce`; `ChoicesAreMeant`; `ChainsAreSound`; `TokenIsTheOwners`; `MapsAreWhole`; `ProgressIsHonest`; `ReadsAreHonest`; `WordsDecide`; `PollingIsWhole`; `StatusesMoveLegally` |

What the new components' properties say:

- `PromotedOnce`: a message has one row, a confirmed row names a record that exists,
  and only the promotion that made it was told of success.
- `ChoicesAreMeant`: a reply resolves only a question that is open, to one of its
  choices, and a high-risk choice never by a contextual word.
- `ChainsAreSound`: open work is never all blocked; decisions and their successors
  name each other.
- `StatusesMoveLegally`: statuses of the Control Tower and of the dissertation move
  along their tables however long ago they were read.
- `TokenIsTheOwners`: see `TokenStore` above.
- `MapsAreWhole`: a paragraph map has no holes and is the work of one caller.
- `ProgressIsHonest`: exactly the done tasks have a completion; what is recommended is
  what the latest session left to do, or else the first task under way, or else the first
  to do, and nothing only if there is none of these; 0 % and 100 % mean nothing and
  everything (up to 199 tasks: of 200 with 199 done the code shows 100).
- `ReadsAreHonest`: whatever Google answers, a read ends, keeps its limit, and says that
  more is left exactly when the last page it asked for came with a token; the calendar
  and Gmail return every entry their pages showed, and so does Drive until it is full; a
  downloaded file is whole.
- `WordsDecide`: what one more word may change of a plan.
- `PollingIsWhole`: who polls finds every column, and every dispatch ever recorded.

Three runs have a constraint. `OneDispatch`: dispatches of different
assignments share no row, so one of them is followed at a time; the second
assignment is there to replace the first. `FewExecutions`: once `synchronize_status` has freed a
row under a live caller, two callers can go on freeing it for each other for
ever, and every round executes the agent once more. `EarlyReleases`: with releases
between any two of the three lives the run would be several times as large; what they
reach, a job of another class than it was enqueued with, is reached by those before the
first.

`OneCallInFlight` and `OutcomeIsRecorded` hold of the status changes the services
make themselves (`Syncs = 0`). `synchronize_status`, which nothing in the
application calls, can free a row under a live caller. Four properties are stated no
stronger than the code is:

- `OutcomeIsTrue` says nothing of documents that a failed action may have left; run
  `workspace_error` shows one.
- `LogIsTrue` allows that a start notes an execution as failed which another process
  completed between the start's SELECT and its UPDATE (`execution/repository.py:306`,
  `:311`): the log then tells two endings. What those who finish or cancel an execution
  note is single and true, and a start never notes one that is not over.
- `EveryRunEnds` excepts dispatches of an agent without a registered adapter, one of
  which the run has: `get_adapter` raises after the claim and outside of the `try` block
  (`dispatch/service.py:157`), and nothing takes the row up again.
- `WorkIsDoneOnce` counts one call of the agent, and one more for every retry that was
  claimed. It does say that a retry which loses its claim to another calls nobody, and
  that work which succeeded has nobody on the way to its agent.

Two attempts instead of three are enough for `dispatch_users`: a first call, and a
retry that crosses another one which read the same row.

The small numbers of `office` keep what matters: a chain longer than the limit on
live calls, a threshold above one, windows that wrap and do not, and a tick that
meets every second minute only, as the real one meets every fifth. In `records`
three questions are the fewest of which one supersedes another while a third is of
another chat; two work items and two processes give a stale read; a limit of two of
three entries cuts a page in the middle; 197 others take the percentage to its edges.

### Where the code and its documents disagree

Each of these runs checks one sentence of a document, comment or test, and TLC
finds a behaviour of the model of the code that breaks it; `findings` in
`PROJECT.json` quotes the sentence.

| Run | Disagreement |
|---|---|
| `dispatch_expiry` | a late approval raises and so rolls back the expiry it wrote |
| `workspace_error` | a server error or an answer without a document id is recorded as `failed`, although the document may exist |
| `office_quiet` | `set_mode` compares the mode outside of the transaction that writes it, so that a tick overwrites the quiet or maintenance set in between |
| `nightshift_discard` | succeeded work is taken up again by the claim loop, refused as a duplicate, and its job fails |
| `office_brief` | a brief is made only by a tick within its minute, so that a process whose timer never meets it makes none |
| `records_knowledge` | the rebuild of the knowledge tables commits each statement; a process that dies in the middle leaves a start that creates empty tables and polls without the rows |

The models show more behaviour of this kind, which the runs above do not single
out: concurrent retries run more attempts than `max_attempts`
(`dispatch/service.py:204`); a retry that is cancelled before it is numbered calls the agent and leaves no
attempt row (`dispatch/service.py:211`); a retry of gated work runs under the old
approval (`:206`); a run that crashed is out of reach of `retry_dispatch` (`:202`);
work of an agent whose adapter is not registered is left running (`:157`); an
execution completed while another process starts is noted as failed as well
(`execution/service.py:75`); a job
left `validating` by a dead process is never looked at again
(`telegram_bot.py:1503`); an approval that no workspace action is bound to yet is
dispatched generically (`telegram_bot.py:1343`); work that started and was recorded
is not linked to its assignment when that is cancelled or reassigned meanwhile
(`agent_assignment/service.py:150`), and `/retrydispatch` runs the agent of an assignment
that has been completed, cancelled or reassigned since (`dispatch/service.py:200`); an execution queued by a process that dies is
never dispatched (`execution/service.py:146`); an override that sets the very mode
a tick had read is overwritten (`nightshift/service.py:186`), as is any mode set
between the two steps of `wake_now` (`:70`); after the reset timeout every waiting
request probes a failing provider, not one (`providers/service.py:54`); and a late cancellation of a
workspace action overwrites an execution in progress
(`workspace_actions/service.py:182`).

So do the models of the records:

- "No record was created" (`intake/service.py:181`) is false when the audit entry
  fails after the record was made, and a text too long for a knowledge item leaves
  its source behind. Two confirmations at once, or a death before `resolve`, create
  the record twice; one of them is named by no row.
- A reply in one chat resolves the question the same user was asked in another
  (`docs/SPRINT_8G.md` says so); a choice labelled with a number shadows the choice
  of that index.
- A token refresh that overlaps a disconnection brings the token back
  (`google_workspace/auth.py:307`), and an authenticator goes on recording under the
  account it remembers when another one has reconnected.
- A paragraph map whose build failed can never be completed with the right count,
  and a call with the partial count is told that it is whole
  (`dissertation/service.py:104`). A research task whose link fails stays in the
  Control Tower.
- `update_task_status` reads and then updates without a condition: two processes may
  both be told of success. A task titled with digits is reached by its id alone.
- Drive asks for whole pages: when the limit is reached in the middle of one, the rest
  of it is dropped and the next token is past it; if it was the last page there is no
  token, and the result looks complete (`google_workspace/drive/service.py`). A calendar result is lost if its
  audit record fails. A process that dies while it downloads leaves a temporary file.
- A technical word in a request to Google Workspace takes its approval away, and one
  that asks for an explanation can bring it back (`router/classifier.py`).
- A `dispatches` table left renamed makes every start fail, and launchd start again.

`enqueue_night_job`, `expire_or_close`, `ask` of the conversation, `dismiss` and
`propose_*`, `transition_work_item`, the approval links and `reconnect` are public
operations that no command of the bot calls yet; they are modelled as what they
are.

### Fairness

- `MCOffice!Fairness` for `Dispatch` and `WorkspaceAction`: weak fairness of each
  caller's next step. A Python call that was entered runs on; it waits for SQLite's
  write lock, for an adapter, which has a time budget, or for Google, which has a
  timeout. No command, approval or decision of the owner is fair.
- `NightShift!FairSpec`: weak fairness of each process's tick and body (the job
  queue calls the tick every 300 s), of the launch of a process (the service
  manager), and of the two clocks (a lease runs out, a backoff passes).
  `OrphansAreRecovered` assumes that some process lives on (`SomebodyLives`).
- `MCOffice!Fairness` for `Execution`: processes are started, and a method that was entered goes on.
  `RunningEnds` assumes that starts recur: reconciliation happens only there. Strong
  fairness of `Sweep` says that not every start dies in the few instructions between its
  SELECT and its UPDATE; the start and the sweep being two steps, a process that dies
  there each time would satisfy weak fairness and reconcile nothing for ever.
- `MCNightShiftPair!Fairness` is that of `FairSpec`, in the calm setting only and without
  the clock of leases; the rough setting has a safety property.
- `MCOffice!Fairness` for `NightSchedule`: time passes, timers fire, processes are started. Its
  properties assume that from some time on no process dies and the owner neither
  overrides nor reconfigures (`Steady`). The gateway has no liveness property.
- The properties of `MCRecords` are all safety: no code waits for these steps.

## 4. What is proved

`DispatchProofs` proves, for any sets of keys, approvals, callers and requests
that satisfy `DispatchAssumption` (two values that are no key and no request,
Boolean flags, `max_attempts` in 1..10), with crashes and `synchronize_status`
included:

- `Typing`: `Spec => []TypeOK`. `TypeOK` is not inductive: that a caller writes a
  legal status depends on what its locals hold at each step, and that a decision
  moves an existing row depends on the foreign key of the approval. `TypeInv`
  adds both (`CallOK`, `ApprovalsOK`) and has one lemma per part.
- `GatedExecution`: `Spec => []ExecutionNeedsApproval`. The strengthening
  `GateInv` says that a gated row past awaiting_approval, and a caller past its
  read of one, has a granted approval. It needs that approved approvals stay
  approved (`ClearedStays`) and that only `Approve` leaves awaiting_approval
  towards work (`StatusStep`).
- `ClosedIsFinal`: `Spec => ClosedStaysClosed`, from the legality of every status
  move (`StatusMoves`).
- `DecisionsAreConsistent` and `OpenApprovalsAreUnique`, from one inductive
  invariant `DecisionInv` over the two tables.

`DispatchProofs` also proves, from the same assumptions:

- `GateIsImplemented`: `Spec => ImplementsGate`, the initial state and every step
  mapped to a step of `ApprovalGate` or a stutter. It needs `GateInv` and
  `DecisionInv`, and that a caller past its claim holds a row that has left the
  states before work for good (`StartedInv`).
- `OverrunStaysBounded`: `Spec => []OverrunIsBounded`, for finitely many callers: the
  attempts beyond the limit are at most the callers whose stale read let them in.
- `CallsAreExclusive` and `OutcomesAreRecorded`: `OneCallInFlight` and
  `OutcomeIsRecorded` for `Syncs = 0`. Exclusivity rests on the compare-and-swap: who
  is past `Claim` holds a busy row and no other is there.

`ExecutionProofs` proves, for any executions and processes and without any
assumption on the constants:

- `ExecutionTyping` and `AtMostOneApprovedRun` (`Spec => []RunsOnceApproved`). The
  property alone is not inductive: that a second run is impossible depends on who
  stands where. `Inv` says that a process past the swap queued -> running and before
  the adapter holds its row alone (`HolderOK`), that a row not yet claimed was never
  run and is held by nobody (`UnclaimedOK`), and that gated work which is queued,
  running or held has its approval (`ReleaseOK`). Steps are proved in two groups: those
  that change no row (`QuietStep`) and those that move a row on without claiming it
  (`RowStep`); the reconciliation, the swap and the entry into the adapter have lemmas
  of their own.
- `AuditLogIsTrue`: `Spec => []LogIsTrue`. Two entries are written after the swap that
  earned them, in other transactions, so `LogInv` says of every process that is about
  to write one that it is still owed, and owed to it alone: the row is over and no
  ending is in the log, or was approved and no approval is. What a start has found
  running stays running or is over, so that its entry, which it writes after its sweep,
  is never of a row that is not.

`ProviderGatewayProofs` proves, for any routes, requests and limits that are a
configuration (`Configured`: chains without repetition, as `_validate_config` requires
of the combos), `GatewayTyping`, `FallbackIsJustified` (`TriesAreJustified`, which
an invariant on each request's tries makes inductive; the lemmas count live calls as
tries are added) and `OpenCircuitsAreSpared` (`FailingRoutesAreSpared`, whatever late
answers do to the circuits between a request's steps).

`WorkspaceActionProofs` proves, for any actions, drafts, approvals and callers:

- `Typing`, and `DispatchesAreDispatch`: the dispatch and approval tables change by
  steps of `Dispatch` only. `DispatchKeepsItsPromises` draws from it that here, too,
  calls exclude each other, a gated dispatch runs only on an approval and shows the
  outcome of its last attempt; the same two theorems stand in `AssignmentProofs` and
  `NightShiftProofs`.
- `LatestOnly`: `Spec => []ReadyIsLatest`, by an invariant on the chain of revisions
  (`DraftInv`) in which a caller that has read a draft may be late.
- `OutcomesAreTrue`: `Spec => []OutcomeIsTrue`, whatever `create_private_document` reports
  of what Google did. `RowInv`
  relates an action's status to its approval, `WriteInv` the calls of Google to the
  status and to who is in the middle of one: at most one caller, only while the row
  is executing.
- `GateIsImplemented`: `Spec => ImplementsGate`. `LinkInv` says
  that the approval an action names is its own dispatch's.
- `SupersededIsNeverWritten`: once the draft of an open action is superseded, the action
  is never written (a box inside a box). A superseded draft stays superseded, and its
  action doomed (`Doomed`, `DoomedStays`): unwritten, with no caller past its claim.
  A claim needs a draft that is current in the same transaction, and `AdoptedInv` says
  that the drafts of actions were once ready, so that none comes back.

`AssignmentProofs` proves, for any assignments, actors, approvals and callers,
`Typing`, the two theorems on its dispatches, `ProgressHasWork` (`Spec =>
[]ProgressIsBacked`) and `WorkHappensOnce` (`Spec => []WorkIsDoneOnce`). `CallInv`
says that a call of `dispatch()` or `retry_dispatch()` belongs to the method its caller is
in (`Fits`), and what entitles it to the agent (`Entitled`): it starts a row that never
ran, or a retry of its own was counted and not yet used. It rests on the claim being a
compare-and-swap, so that only one caller is past it (`FlightInv` of `DispatchProofs`),
and `DoneInv`, proved there, says that nobody is past it for a row that succeeded.
`max_attempts` does not matter: it is any of 1..10. `ProgressInv` says what a
caller knows at each step of a start, that a linked row has its dispatch, and that a
dispatch exists for accepted assignments only; `ReplaceInv` that exactly the
reassigned rows have a replacement, one each.

`NightShiftProofs` proves, for any jobs and workers and any number of processes:

- `TheEndIsFinal`: `Spec => TerminalStays`, with expiring leases, crashes, database
  errors, commands and reclassification. What a worker is about to write is an edge
  of `JOB_TRANSITIONS` from what it read (`LocalsOK`), no edge leaves a terminal
  status, and the write is a compare-and-swap. Only a loose typing is needed.
- `NoDuplicatePickup`: `Spec => []OneWorkerPerJob`, assuming that leases outlast the
  work and releases keep the classification. The property is not inductive, since
  leases are given back without looking at the holder: `PairInv` says that a worker in
  the claim loop holds its job's lease unless the job is over (`Held`), that there is
  nothing to recover (`Calm`), and that the owner's command gives a lease back only
  after it ended the job (`Commands`).
- `QueueTyping`: `Spec => []TypeOK`, for the queue and the dispatches under it. Three
  parts of it take an argument. That attempts are bounded: a recovery and a claim loop
  may both retry a job, so the bound is not `MaxAttempts` but `Most`, one more for every
  other process; `CountInv` counts the workers that may still retry a job (`Retriers`).
  What a worker is doing for which purpose: `PathInv`. And that a link, a key or a row
  read earlier names an attempt of its own job: `KeysInv`. `SameNext` shows that a step
  of the queue is, for the dispatches, a step of `Dispatch` with the attempts as keys, so
  that the theorems of `DispatchProofs` hold of them (`DispatchStep`).
- `DraftsStayEarned`: `Spec => []DraftsAreEarned`. `EarnedInv` says it of the rows and
  of the workers that are about to present one (`Presents`): a worker decides on what it
  read and writes later, when its lease may have run out, but a dispatch that succeeded
  stays so (`SuccessStays`) and a question asked stays asked.
- `TheEndIsTheEnd`: `Spec => NoWorkAfterTheEnd` for `Processes = 1`, what the singleton
  lock allows, with everything else of the environment switched on and any number of
  processes one after the other. `CallsInv`, which holds of any number of processes, says
  that a worker is inside a call of the dispatch service exactly where its tick makes
  one, and for the key it works with, so that an agent runs and a dispatch succeeds only there (`WorkHasItsWorker`).
  `AloneInv` says that a success is the one of the attempt its row links and counts
  (`LastOne`), and what the worker knows at each step (`Knows`): before the agent, that
  the row is still `preparing`, linked and counted as its key says; before a retry, that
  no dispatch of the job succeeded (`NoSuccess`); before a failure is recorded, that or
  an unchanged count. It learns it from `Judge`, `Inspect` or an unlinked row, and keeps
  it because nobody else is inside `dispatch()` (`NobodyElse`).

  The last three, and `DispatchKeepsItsPromises`, assume that `NoKey` is no job and no attempt, and `NoRequest` no request
  of a worker: the code has `NULL` there.

`RecordsProofs` proves every property that run `records` checks, for any number of
processes and rows. It assumes that `None` is no decision and no process, that
promotions are counted and that paragraph counts are at least 1 (`RecordsAssumption`);
that a menu is not empty and its numbers are no contextual words
(`ConversationAssumption`: the code refuses an empty menu and compares numbers with
words); that tasks, priorities and counts are numbers and the tasks finitely many
(`MemoryAssumption`); and that there are finitely many page tokens and a limit of at
least 1 (`ReadsAssumption`: Google could hand out new tokens for ever, and then only the
limit ends a read).

- `RowsArePromotedOnce`: `Spec => []PromotedOnce`. `HandlersKnow` adds that a handler's
  promotion is its own and that, once it is past making the record, the record is
  there; then the compare-and-swap on `pending` lets one of them write its name.
- `TokenFollowsTheOwner`: `Spec => []TokenIsTheOwners`, inductive with the types.
- `ChainsStaySound`: `Spec => []ChainsAreSound`. Dependencies are given when an item is
  captured and only on items that exist, so that of any set of open items one depends
  on none of the others (`Earlier`); `ChainInv` keeps the successors of decisions apart.
- `StatusesStayLegal`: `Spec => StatusesMoveLegally`: a process may have read a status
  long ago, but what it writes is an edge from there and the write is a
  compare-and-swap.
- `MapsStayWhole`: `Spec => []MapsAreWhole`. Several callers may begin a map; `MapInv`
  says that at most one of them is past the first paragraph and that the map ends
  where he is.
- `PollingFindsAll`: `Spec => []PollingIsWhole`, where the run has two processes and
  this has any number. `StartInv` says what the tables have that a host has passed.
  Nothing forbids two rebuilds of the knowledge tables; `OneRebuild` shows that only
  the process that renamed the items gets on until it drops them, and only the one that
  renamed the sources until it is done, because the names of the copies are taken.

- `ChoicesStayMeant`: `Spec => []ChoicesAreMeant`. `TalkInv` says that questions are
  asked in order, that a menu in a row was valid when it was offered (`RowOK`) and that
  an open question is the last of its chat (`LastOfItsChat`); `Selected` takes the
  first match, and uniqueness of the numbers makes it the one meant.
- `ProgressStaysHonest`: `Spec => []ProgressIsHonest`, the recommendation by cases of its
  three sources. `PercentageIsHonest` does the
  arithmetic of Python's rounding to even for any two counts up to 199 in all;
  `FirstTask` that every non-empty set of tasks has a first one.
- `ReadsStayHonest`: `Spec => []ReadsAreHonest`. `TakeIsBounded` and `TakeIsAll` say what
  one page adds, for any page whatever: no more than there is room for, and all of it
  unless it is full. A token is asked with once, so the tokens bound the calls.
- `WordsAreHeard`: `Spec => []WordsDecide`, by cases of the rules (`FirstRule`,
  `TheRoute`), for all messages at once.

`OfficeProofs` proves every safety property of `MCOffice`, the composition that run
`office` checks: `RunsAreApproved`, `AuditLogIsTrue`, `FallbackIsJustified`,
`OpenCircuitsAreSpared`, `CallsAreExclusive`, `OutcomesAreRecorded`
and `SupersededIsNeverWritten`, for any executions, routes, schedules, dispatches,
actions and callers that satisfy `OfficeAssumption`. Each behaviour follows one
component, so a step of `MCOffice` is a step of it or leaves its variables alone, and the
theorems of the component modules apply to the instances.

Model-checked only: liveness and everything with ENABLED (`RunningEnds`,
`ScheduleIsFollowed`, `ClaimedIsFinished`, `EveryRunEnds`, `CalmJobsSettle`,
`OrphansAreRecovered`), which is out of the prover's reach.

## 5. What is left

The components that keep state are modelled. What could follow, in this order:

1. `NightShift` lets a database error fall into two places of a tick only
   (`DatabaseFails`), where the code leaves something behind; it could fall anywhere.
2. `/approve` of a workspace action reads the approval before its transaction; the two
   are one action (`ApproveCommand`), and so are the missing columns of one store
   (`AddColumns`), each of which the code checks again at every start.
3. The parts of the Google services that are single calls, if they begin to keep
   state.

## 6. Not modelled

- The Telegram handlers' parsing, authorisation by user id and formatting. Python's
  Telegram library hands updates over one at a time; the commands are actions of the
  modules.
- Brief, dashboard and workspace intelligence: read-only compositions of what the
  other components keep.
- Night Shift notifications and policy: rows written beside the steps and read back
  for display; the classification that decides anything is `kind` in `NightShift`.
- Chapters, sources, evidence and notes of the dissertation; projects, notes and
  decisions of the workspace memory; knowledge queries: insertions of single rows
  nothing decides on, and selections.
- Free/busy, conflicts and meeting briefs of the calendar, Sheets and Slides: one call
  of Google each, no state.
- Configuration beyond what makes a start refuse or leave a service out;
  sensitive-content patterns; the text that language models produce; audit rows
  wherever no code reads them back.

`PROJECT.json` gives the status of each component.
