-------------------------- MODULE WorkspaceMemory --------------------------
(***************************************************************************)
(* The tasks of a project, how one is named, their progress, its work      *)
(* sessions and what is recommended next (WorkspaceMemoryService over      *)
(* MemoryRepository). A task is named, read and then written, whatever     *)
(* became of it meanwhile.                                                 *)
(***************************************************************************)
EXTENDS Integers, FiniteSetsExt, TLC

CONSTANTS
    Process,
    Task,          \* their ids, which follow created_at
    Title,         \* titles, some of them the numeral of an id
    Priorities,    \* the rank of a priority, 1 for urgent
    Moments,       \* the seconds a session may start at
    NextActions,   \* what a session may say is next, "" for nothing
    Others         \* how many more tasks of the project may be done, or open

VARIABLES
    tasks,         \* Task -> the row of tasks
    clerk,         \* Process -> the task it read, and the status to write
    latest         \* latest_session: when it started, and what it says is next

memoryVars == <<tasks, clerk, latest>>

-----------------------------------------------------------------------------
Status == {"todo", "doing", "done", "cancelled"}

Idle == [task |-> 0, status |-> "absent"]

With(status) == {t \in Task : tasks[t].status = status}

Numeral == {ToString(n) : n \in Task}

(* resolve_task: an id if it is made of digits, or else a title.           *)
Named(name) == IF name \in Numeral
               THEN {t \in Task \ With("absent") : ToString(t) = name}
               ELSE {t \in Task \ With("absent") : tasks[t].title = name}

(* round() of a/b in Python: to the nearest integer, a half to the even    *)
(* one. (The code rounds a floating-point product, where an exact half may *)
(* fall the other way: 23 of 40 gives 57. Results of 0 and 100, the ones   *)
(* that claim something, are not affected.)                                *)
HalfEven(a, b) == LET halves == (2 * a) \div b
                  IN  IF (2 * a) % b = 0 /\ halves % 4 = 1 THEN halves \div 2
                      ELSE (halves + 1) \div 2

(* completion_percentage: of those not cancelled.                          *)
Percentage(done, open) == IF done + open = 0 THEN 0 ELSE HalfEven(100 * done, done + open)

(* choose_recommended_task: ORDER BY priority, created_at LIMIT 1.         *)
Before(t, u) == \/ tasks[t].priority < tasks[u].priority
                \/ (tasks[t].priority = tasks[u].priority /\ t < u)
First(S)     == CHOOSE t \in S : \A u \in S \ {t} : Before(t, u)

(* continue_context: what the latest session says is next, or else a task  *)
(* under way, or else one to do. (The code reads the three one after the   *)
(* other; what another process writes in between is seen by the later.)    *)
Recommended ==
    IF latest.next # "" THEN [from |-> "session", task |-> 0]
    ELSE IF With("doing") # {} THEN [from |-> "doing", task |-> First(With("doing"))]
    ELSE IF With("todo") # {} THEN [from |-> "todo", task |-> First(With("todo"))]
    ELSE [from |-> "nothing", task |-> 0]

-----------------------------------------------------------------------------
Init ==
    /\ tasks = [t \in Task |-> [status |-> "absent", had |-> FALSE, priority |-> 0, title |-> ""]]
    /\ clerk = [p \in Process |-> Idle]
    /\ latest = [started |-> 0, next |-> ""]

CreateTask(t, title, priority) ==
    /\ With("absent") # {} /\ t = Min(With("absent"))
    /\ tasks' = [tasks EXCEPT ![t] =
                    [status |-> "todo", had |-> FALSE, priority |-> priority, title |-> title]]
    /\ UNCHANGED <<clerk, latest>>

(* update_task_status_for_project up to the SELECT of update_task_status:  *)
(* a name of two tasks is ambiguous, the same status again is refused.     *)
ReadTask(p, name, status) ==
    /\ clerk[p] = Idle
    /\ \E t \in Named(name) :
          /\ Named(name) = {t}
          /\ tasks[t].status # status
          /\ clerk' = [clerk EXCEPT ![p] = [task |-> t, status |-> status]]
    /\ UNCHANGED <<tasks, latest>>

(* An update that leaves completed_at to whoever completed the task.       *)
KeepCompletion(p) ==
    /\ clerk[p] # Idle
    /\ tasks' = [tasks EXCEPT ![clerk[p].task].status = clerk[p].status,
                              ![clerk[p].task].had = @ \/ clerk[p].status = "done"]
    /\ clerk' = [clerk EXCEPT ![p] = Idle]
    /\ UNCHANGED latest

(* Its UPDATE: the status, with or without a completed_at.                 *)
UpdateTask(p) ==
    /\ clerk[p] # Idle
    /\ tasks' = [tasks EXCEPT ![clerk[p].task].status = clerk[p].status,
                              ![clerk[p].task].had = clerk[p].status = "done"]
    /\ clerk' = [clerk EXCEPT ![p] = Idle]
    /\ UNCHANGED latest

(* create_session: the service reads the clock and then inserts the row,   *)
(* so that two may cross. The latest is the one that started last, and of  *)
(* two in one second the one that was inserted last.                       *)
CreateSession(started, next) ==
    /\ latest' = IF started >= latest.started THEN [started |-> started, next |-> next] ELSE latest
    /\ UNCHANGED <<tasks, clerk>>

Next ==
    \/ \E started \in Moments, next \in NextActions : CreateSession(started, next)
    \/ \E t \in Task, title \in Title, priority \in Priorities : CreateTask(t, title, priority)
    \/ \E p \in Process : \/ \E name \in Title \cup {ToString(t) : t \in Task}, status \in Status :
                                ReadTask(p, name, status)
                          \/ UpdateTask(p)

Spec == Init /\ [][Next]_memoryVars

-----------------------------------------------------------------------------
(* Whatever two processes write over each other, exactly the done tasks    *)
(* have a completion. What a session left to do is recommended, whatever   *)
(* became of it, until a later session says something else or nothing;     *)
(* without it a task is, one under way before one to do and none of the    *)
(* same state before it, unless none is left. And the progress says 0 only *)
(* of nothing done and 100 only of everything done, also when Others more  *)
(* tasks are done or open - not of 200 tasks, 199 of them done             *)
(* (MemoryRepository.update_task_status, latest_session,                   *)
(* choose_recommended_task, WorkspaceMemoryService.progress).              *)
ProgressIsHonest ==
    /\ \A t \in Task : tasks[t].had <=> (tasks[t].status = "done")
    /\ Recommended.from = "session" <=> latest.next # ""
    /\ Recommended.from = "nothing" <=> latest.next = "" /\ With("doing") \cup With("todo") = {}
    /\ Recommended.from = "todo" => With("doing") = {}
    /\ Recommended.from \in {"doing", "todo"} =>
          /\ Recommended.task \in With(Recommended.from)
          /\ \A t \in With(Recommended.from) \ {Recommended.task} : ~Before(t, Recommended.task)
    /\ \A more \in Others, left \in Others :
          LET done  == Cardinality(With("done")) + more
              open  == Cardinality(With("todo") \cup With("doing")) + left
              shown == Percentage(done, open)
          IN  done + open <= 199 => /\ (shown = 100) <=> (done > 0 /\ open = 0)
                                    /\ (shown = 0) <=> (done = 0)
=============================================================================
