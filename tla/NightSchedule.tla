-------------------------- MODULE NightSchedule --------------------------
(***************************************************************************)
(* Runtime mode, night-shift window and morning brief: the scheduler part  *)
(* of the tick, the owner's mode changes and the configuration             *)
(* (NightShiftService.tick over NightShiftRepository, called by            *)
(* _nightshift_tick every Period minutes).                                 *)
(*                                                                         *)
(* A tick takes no time worth counting, so the clock stands still while    *)
(* one is under way; the ticks and commands of two processes interleave. A *)
(* tick whose transaction fails is left out: the next one does its work.   *)
(***************************************************************************)
EXTENDS Naturals

CONSTANTS
    Process,
    Day,         \* minutes of a day
    Period,      \* minutes between two ticks of a process
    Schedules    \* the configurations the owner may choose

VARIABLES
    clock,       \* minute of the local day
    schedule,    \* the row of night_shift_configuration
    mode, manual,   \* the row of runtime_mode_state
    briefed,     \* has today's row of morning_briefs been written?
    tick         \* Process -> its timer, and the locals of its tick

vars == <<clock, schedule, mode, manual, briefed, tick>>

-----------------------------------------------------------------------------
Mode   == {"active", "night_shift", "quiet", "maintenance"}
Minute == 0..(Day - 1)

(* A window that does not wrap around midnight.                            *)
InPlainWindow(t, s) == s.start <= t /\ t < s.end

(* is_night_shift_window.                                                  *)
InWindow(t, s) == IF s.start < s.end THEN s.start <= t /\ t < s.end
                                     ELSE t >= s.start \/ t < s.end

Place == {"down", "waiting", "swapping", "writing", "briefing", "waking"}

(* since: minutes since the last tick; seen, target: what the tick read    *)
(* and what it will write; due: was it the minute of the brief?            *)
Down    == [place |-> "down", since |-> 0, seen |-> "active", target |-> "active", due |-> FALSE]
Waiting == [Down EXCEPT !.place = "waiting"]

Locals == [place : Place, since : 0..Period, seen : Mode, target : Mode, due : BOOLEAN]

Goto(p, new) == tick' = [tick EXCEPT ![p] = new]

SetMode(new, byOwner) == mode' = new /\ manual' = byOwner

-----------------------------------------------------------------------------
(* initialize found no rows; the owner has chosen a schedule.              *)
Init ==
    /\ clock \in Minute
    /\ schedule \in Schedules
    /\ mode = "active" /\ manual = FALSE
    /\ briefed = FALSE
    /\ tick = [p \in Process |-> Down]

(* A process starts, its first tick being due at once, and dies.           *)
Start(p) ==
    /\ tick[p].place = "down"
    /\ Goto(p, [Waiting EXCEPT !.since = Period])
    /\ UNCHANGED <<clock, schedule, mode, manual, briefed>>

Die(p) ==
    /\ tick[p].place # "down"
    /\ Goto(p, Down)
    /\ UNCHANGED <<clock, schedule, mode, manual, briefed>>

(* A minute passes, when no timer is due and nothing is under way.         *)
Pass ==
    /\ \A p \in Process : \/ tick[p].place = "down"
                          \/ tick[p].place = "waiting" /\ tick[p].since < Period
    /\ clock' = (clock + 1) % Day
    /\ briefed' = (briefed /\ clock' # 0)
    /\ tick' = [p \in Process |-> IF tick[p].place = "down" THEN tick[p]
                                  ELSE [tick[p] EXCEPT !.since = @ + 1]]
    /\ UNCHANGED <<schedule, mode, manual>>

(* tick: its reads. An override is left alone.                             *)
BeginTick(p) ==
    LET target == IF InWindow(clock, schedule) THEN "night_shift" ELSE "active"
    IN  /\ tick[p].place = "waiting" /\ tick[p].since = Period
        /\ Goto(p, [Waiting EXCEPT
               !.place = IF ~manual /\ mode # target THEN "swapping" ELSE "briefing",
               !.seen = mode, !.target = target, !.due = (clock = schedule.brief)])
        /\ UNCHANGED <<clock, schedule, mode, manual, briefed>>

(* set_mode with expected_mode: the SELECT, outside of any transaction,    *)
(* compares the mode,                                                      *)
CompareMode(p) ==
    /\ tick[p].place = "swapping"
    /\ Goto(p, [tick[p] EXCEPT !.place = IF mode = tick[p].seen THEN "writing" ELSE "briefing"])
    /\ UNCHANGED <<clock, schedule, mode, manual, briefed>>

(* and the upsert sets it, whatever it is by then.                         *)
WriteMode(p) ==
    /\ tick[p].place = "writing"
    /\ SetMode(tick[p].target, FALSE)
    /\ Goto(p, [tick[p] EXCEPT !.place = "briefing"])
    /\ UNCHANGED <<clock, schedule, briefed>>

(* generate_morning_brief, one row a day, if this is the minute for it.    *)
Brief(p) ==
    /\ tick[p].place = "briefing"
    /\ briefed' = (briefed \/ tick[p].due)
    /\ Goto(p, Waiting)
    /\ UNCHANGED <<clock, schedule, mode, manual>>

(* set_runtime_mode, by the owner.                                         *)
Override(p, m) ==
    /\ tick[p].place = "waiting"
    /\ SetMode(m, TRUE)
    /\ UNCHANGED <<clock, schedule, briefed, tick>>

(* wake_now: its check of the mode, and its write.                         *)
OpenWake(p) ==
    /\ tick[p].place = "waiting"
    /\ mode = "night_shift"
    /\ Goto(p, [tick[p] EXCEPT !.place = "waking"])
    /\ UNCHANGED <<clock, schedule, mode, manual, briefed>>

Wake(p) ==
    /\ tick[p].place = "waking"
    /\ SetMode("active", TRUE)
    /\ Goto(p, [tick[p] EXCEPT !.place = "waiting"])
    /\ UNCHANGED <<clock, schedule, briefed>>

(* update_night_schedule.                                                  *)
Configure(p, s) ==
    /\ tick[p].place = "waiting"
    /\ schedule' = s
    /\ UNCHANGED <<clock, mode, manual, briefed, tick>>

Tick(p) == BeginTick(p) \/ CompareMode(p) \/ WriteMode(p) \/ Brief(p)

Next ==
    \/ Pass
    \/ \E p \in Process :
          \/ Start(p) \/ Die(p) \/ Tick(p) \/ OpenWake(p) \/ Wake(p)
          \/ \E m \in Mode : Override(p, m)
          \/ \E s \in Schedules : Configure(p, s)

(* The fairness of Pass, Start, Tick and Wake is stated where the module   *)
(* is checked (MCOffice).                                                  *)
Spec == Init /\ [][Next]_vars

-----------------------------------------------------------------------------
(* Every variable has its type.                                            *)
TypeOK ==
    /\ clock \in Minute
    /\ schedule \in [start : Minute, end : Minute, brief : Minute]
    /\ mode \in Mode /\ manual \in BOOLEAN /\ briefed \in BOOLEAN
    /\ tick \in [Process -> Locals]

Steady(s) == <>[](~manual /\ schedule = s /\ \A p \in Process : tick[p].place # "down")

(* Without an override every night becomes night shift and every day       *)
(* becomes active again, windows around midnight included.                 *)
ScheduleIsFollowed ==
    \A s \in Schedules : Steady(s) => []<>(mode = "night_shift") /\ []<>(mode = "active")

-----------------------------------------------------------------------------
(* What the documents say and the code does not do.                        *)

(* SPRINT_5A1 10: exactly one morning brief per calendar day.              *)
BriefComes == \A s \in Schedules : Steady(s) => []<>briefed

(* set_mode: the write is a compare-and-swap; tick: an override that raced *)
(* in between is not clobbered.  So quiet and maintenance are left by the  *)
(* owner only.                                                             *)
QuietIsKept ==
    [][mode' # mode /\ mode \in {"quiet", "maintenance"} => manual']_vars
=============================================================================
