------------------------- MODULE ExecutionProofs -------------------------
(***************************************************************************)
(* An instruction runs at most once, and gated work only when approved, in *)
(* any number of executions and processes.  The argument: between the swap *)
(* queued -> running and the entry into the adapter one process holds the  *)
(* row; nothing leads back to queued, so nobody else comes to hold it.     *)
(* And the audit log, which is written after the row in a transaction of   *)
(* its own, tells the truth about it: who moved the row owes the entry.    *)
(***************************************************************************)
EXTENDS Execution, TLAPS

(* p is past the swap to running and before the adapter.                   *)
Holds(p, i) ==
    /\ at[p].row = i
    /\ In(p, "calling") \/ (In(p, "noting") /\ at[p].event = "running")

Unclaimed == Waiting \cup {"absent"}

(* What the locals of a process are good for.                              *)
LocalsOK ==
    \A p \in Process :
        /\ at[p].place \notin Starting \cup {"idle"} => at[p].row \in Execution
        /\ In(p, "cancelling") => at[p].seen \in Waiting \cup {"running"}
        /\ In(p, "finishing") => at[p].seen \in Terminal

(* A row that is not claimed yet was not run and is held by nobody.        *)
UnclaimedOK ==
    \A i \in Execution :
        state[i] \in Unclaimed => runs[i] = 0 /\ \A p \in Process : ~Holds(p, i)

(* One holder at most, and none once the adapter was entered.              *)
HolderOK ==
    \A i \in Execution :
        /\ runs[i] <= 1
        /\ \A p \in Process : Holds(p, i) =>
              runs[i] = 0 /\ \A q \in Process : Holds(q, i) => q = p

(* Gated work is released by the approval only.                            *)
ReleaseOK ==
    \A i \in Execution :
        gated[i] => \/ approved[i]
                    \/ /\ state[i] \notin {"queued", "running"}
                       /\ runs[i] = 0
                       /\ \A p \in Process : ~Holds(p, i)

Inv == TypeOK /\ LocalsOK /\ UnclaimedOK /\ HolderOK /\ ReleaseOK

-----------------------------------------------------------------------------
(* Init establishes the invariant.                                         *)
LEMMA InitInv == Init => Inv
BY DEF Init, Inv, TypeOK, LocalsOK, UnclaimedOK, HolderOK, ReleaseOK, Holds, In, Down, Locals,
       State, Waiting, Terminal, Event, Ending, Place, Starting, Unclaimed

(* A process moves on: what its new locals must satisfy, and what follows. *)
Sound(new) ==
    /\ new \in Locals
    /\ new.place \notin Starting \cup {"idle"} => new.row \in Execution
    /\ new.place = "cancelling" => new.seen \in Waiting \cup {"running"}
    /\ new.place = "finishing" => new.seen \in Terminal

Claims(new, i) ==
    /\ new.row = i
    /\ new.place = "calling" \/ (new.place = "noting" /\ new.event = "running")

LEMMA Move ==
    ASSUME at \in [Process -> Locals], LocalsOK, NEW p \in Process, NEW new, Sound(new), Goto(p, new)
    PROVE  /\ at' \in [Process -> Locals]
           /\ LocalsOK'
           /\ \A i \in Execution : Holds(p, i)' <=> Claims(new, i)
           /\ \A q \in Process, i \in Execution : q # p => (Holds(q, i)' <=> Holds(q, i))
<1>1. at' \in [Process -> Locals]
  BY DEF Goto, Sound
<1>2. at'[p] = new /\ \A q \in Process : q # p => at'[q] = at[q]
  BY DEF Goto
<1>3. LocalsOK'
  BY <1>2 DEF LocalsOK, In, Sound
<1>4. \A i \in Execution : Holds(p, i)' <=> Claims(new, i)
  BY <1>2 DEF Holds, In, Claims
<1>5. \A q \in Process, i \in Execution : q # p => (Holds(q, i)' <=> Holds(q, i))
  BY <1>2 DEF Holds, In
<1> QED
  BY <1>1, <1>3, <1>4, <1>5

(* The locals between two methods.                                         *)
LEMMA RestSound ==
    /\ Sound(Idle) /\ Sound(Down)
    /\ \A i \in Execution : ~Claims(Idle, i) /\ ~Claims(Down, i)
BY DEF Sound, Claims, Idle, Down, Locals, Place, Starting, State, Waiting, Terminal, Event, Ending

(* A step that changes no row and by which nobody comes to hold one.       *)
LEMMA QuietStep ==
    ASSUME Inv, NEW p \in Process, NEW new, Sound(new), Goto(p, new),
           UNCHANGED <<state, gated, approved, runs>>, log' \in [Execution -> Seq(Event)],
           \A i \in Execution : Claims(new, i) => Holds(p, i)
    PROVE  Inv'
<1>1. at' \in [Process -> Locals] /\ LocalsOK'
  BY Move DEF Inv, TypeOK
<1>2. \A q \in Process, i \in Execution : Holds(q, i)' => Holds(q, i)
  BY Move DEF Inv, TypeOK
<1>3. TypeOK'
  BY <1>1 DEF Inv, TypeOK
<1>4. UnclaimedOK' /\ HolderOK' /\ ReleaseOK'
  BY <1>2 DEF Inv, UnclaimedOK, HolderOK, ReleaseOK
<1> QED
  BY <1>1, <1>3, <1>4 DEF Inv

(* A row in one of the states seen is moved on by p, and p does not come   *)
(* to hold it; the work is released only if it is approved or not gated.   *)
LEMMA RowStep ==
    ASSUME Inv, NEW p \in Process, NEW i \in Execution, NEW to \in State, NEW new,
           Sound(new), Goto(p, new), \A j \in Execution : ~Claims(new, j),
           state' = [state EXCEPT ![i] = to],
           gated' \in [Execution -> BOOLEAN], approved' \in [Execution -> BOOLEAN],
           \A j \in Execution : j # i => gated'[j] = gated[j] /\ approved'[j] = approved[j],
           to \in Unclaimed => state[i] \in Unclaimed,
           gated'[i] => \/ approved'[i]
                        \/ /\ to \notin {"queued", "running"} /\ runs[i] = 0
                           /\ \A q \in Process : ~Holds(q, i),
           UNCHANGED <<log, runs>>
    PROVE  Inv'
<1>1. at' \in [Process -> Locals] /\ LocalsOK'
  BY Move DEF Inv, TypeOK
<1>2. \A q \in Process, j \in Execution : Holds(q, j)' => Holds(q, j)
  BY Move DEF Inv, TypeOK
<1>3. TypeOK'
  BY <1>1 DEF Inv, TypeOK
<1>4. state'[i] = to /\ \A j \in Execution : j # i => state'[j] = state[j]
  BY DEF Inv, TypeOK
<1>5. UnclaimedOK'
  BY <1>2, <1>4 DEF Inv, UnclaimedOK
<1>6. HolderOK'
  BY <1>2 DEF Inv, HolderOK
<1>7. ReleaseOK'
  BY <1>2, <1>4 DEF Inv, ReleaseOK
<1> QED
  BY <1>1, <1>3, <1>5, <1>6, <1>7 DEF Inv

-----------------------------------------------------------------------------
(* Steps that change no row.                                               *)
LEMMA QuietSteps ==
    ASSUME Inv, NEW p \in Process, NEW i \in Execution,
           \/ OpenApprove(p, i) \/ OpenCancel(p, i) \/ NoteReconciled(p) \/ AddAuditEntry(p)
           \/ Die(p) \/ Raise(p)
    PROVE  Inv'
<1> USE RestSound
<1>0. at[p] \in Locals
  BY DEF Inv, TypeOK
<1>1. CASE OpenApprove(p, i)
  <2> DEFINE new == [Idle EXCEPT !.place = "approving", !.row = i]
  <2>1. Sound(new) /\ \A j \in Execution : ~Claims(new, j)
    BY DEF Sound, Claims, Idle, Down, Locals, Place, Starting, State, Waiting, Terminal, Event, Ending
  <2> QED
    BY <1>1, <2>1, QuietStep DEF OpenApprove, Inv, TypeOK
<1>2. CASE OpenCancel(p, i)
  <2> DEFINE new == [Idle EXCEPT !.place = "cancelling", !.row = i, !.seen = state[i]]
  <2>1. state[i] \in Waiting \cup {"running"}
    BY <1>2 DEF OpenCancel, Inv, TypeOK, State, Waiting, Terminal
  <2>2. Sound(new) /\ \A j \in Execution : ~Claims(new, j)
    BY <2>1 DEF Sound, Claims, Idle, Down, Locals, Place, Starting, State, Waiting, Terminal, Event, Ending
  <2> QED
    BY <1>2, <2>2, QuietStep DEF OpenCancel, Inv, TypeOK
<1>3. CASE NoteReconciled(p)
  <2>1. PICK j \in at[p].left :
           /\ Goto(p, IF at[p].left = {j} THEN Idle ELSE [at[p] EXCEPT !.left = @ \ {j}])
           /\ \/ log' = [log EXCEPT ![j] = Append(@, "reconciled")]
              \/ Errors /\ UNCHANGED log
    BY <1>3 DEF NoteReconciled
  <2>2. j \in Execution /\ "reconciled" \in Event
    BY <1>0 DEF Locals, Event
  <2>3. log' \in [Execution -> Seq(Event)]
    <3>1. log \in [Execution -> Seq(Event)]
      BY DEF Inv, TypeOK
    <3>2. Append(log[j], "reconciled") \in Seq(Event)
      BY <2>2, <3>1
    <3>3. log' = [log EXCEPT ![j] = Append(log[j], "reconciled")] \/ log' = log
      BY <2>1
    <3> QED
      BY <2>2, <3>1, <3>2, <3>3
  <2> DEFINE new == [at[p] EXCEPT !.left = @ \ {j}]
  <2>4. Sound(new) /\ \A k \in Execution : ~Claims(new, k)
    BY <1>0, <1>3 DEF NoteReconciled, In, Starting, Sound, Claims, Locals
  <2>5. UNCHANGED <<state, gated, approved, runs>>
    BY <1>3 DEF NoteReconciled
  <2> HIDE DEF new
  <2>6. CASE Goto(p, Idle)
    BY <2>3, <2>5, <2>6, QuietStep
  <2>7. CASE Goto(p, new)
    BY <2>3, <2>4, <2>5, <2>7, QuietStep
  <2> QED
    BY <2>1, <2>6, <2>7 DEF new
<1>4. CASE AddAuditEntry(p)
  <2>1. /\ UNCHANGED <<state, gated, approved, runs>>
        /\ at[p].row \in Execution
    BY <1>4 DEF AddAuditEntry, In, Starting, Inv, LocalsOK
  <2>2. log' \in [Execution -> Seq(Event)]
    BY <1>0, <1>4, <2>1 DEF AddAuditEntry, Inv, TypeOK, Locals
  <2>3. \/ Goto(p, Idle)
        \/ Goto(p, [at[p] EXCEPT !.place = "dispatching"])
        \/ at[p].event = "running" /\ Goto(p, [at[p] EXCEPT !.place = "calling"])
    BY <1>4 DEF AddAuditEntry
  <2>4. CASE Goto(p, Idle)
    BY <2>1, <2>2, <2>4, QuietStep
  <2>5. CASE Goto(p, [at[p] EXCEPT !.place = "dispatching"])
    <3> DEFINE new == [at[p] EXCEPT !.place = "dispatching"]
    <3>1. Sound(new) /\ \A k \in Execution : ~Claims(new, k)
      BY <1>0, <2>1 DEF Sound, Claims, Locals, Place, Starting
    <3> QED
      BY <2>1, <2>2, <2>5, <3>1, QuietStep
  <2>6. CASE at[p].event = "running" /\ Goto(p, [at[p] EXCEPT !.place = "calling"])
    <3> DEFINE new == [at[p] EXCEPT !.place = "calling"]
    <3>1. Sound(new)
      BY <1>0, <2>1 DEF Sound, Locals, Place, Starting
    <3>2. \A k \in Execution : Claims(new, k) => Holds(p, k)
      BY <1>0, <1>4, <2>6 DEF Claims, Holds, AddAuditEntry, In, Locals
    <3> QED
      BY <2>1, <2>2, <2>6, <3>1, <3>2, QuietStep
  <2> QED
    BY <2>3, <2>4, <2>5, <2>6
<1>5. CASE Die(p)
  BY <1>5, QuietStep DEF Die, Inv, TypeOK
<1>6. CASE Raise(p)
  BY <1>6, QuietStep DEF Raise, Inv, TypeOK
<1> QED
  BY <1>1, <1>2, <1>3, <1>4, <1>5, <1>6

(* The read of a start.                                                    *)
LEMMA StartStep == ASSUME Inv, NEW p \in Process, Start(p) PROVE Inv'
<1> DEFINE orphans == {i \in Execution : state[i] = "running"}
           new == [Down EXCEPT !.place = "sweeping", !.left = orphans]
<1>1. Sound(new) /\ \A i \in Execution : ~Claims(new, i)
  BY DEF Sound, Claims, Down, Locals, Place, Starting, State, Waiting, Terminal, Event, Ending
<1>2. /\ Goto(p, Idle) \/ Goto(p, new)
      /\ UNCHANGED <<state, gated, approved, log, runs>>
  BY DEF Start
<1> HIDE DEF new
<1> QED
  BY <1>1, <1>2, QuietStep, RestSound DEF Inv, TypeOK

-----------------------------------------------------------------------------
(* Steps that move a row on.                                               *)
LEMMA SweepStep == ASSUME Inv, NEW p \in Process, Sweep(p) PROVE Inv'
<1> DEFINE new == [at[p] EXCEPT !.place = "reconciling"]
<1>1. Sound(new) /\ \A i \in Execution : ~Claims(new, i)
  BY DEF Inv, TypeOK, Sound, Claims, Locals, Place, Starting
<1>2. /\ state' = [i \in Execution |-> IF state[i] = "running" THEN "failed" ELSE state[i]]
      /\ Goto(p, new)
      /\ UNCHANGED <<gated, approved, log, runs>>
  BY DEF Sweep
<1> HIDE DEF new
<1>3. /\ at' \in [Process -> Locals] /\ LocalsOK'
      /\ \A q \in Process, i \in Execution : Holds(q, i)' => Holds(q, i)
  BY <1>1, <1>2, Move, RestSound DEF Inv, TypeOK
<1>4. TypeOK'
  BY <1>2, <1>3 DEF Inv, TypeOK, State, Waiting, Terminal
<1>5. UnclaimedOK' /\ HolderOK' /\ ReleaseOK'
  BY <1>2, <1>3 DEF Inv, UnclaimedOK, HolderOK, ReleaseOK, Unclaimed, Waiting
<1> QED
  BY <1>3, <1>4, <1>5 DEF Inv

LEMMA SubmitStep ==
    ASSUME Inv, NEW p \in Process, NEW i \in Execution, NEW risky \in BOOLEAN, Submit(p, i, risky)
    PROVE  Inv'
<1> DEFINE first == IF risky THEN "awaiting_approval" ELSE "queued"
           new == [Idle EXCEPT !.place = "noting", !.row = i, !.seen = first, !.event = "created"]
<1>1. Sound(new) /\ \A j \in Execution : ~Claims(new, j)
  BY DEF Sound, Claims, Idle, Down, Locals, Place, Starting, State, Waiting, Terminal, Event, Ending
<1>2. /\ state[i] = "absent" /\ state' = [state EXCEPT ![i] = first]
      /\ gated' = [gated EXCEPT ![i] = risky]
      /\ Goto(p, new) /\ UNCHANGED <<approved, log, runs>>
  BY DEF Submit
<1>3. first \in State /\ (risky => first \notin {"queued", "running"})
  BY DEF State, Waiting
<1>4. /\ gated' \in [Execution -> BOOLEAN] /\ gated'[i] = risky
      /\ approved' \in [Execution -> BOOLEAN]
      /\ \A j \in Execution : j # i => gated'[j] = gated[j] /\ approved'[j] = approved[j]
  BY <1>2 DEF Inv, TypeOK
<1>5. state[i] \in Unclaimed /\ runs[i] = 0 /\ \A q \in Process : ~Holds(q, i)
  BY <1>2 DEF Inv, UnclaimedOK, Unclaimed
<1> HIDE DEF first, new
<1> QED
  BY <1>1, <1>2, <1>3, <1>4, <1>5, RowStep

LEMMA ApprovalStep == ASSUME Inv, NEW p \in Process, RecordApproval(p) PROVE Inv'
<1> DEFINE i == at[p].row
           new == [at[p] EXCEPT !.place = "noting", !.event = "approved"]
<1>1. at[p] \in Locals /\ i \in Execution
  BY DEF Inv, TypeOK, LocalsOK, RecordApproval, In, Starting
<1>2. Sound(new) /\ \A j \in Execution : ~Claims(new, j)
  BY <1>1 DEF Sound, Claims, Locals, Place, Starting, Event
<1>3. CASE state[i] = "awaiting_approval"
  <2>1. /\ state' = [state EXCEPT ![i] = "queued"] /\ Goto(p, new)
        /\ approved' = [approved EXCEPT ![i] = TRUE] /\ UNCHANGED <<gated, log, runs>>
    BY <1>3 DEF RecordApproval, Swap, Note
  <2>2. /\ gated' \in [Execution -> BOOLEAN] /\ approved' \in [Execution -> BOOLEAN]
        /\ \A j \in Execution : j # i => gated'[j] = gated[j] /\ approved'[j] = approved[j]
        /\ approved'[i]
    BY <1>1, <2>1 DEF Inv, TypeOK
  <2>3. "queued" \in State /\ state[i] \in Unclaimed
    BY <1>3 DEF State, Waiting, Unclaimed
  <2>4. PICK k \in Execution : k = i
    BY <1>1
  <2> HIDE DEF new, i
  <2> QED
    BY <1>2, <2>1, <2>2, <2>3, <2>4, RowStep
<1>4. CASE state[i] # "awaiting_approval"
  <2>1. approved' = approved
    BY <1>1, <1>4 DEF RecordApproval, Inv, TypeOK
  <2> QED
    BY <1>4, <2>1, QuietStep, RestSound DEF RecordApproval, Swap, Inv, TypeOK
<1> QED
  BY <1>3, <1>4

LEMMA CancelStep == ASSUME Inv, NEW p \in Process, Cancel(p) PROVE Inv'
<1>1. PICK i \in Execution : i = at[p].row
  BY DEF Inv, LocalsOK, Cancel, In, Starting
<1> DEFINE new == [at[p] EXCEPT !.place = "noting", !.event = "cancelled"]
<1>2. Sound(new) /\ \A j \in Execution : ~Claims(new, j)
  BY <1>1 DEF Inv, TypeOK, Sound, Claims, Locals, Place, Starting, Event, Ending
<1>3. CASE state[i] = at[p].seen
  <2>1. state' = [state EXCEPT ![i] = "failed"] /\ Goto(p, new) /\ UNCHANGED <<gated, approved, log, runs>>
    BY <1>1, <1>3 DEF Cancel, Swap, Note
  <2>2. "failed" \in State \ (Unclaimed \cup {"queued", "running"})
    BY DEF State, Terminal, Unclaimed, Waiting
  <2>3. gated' \in [Execution -> BOOLEAN] /\ approved' \in [Execution -> BOOLEAN]
    BY <2>1 DEF Inv, TypeOK
  <2>4. gated[i] => approved[i] \/ (runs[i] = 0 /\ \A q \in Process : ~Holds(q, i))
    BY DEF Inv, ReleaseOK
  <2> HIDE DEF new
  <2> QED
    BY <1>2, <2>1, <2>2, <2>3, <2>4, RowStep
<1>4. CASE state[i] # at[p].seen
  BY <1>1, <1>4, QuietStep, RestSound DEF Cancel, Swap, Inv, TypeOK
<1> QED
  BY <1>3, <1>4

LEMMA FinishStep == ASSUME Inv, NEW p \in Process, Finish(p) PROVE Inv'
<1>1. PICK i \in Execution : i = at[p].row
  BY DEF Inv, LocalsOK, Finish, In, Starting
<1>2. at[p] \in Locals /\ at[p].seen \in Terminal
  BY DEF Inv, TypeOK, LocalsOK, Finish, In
<1> DEFINE new == [at[p] EXCEPT !.place = "noting", !.event = at[p].seen]
<1>3. Sound(new) /\ \A j \in Execution : ~Claims(new, j)
  BY <1>1, <1>2 DEF Sound, Claims, Locals, Place, Starting, Event, Ending, Terminal
<1>4. CASE state[i] = "running"
  <2>1. state' = [state EXCEPT ![i] = at[p].seen] /\ Goto(p, new) /\ UNCHANGED <<gated, approved, log, runs>>
    BY <1>1, <1>4 DEF Finish, Swap, Note
  <2>2. at[p].seen \in State \ (Unclaimed \cup {"queued", "running"})
    BY <1>2 DEF State, Terminal, Unclaimed, Waiting
  <2>3. gated' \in [Execution -> BOOLEAN] /\ approved' \in [Execution -> BOOLEAN]
    BY <2>1 DEF Inv, TypeOK
  <2>4. gated[i] => approved[i]
    BY <1>4 DEF Inv, ReleaseOK
  <2>5. PICK to \in State : to = at[p].seen
    BY <2>2
  <2> HIDE DEF new
  <2> QED
    BY <1>3, <2>1, <2>2, <2>3, <2>4, <2>5, RowStep
<1>5. CASE state[i] # "running"
  BY <1>1, <1>5, QuietStep, RestSound DEF Finish, Swap, Inv, TypeOK
<1> QED
  BY <1>4, <1>5

-----------------------------------------------------------------------------
(* The swap by which p comes to hold a row; the entry into the adapter.    *)
LEMMA DispatchStep == ASSUME Inv, NEW p \in Process, Dispatch(p) PROVE Inv'
<1>1. PICK i \in Execution : i = at[p].row
  BY DEF Inv, LocalsOK, Dispatch, In, Starting
<1> DEFINE new == [at[p] EXCEPT !.place = "noting", !.event = "running"]
<1>2. Sound(new) /\ \A j \in Execution : Claims(new, j) => j = i
  BY <1>1 DEF Inv, TypeOK, Sound, Claims, Locals, Place, Starting, Event
<1>3. CASE state[i] = "queued"
  <2>1. state' = [state EXCEPT ![i] = "running"] /\ Goto(p, new) /\ UNCHANGED <<gated, approved, log, runs>>
    BY <1>1, <1>3 DEF Dispatch, Swap, Note
  <2> HIDE DEF new
  <2>2. /\ at' \in [Process -> Locals] /\ LocalsOK'
        /\ \A j \in Execution : Holds(p, j)' <=> Claims(new, j)
        /\ \A q \in Process, j \in Execution : q # p => (Holds(q, j)' <=> Holds(q, j))
    BY <1>2, <2>1, Move DEF Inv, TypeOK
  <2>3. TypeOK'
    BY <2>1, <2>2 DEF Inv, TypeOK, State
  <2>4. state'[i] = "running" /\ \A j \in Execution : j # i => state'[j] = state[j]
    BY <2>1 DEF Inv, TypeOK
  <2>5. runs[i] = 0 /\ \A q \in Process : ~Holds(q, i)
    BY <1>3 DEF Inv, UnclaimedOK, Unclaimed, Waiting
  <2>6. gated[i] => approved[i]
    BY <1>3 DEF Inv, ReleaseOK
  <2>7. UnclaimedOK'
    BY <1>2, <2>1, <2>2, <2>4 DEF Inv, UnclaimedOK, Unclaimed, Waiting
  <2>8. HolderOK'
    BY <1>2, <2>1, <2>2, <2>5 DEF Inv, HolderOK
  <2>9. ReleaseOK'
    BY <1>2, <2>1, <2>2, <2>4, <2>6 DEF Inv, ReleaseOK
  <2> QED
    BY <2>2, <2>3, <2>7, <2>8, <2>9 DEF Inv
<1>4. CASE state[i] # "queued"
  BY <1>1, <1>4, QuietStep, RestSound DEF Dispatch, Swap, Inv, TypeOK
<1> QED
  BY <1>3, <1>4

LEMMA AdapterStep == ASSUME Inv, NEW p \in Process, RunAdapter(p) PROVE Inv'
<1>1. PICK i \in Execution : i = at[p].row
  BY DEF Inv, LocalsOK, RunAdapter, In, Starting
<1>2. PICK outcome \in Terminal : Goto(p, [at[p] EXCEPT !.place = "finishing", !.seen = outcome])
  BY DEF RunAdapter
<1> DEFINE new == [at[p] EXCEPT !.place = "finishing", !.seen = outcome]
<1>3. Sound(new) /\ \A j \in Execution : ~Claims(new, j)
  BY <1>1, <1>2 DEF Inv, TypeOK, Sound, Claims, Locals, Place, Starting, State
<1>4. Goto(p, new) /\ runs' = [runs EXCEPT ![i] = @ + 1] /\ UNCHANGED <<state, gated, approved, log>>
  BY <1>1, <1>2 DEF RunAdapter
<1> HIDE DEF new
<1>5. /\ at' \in [Process -> Locals] /\ LocalsOK'
      /\ \A q \in Process, j \in Execution : Holds(q, j)' => q # p /\ Holds(q, j)
  BY <1>3, <1>4, Move DEF Inv, TypeOK
<1>6. Holds(p, i)
  BY <1>1 DEF Holds, RunAdapter
<1>7. /\ runs[i] = 0 /\ (\A q \in Process : Holds(q, i) => q = p)
      /\ state[i] \notin Unclaimed /\ (gated[i] => approved[i])
  BY <1>6 DEF Inv, HolderOK, UnclaimedOK, ReleaseOK
<1>8. runs'[i] = 1 /\ \A j \in Execution : j # i => runs'[j] = runs[j]
  BY <1>4, <1>7 DEF Inv, TypeOK
<1>9. TypeOK'
  BY <1>4, <1>5 DEF Inv, TypeOK
<1>10. UnclaimedOK'
  BY <1>4, <1>5, <1>7, <1>8 DEF Inv, UnclaimedOK
<1>11. HolderOK'
  BY <1>4, <1>5, <1>7, <1>8 DEF Inv, HolderOK
<1>12. ReleaseOK'
  BY <1>4, <1>5, <1>7, <1>8 DEF Inv, ReleaseOK
<1> QED
  BY <1>5, <1>9, <1>10, <1>11, <1>12 DEF Inv

-----------------------------------------------------------------------------
(* The invariant is inductive.                                             *)
LEMMA NextInv == Inv /\ [Next]_vars => Inv'
<1> SUFFICES ASSUME Inv, [Next]_vars PROVE Inv'
  OBVIOUS
<1>1. CASE UNCHANGED vars
  BY <1>1 DEF vars, Inv, TypeOK, LocalsOK, UnclaimedOK, HolderOK, ReleaseOK, Holds, In
<1>2. ASSUME NEW p \in Process, Start(p) PROVE Inv'
  BY <1>2, StartStep
<1>3. ASSUME NEW p \in Process, Step(p) PROVE Inv'
  <2>1. CASE NoteReconciled(p) \/ AddAuditEntry(p)
    <3>1. PICK i \in Execution : TRUE
      BY <2>1 DEF NoteReconciled, AddAuditEntry, In, Starting, Inv, TypeOK, LocalsOK, Locals
    <3> QED
      BY <2>1, <3>1, QuietSteps
  <2> QED
    BY <1>3, <2>1, ApprovalStep, CancelStep, DispatchStep, AdapterStep, FinishStep, SweepStep DEF Step
<1>4. ASSUME NEW p \in Process, Die(p) \/ Raise(p) PROVE Inv'
  BY <1>4, QuietStep, RestSound DEF Die, Raise, Inv, TypeOK
<1>5. ASSUME NEW p \in Process, NEW i \in Execution, OpenApprove(p, i) \/ OpenCancel(p, i) PROVE Inv'
  BY <1>5, QuietSteps
<1>6. ASSUME NEW p \in Process, NEW i \in Execution, NEW risky \in BOOLEAN, Submit(p, i, risky) PROVE Inv'
  BY <1>6, SubmitStep
<1> QED
  BY <1>1, <1>2, <1>3, <1>4, <1>5, <1>6 DEF Next

LEMMA Invariance == Spec => []Inv
BY InitInv, NextInv, PTL DEF Spec

(* Every variable of Execution keeps its type.                             *)
THEOREM ExecutionTyping == Spec => []TypeOK
BY Invariance, PTL DEF Inv

LEMMA InvImplies == Inv => RunsOnceApproved
<1> SUFFICES ASSUME Inv, NEW i \in Execution
             PROVE  runs[i] <= 1 /\ (runs[i] = 1 /\ gated[i] => approved[i])
  BY DEF RunsOnceApproved
<1> QED
  BY DEF Inv, HolderOK, ReleaseOK

(* Whatever processes submit, approve, cancel, dispatch and reconcile the  *)
(* executions, and wherever they die, an instruction runs at most once and *)
(* gated work only after the owner's approval.                             *)
THEOREM AtMostOneApprovedRun == Spec => []RunsOnceApproved
BY InvImplies, Invariance, PTL

-----------------------------------------------------------------------------
(* The audit log. What a process with these locals has changed and is yet  *)
(* to note of i.                                                           *)
Owes(l, i, e) ==
    \/ l.place = "noting" /\ l.row = i /\ l.event = e
    \/ l.place = "reconciling" /\ i \in l.left /\ e = "reconciled"

(* An event of these kinds is noted, or owed by one process, or has not    *)
(* happened.                                                               *)
NotedOnce(K) ==
    \A i \in Execution :
        /\ Once(i, K)
        /\ \A p \in Process : \A e \in K : Owes(at[p], i, e) =>
              /\ \A a \in DOMAIN log[i] : log[i][a] \notin K
              /\ \A q \in Process : \A f \in K : Owes(at[q], i, f) => p = q

(* What an event of the log says of the row.                               *)
Says(e, s, yes) ==
    /\ e \in Ending => s = IF e = "completed" THEN "completed" ELSE "failed"
    /\ e = "approved" => yes
    /\ e = "reconciled" => s \in Terminal

NotedTruly ==
    \A i \in Execution :
        /\ \A a \in DOMAIN log[i] : Says(log[i][a], state[i], approved[i])
        /\ \A p \in Process : \A e \in Event : Owes(at[p], i, e) => Says(e, state[i], approved[i])

(* Approved means once awaiting_approval; completed means run; what a      *)
(* start found running is still running or over.                           *)
Swept == Terminal \cup {"running"}

RowsOK ==
    /\ \A i \in Execution : /\ state[i] \in {"absent", "awaiting_approval"} => ~approved[i]
                            /\ state[i] = "completed" => runs[i] = 1
    /\ \A p \in Process : In(p, "finishing") => runs[at[p].row] = 1
    /\ \A p \in Process : In(p, "sweeping") => \A i \in at[p].left : state[i] \in Swept

LogInv == NotedOnce(Ending) /\ NotedOnce({"approved"}) /\ NotedTruly /\ RowsOK

LEMMA LogInvInit == Init => LogInv
BY DEF Init, LogInv, NotedOnce, NotedTruly, RowsOK, Once, Owes, Says, In, Down

(* A process moves on and owes nothing that it did not owe before.         *)
LEMMA NothingNew ==
    ASSUME Inv, LogInv, NEW p \in Process, NEW new, Goto(p, new), UNCHANGED <<log, state, approved, runs>>,
           \A i \in Execution, e \in Event :
               Owes(new, i, e) /\ e \in Ending \cup {"approved", "reconciled"} => Owes(at[p], i, e),
           new.place # "finishing",
           new.place = "sweeping" => \A i \in new.left : state[i] \in Swept
    PROVE  LogInv'
<1>1. at'[p] = new /\ \A q \in Process : q # p => at'[q] = at[q]
  BY DEF Goto, Inv, TypeOK
<1>2. Ending \subseteq Event /\ {"approved", "reconciled"} \subseteq Event
  BY DEF Event
<1>3. \A q \in Process, i \in Execution, e \in Ending \cup {"approved", "reconciled"} : Owes(at'[q], i, e) => Owes(at[q], i, e)
  BY <1>1, <1>2
<1>4. NotedOnce(Ending)'
  BY <1>3 DEF LogInv, NotedOnce, Once
<1>5. NotedOnce({"approved"})'
  BY <1>3 DEF LogInv, NotedOnce, Once
<1>6. NotedTruly'
  BY <1>1, <1>2, <1>3 DEF LogInv, NotedTruly, Says
<1>7. RowsOK'
  BY <1>1 DEF LogInv, RowsOK, In
<1> QED
  BY <1>4, <1>5, <1>6, <1>7 DEF LogInv

(* p moves a row that is not over, and owes the note of it.                *)
LEMMA RowMoves ==
    ASSUME Inv, LogInv, NEW p \in Process, NEW new, NEW i \in Execution, NEW to \in State, NEW e \in Event,
           Goto(p, new), new.place = "noting", new.row = i, new.event = e,
           state' = [state EXCEPT ![i] = to], state[i] \notin Terminal,
           approved' = [approved EXCEPT ![i] = @ \/ e = "approved"],
           e = "approved" => ~approved[i],
           e \in Ending => to = IF e = "completed" THEN "completed" ELSE "failed",
           to = "completed" => runs[i] = 1,
           to \in {"absent", "awaiting_approval"} => ~approved'[i],
           e # "reconciled", state[i] = "running" => to \in Terminal,
           UNCHANGED <<log, runs>>
    PROVE  LogInv'
<1>1. at'[p] = new /\ \A q \in Process : q # p => at'[q] = at[q]
  BY DEF Goto, Inv, TypeOK
<1>2. /\ state'[i] = to /\ \A j \in Execution : j # i => state'[j] = state[j] /\ approved'[j] = approved[j]
      /\ approved'[i] <=> (approved[i] \/ e = "approved")
  BY DEF Inv, TypeOK
<1>3. Ending \subseteq Event /\ "approved" \in Event /\ "approved" \notin Ending
  BY DEF Event, Ending, Terminal
<1>4. /\ \A j \in Execution : \A f \in Event : Owes(at'[p], j, f) => j = i /\ f = e
      /\ \A q \in Process : q # p => \A j \in Execution : \A f \in Event : Owes(at'[q], j, f) => Owes(at[q], j, f)
  BY <1>1 DEF Owes
<1>5. /\ \A a \in DOMAIN log[i] : log[i][a] \notin Ending
      /\ \A q \in Process : \A f \in Ending : ~Owes(at[q], i, f)
  BY <1>3 DEF LogInv, NotedTruly, Says, Terminal
<1>6. e = "approved" => /\ \A a \in DOMAIN log[i] : log[i][a] # "approved"
                        /\ \A q \in Process : ~Owes(at[q], i, "approved")
  BY <1>3 DEF LogInv, NotedTruly, Says
<1>7. NotedOnce(Ending)'
  BY <1>3, <1>4, <1>5 DEF LogInv, NotedOnce, Once
<1>8. NotedOnce({"approved"})'
  BY <1>3, <1>4, <1>6 DEF LogInv, NotedOnce, Once
<1>9. NotedTruly'
  <2> SUFFICES ASSUME NEW j \in Execution
               PROVE  /\ \A a \in DOMAIN log[j] : Says(log[j][a], state'[j], approved'[j])
                      /\ \A q \in Process : \A f \in Event : Owes(at'[q], j, f) => Says(f, state'[j], approved'[j])
    BY DEF NotedTruly
  <2>1. CASE j # i
    BY <1>2, <1>4, <2>1 DEF LogInv, NotedTruly
  <2>2. CASE j = i
    <3>1. \A a \in DOMAIN log[i] : Says(log[i][a], state'[i], approved'[i])
      BY <1>2, <1>5 DEF LogInv, NotedTruly, Says
    <3>2. ASSUME NEW q \in Process, NEW f \in Event, Owes(at'[q], i, f) PROVE Says(f, state'[i], approved'[i])
      <4>1. CASE q = p
        BY <1>2, <1>4, <3>2, <4>1 DEF Says
      <4>2. CASE q # p
        BY <1>2, <1>4, <1>5, <3>2, <4>2 DEF LogInv, NotedTruly, Says
      <4> QED
        BY <4>1, <4>2
    <3> QED
      BY <2>2, <3>1, <3>2
  <2> QED
    BY <2>1, <2>2
<1>10. RowsOK'
  <2>1. ASSUME NEW q \in Process, In(q, "sweeping")', NEW j \in at'[q].left PROVE state'[j] \in Swept
    <3>1. q # p /\ at'[q] = at[q] /\ at[q] \in Locals
      BY <1>1, <2>1 DEF In, Inv, TypeOK
    <3>2. j \in Execution /\ state[j] \in Swept
      BY <2>1, <3>1 DEF LogInv, RowsOK, In, Locals
    <3> QED
      BY <1>2, <3>2 DEF Swept
  <2> QED
    BY <1>1, <1>2, <2>1 DEF LogInv, RowsOK, In
<1> QED
  BY <1>7, <1>8, <1>9, <1>10 DEF LogInv

(* p notes what it owed of i, and owes less.                               *)
LEMMA Pays ==
    ASSUME Inv, LogInv, NEW p \in Process, NEW new, NEW i \in Execution, NEW e \in Event,
           Goto(p, new), Owes(at[p], i, e), log' = [log EXCEPT ![i] = Append(@, e)],
           \A j \in Execution, f \in Event : Owes(new, j, f) => j # i /\ Owes(at[p], j, f),
           new.place \notin {"finishing", "sweeping"},
           UNCHANGED <<state, approved, runs>>
    PROVE  LogInv'
<1>1. at'[p] = new /\ \A q \in Process : q # p => at'[q] = at[q]
  BY DEF Goto, Inv, TypeOK
<1>2. log[i] \in Seq(Event) /\ log \in [Execution -> Seq(Event)]
  BY DEF Inv, TypeOK
<1> DEFINE n == Len(log[i]) + 1
<1>3. /\ DOMAIN log[i] = 1..(n - 1) /\ n \in Nat \ {0}
      /\ log'[i] = Append(log[i], e)
      /\ DOMAIN log'[i] = 1..n /\ log'[i][n] = e
      /\ \A a \in 1..(n - 1) : log'[i][a] = log[i][a]
      /\ \A j \in Execution : j # i => log'[j] = log[j]
  BY <1>2
<1>4. Ending \subseteq Event /\ {"approved"} \subseteq Event
  BY DEF Event
<1>5. \A q \in Process, j \in Execution, f \in Event :
          Owes(at'[q], j, f) => Owes(at[q], j, f) /\ ~(q = p /\ j = i)
  BY <1>1
<1> HIDE DEF n
<1>6. ASSUME NEW K, K \subseteq Event, NotedOnce(K) PROVE NotedOnce(K)'
  <2>1. \A j \in Execution : Once(j, K)'
    <3> SUFFICES ASSUME NEW j \in Execution PROVE Once(j, K)'
      OBVIOUS
    <3>1. CASE j # i
      BY <1>3, <1>6, <3>1 DEF NotedOnce, Once
    <3>2. CASE j = i
      <4>1. e \in K => \A a \in 1..(n - 1) : log[i][a] \notin K
        BY <1>3, <1>6 DEF NotedOnce
      <4>2. \A a, b \in 1..(n - 1) : log[i][a] \in K /\ log[i][b] \in K => a = b
        BY <1>3, <1>6 DEF NotedOnce, Once
      <4>3. \A a \in 1..n : a = n \/ a \in 1..(n - 1)
        BY <1>3
      <4>4. ASSUME NEW a \in 1..n, NEW b \in 1..n, log'[i][a] \in K, log'[i][b] \in K PROVE a = b
        BY <1>3, <4>1, <4>2, <4>3, <4>4
      <4> QED
        BY <1>3, <3>2, <4>4 DEF Once
    <3> QED
      BY <3>1, <3>2
  <2>2. ASSUME NEW j \in Execution, NEW q \in Process, NEW f \in K, Owes(at'[q], j, f)
        PROVE  /\ \A a \in DOMAIN log'[j] : log'[j][a] \notin K
               /\ \A r \in Process : \A g \in K : Owes(at'[r], j, g) => q = r
    <3>1. Owes(at[q], j, f) /\ f \in Event /\ ~(q = p /\ j = i)
      BY <1>5, <1>6, <2>2
    <3>2. /\ \A a \in DOMAIN log[j] : log[j][a] \notin K
          /\ \A r \in Process : \A g \in K : Owes(at[r], j, g) => q = r
      BY <1>6, <3>1 DEF NotedOnce
    <3>3. \A r \in Process : \A g \in K : Owes(at'[r], j, g) => q = r
      BY <1>5, <1>6, <3>2
    <3>4. j = i => e \notin K
      BY <3>1, <3>2
    <3>5. \A a \in DOMAIN log'[j] : log'[j][a] \notin K
      BY <1>3, <3>2, <3>4
    <3> QED
      BY <3>3, <3>5
  <2> QED
    BY <2>1, <2>2 DEF NotedOnce
<1>7. NotedOnce(Ending)' /\ NotedOnce({"approved"})'
  BY <1>4, <1>6 DEF LogInv
<1>8. NotedTruly'
  <2> SUFFICES ASSUME NEW j \in Execution
               PROVE  /\ \A a \in DOMAIN log'[j] : Says(log'[j][a], state[j], approved[j])
                      /\ \A q \in Process : \A f \in Event : Owes(at'[q], j, f) => Says(f, state[j], approved[j])
    BY DEF NotedTruly
  <2>1. \A q \in Process : \A f \in Event : Owes(at'[q], j, f) => Says(f, state[j], approved[j])
    BY <1>5 DEF LogInv, NotedTruly
  <2>2. \A a \in DOMAIN log[j] : Says(log[j][a], state[j], approved[j])
    BY DEF LogInv, NotedTruly
  <2>3. Says(e, state[i], approved[i])
    BY DEF LogInv, NotedTruly
  <2>4. \A a \in DOMAIN log'[j] : Says(log'[j][a], state[j], approved[j])
    BY <1>3, <2>2, <2>3
  <2> QED
    BY <2>1, <2>4
<1>9. RowsOK'
  BY <1>1 DEF LogInv, RowsOK, In
<1> QED
  BY <1>7, <1>8, <1>9 DEF LogInv

(* The read of a start owes nothing yet.                                   *)
LEMMA StartOwes == ASSUME Inv, LogInv, NEW p \in Process, Start(p) PROVE LogInv'
<1> DEFINE orphans == {i \in Execution : state[i] = "running"}
           new == IF orphans = {} THEN Idle ELSE [Down EXCEPT !.place = "sweeping", !.left = orphans]
<1>1. Goto(p, new) /\ UNCHANGED <<state, approved, log, runs>>
  BY DEF Start
<1>2. /\ new.place # "finishing"
      /\ \A i, e : ~Owes(new, i, e)
      /\ new.place = "sweeping" => \A i \in new.left : state[i] \in Swept
  BY DEF Owes, Idle, Down, Swept
<1> HIDE DEF new
<1> QED
  BY <1>1, <1>2, NothingNew

(* The update of a start owes the note of each row that was read: it is    *)
(* over by now, whoever ended it.                                          *)
LEMMA SweepOwes == ASSUME Inv, LogInv, NEW p \in Process, Sweep(p) PROVE LogInv'
<1>1. /\ \A i \in Execution : state'[i] = IF state[i] = "running" THEN "failed" ELSE state[i]
      /\ UNCHANGED <<gated, approved, log, runs>>
  BY DEF Sweep
<1>2. /\ at'[p] = [at[p] EXCEPT !.place = "reconciling"]
      /\ \A q \in Process : q # p => at'[q] = at[q]
  BY DEF Sweep, Goto, Inv, TypeOK
<1>3. /\ at[p] \in Locals /\ at'[p].place = "reconciling" /\ at'[p].left = at[p].left
      /\ at[p].left \subseteq Execution
  BY <1>2 DEF Inv, TypeOK, Locals
<1>4. \A i, e : Owes(at'[p], i, e) => i \in at[p].left /\ e = "reconciled"
  BY <1>3 DEF Owes
<1>5. \A i \in at[p].left : state'[i] \in Terminal
  BY <1>1, <1>3 DEF Sweep, In, LogInv, RowsOK, Swept, Terminal
<1>6. Ending \subseteq Event /\ {"approved", "reconciled"} \subseteq Event \ Ending /\ "failed" \in Terminal
  BY DEF Event, Ending, Terminal
<1>7. \A i \in Execution : state[i] = "running" =>
          /\ \A a \in DOMAIN log[i] : log[i][a] \notin Ending \cup {"reconciled"}
          /\ \A q \in Process : \A e \in Ending \cup {"reconciled"} : ~Owes(at[q], i, e)
  BY <1>6 DEF LogInv, NotedTruly, Says, Terminal
<1>8. NotedOnce(Ending)' /\ NotedOnce({"approved"})'
  BY <1>1, <1>2, <1>4, <1>6 DEF LogInv, NotedOnce, Once
<1>9. NotedTruly'
  <2> SUFFICES ASSUME NEW i \in Execution
               PROVE  /\ \A a \in DOMAIN log[i] : Says(log[i][a], state'[i], approved[i])
                      /\ \A q \in Process : \A e \in Event : Owes(at'[q], i, e) => Says(e, state'[i], approved[i])
    BY <1>1 DEF NotedTruly
  <2>1. \A a \in DOMAIN log[i] : Says(log[i][a], state[i], approved[i])
    BY DEF LogInv, NotedTruly
  <2>2. \A a \in DOMAIN log[i] : Says(log[i][a], state'[i], approved[i])
    BY <1>1, <1>7, <2>1 DEF Says
  <2>3. ASSUME NEW q \in Process, NEW e \in Event, Owes(at'[q], i, e) PROVE Says(e, state'[i], approved[i])
    <3>1. CASE q = p
      BY <1>4, <1>5, <1>6, <2>3, <3>1 DEF Says
    <3>2. CASE q # p
      <4>1. Owes(at[q], i, e) /\ Says(e, state[i], approved[i])
        BY <1>2, <2>3, <3>2 DEF LogInv, NotedTruly
      <4>2. e \in Ending \cup {"reconciled"} => state[i] # "running"
        BY <1>7, <4>1
      <4> QED
        BY <1>1, <4>1, <4>2 DEF Says
    <3> QED
      BY <3>1, <3>2
  <2> QED
    BY <2>2, <2>3
<1>10. RowsOK'
  <2>1. \A i \in Execution : /\ state'[i] \in {"absent", "awaiting_approval"} => ~approved[i]
                             /\ state'[i] = "completed" => runs[i] = 1
    BY <1>1 DEF LogInv, RowsOK
  <2>2. \A q \in Process : In(q, "finishing")' => runs[at'[q].row] = 1
    BY <1>2, <1>3 DEF LogInv, RowsOK, In
  <2>3. ASSUME NEW q \in Process, In(q, "sweeping")', NEW i \in at'[q].left PROVE state'[i] \in Swept
    <3>1. q # p /\ at'[q] = at[q] /\ at[q] \in Locals
      BY <1>2, <1>3, <2>3 DEF In, Inv, TypeOK
    <3>2. i \in Execution /\ state[i] \in Swept
      BY <2>3, <3>1 DEF LogInv, RowsOK, In, Locals
    <3> QED
      BY <1>1, <1>6, <3>2 DEF Swept
  <2> QED
    BY <1>1, <2>1, <2>2, <2>3 DEF RowsOK
<1> QED
  BY <1>8, <1>9, <1>10 DEF LogInv

(* Steps by which nothing is owed that was not.                            *)
LEMMA RestOwesNothing == \A i, e : ~Owes(Idle, i, e) /\ ~Owes(Down, i, e)
BY DEF Owes, Idle, Down

LEMMA IdleSteps ==
    ASSUME Inv, LogInv, NEW p \in Process, Goto(p, Idle) \/ Goto(p, Down), UNCHANGED <<log, state, approved, runs>>
    PROVE  LogInv'
BY NothingNew, RestOwesNothing DEF Idle, Down

(* The swaps.                                                              *)
LEMMA SwapSteps ==
    ASSUME Inv, LogInv, NEW p \in Process, RecordApproval(p) \/ Cancel(p) \/ Dispatch(p) \/ Finish(p)
    PROVE  LogInv'
<1>1. PICK i \in Execution : i = at[p].row
  BY DEF Inv, LocalsOK, RecordApproval, Cancel, Dispatch, Finish, In, Starting
<1>2. at[p] \in Locals /\ at \in [Process -> Locals] /\ approved \in [Execution -> BOOLEAN]
  BY DEF Inv, TypeOK
<1>3. CASE RecordApproval(p)
  <2>1. CASE state[i] = "awaiting_approval"
    <3> DEFINE new == [at[p] EXCEPT !.place = "noting", !.event = "approved"]
    <3>1. new.place = "noting" /\ new.row = i /\ new.event = "approved"
      BY <1>1, <1>2 DEF Locals
    <3>2. /\ state' = [state EXCEPT ![i] = "queued"] /\ Goto(p, new) /\ UNCHANGED <<log, runs>>
          /\ approved' = [approved EXCEPT ![i] = @ \/ "approved" = "approved"]
      BY <1>1, <1>3, <2>1 DEF RecordApproval, Swap, Note
    <3>3. ~approved[i] /\ state[i] \notin Terminal
      BY <2>1 DEF LogInv, RowsOK, Terminal
    <3>4. "queued" \in State /\ "approved" \in Event \ Ending /\ state[i] # "running"
      BY <2>1 DEF State, Waiting, Event, Ending, Terminal
    <3> HIDE DEF new
    <3> QED
      BY <3>1, <3>2, <3>3, <3>4, RowMoves
  <2>2. CASE state[i] # "awaiting_approval"
    <3>1. approved' = approved
      BY <1>1, <1>2, <1>3, <2>2 DEF RecordApproval
    <3> QED
      BY <1>1, <1>3, <2>2, <3>1, IdleSteps DEF RecordApproval, Swap
  <2> QED
    BY <2>1, <2>2
<1>4. ASSUME NEW seen \in State \ Terminal, NEW to \in State \ {"absent", "awaiting_approval"}, NEW e \in Event \ {"approved", "reconciled"},
             Swap(p, i, seen, to, e), UNCHANGED <<approved, log, runs>>,
             e \in Ending => to = IF e = "completed" THEN "completed" ELSE "failed",
             to = "completed" => runs[i] = 1, seen = "running" => to \in Terminal
      PROVE  LogInv'
  <2>1. CASE state[i] = seen
    <3> DEFINE new == [at[p] EXCEPT !.place = "noting", !.event = e]
    <3>1. new.place = "noting" /\ new.row = i /\ new.event = e
      BY <1>1, <1>2 DEF Locals
    <3>2. /\ state' = [state EXCEPT ![i] = to] /\ Goto(p, new) /\ UNCHANGED <<log, runs>>
      BY <1>1, <1>4, <2>1 DEF Swap, Note
    <3>3. approved' = [approved EXCEPT ![i] = @ \/ e = "approved"]
      BY <1>2, <1>4
    <3> HIDE DEF new
    <3> QED
      BY <1>4, <2>1, <3>1, <3>2, <3>3, RowMoves
  <2>2. CASE state[i] # seen
    BY <1>4, <2>2, IdleSteps DEF Swap
  <2> QED
    BY <2>1, <2>2
<1>5. CASE Cancel(p)
  <2>1. at[p].seen \in State \ Terminal
    BY <1>5 DEF Cancel, In, Inv, LocalsOK, State, Waiting, Terminal
  <2>2. Swap(p, i, at[p].seen, "failed", "cancelled") /\ UNCHANGED <<approved, log, runs>>
    BY <1>1, <1>5 DEF Cancel
  <2>3. "failed" \in State \ {"absent", "awaiting_approval"} /\ "cancelled" \in Event \ {"approved", "reconciled"} /\ "failed" \in Terminal
    BY DEF State, Terminal, Event, Ending
  <2> QED
    BY <1>4, <2>1, <2>2, <2>3
<1>6. CASE Dispatch(p)
  <2>1. Swap(p, i, "queued", "running", "running") /\ UNCHANGED <<approved, log, runs>>
    BY <1>1, <1>6 DEF Dispatch
  <2>2. /\ "queued" \in State \ Terminal /\ "running" \in State \ {"absent", "awaiting_approval"}
        /\ "running" \in Event \ (Ending \cup {"approved", "reconciled"})
    BY DEF State, Terminal, Event, Ending, Waiting
  <2> QED
    BY <1>4, <2>1, <2>2
<1>7. CASE Finish(p)
  <2>1. PICK to \in Terminal : to = at[p].seen
    BY <1>7 DEF Finish, In, Inv, LocalsOK
  <2>2. Swap(p, i, "running", to, to) /\ UNCHANGED <<approved, log, runs>>
    BY <1>1, <1>7, <2>1 DEF Finish
  <2>3. runs[i] = 1
    BY <1>1, <1>7 DEF Finish, LogInv, RowsOK
  <2>4. /\ to \in State \ {"absent", "awaiting_approval"} /\ to \in Event \ {"approved", "reconciled"} /\ "running" \in State \ Terminal
        /\ to = IF to = "completed" THEN "completed" ELSE "failed"
    BY <2>1 DEF State, Terminal, Event, Ending
  <2> QED
    BY <1>4, <2>2, <2>3, <2>4
<1> QED
  BY <1>3, <1>5, <1>6, <1>7

(* The notes themselves.                                                   *)
LEMMA NoteSteps ==
    ASSUME Inv, LogInv, NEW p \in Process, NoteReconciled(p) \/ AddAuditEntry(p)
    PROVE  LogInv'
<1>0. at[p] \in Locals /\ at \in [Process -> Locals]
  BY DEF Inv, TypeOK
<1>1. CASE NoteReconciled(p)
  <2>1. PICK i \in at[p].left :
           /\ Goto(p, IF at[p].left = {i} THEN Idle ELSE [at[p] EXCEPT !.left = @ \ {i}])
           /\ \/ log' = [log EXCEPT ![i] = Append(@, "reconciled")]
              \/ Errors /\ UNCHANGED log
    BY <1>1 DEF NoteReconciled
  <2>2. /\ i \in Execution /\ "reconciled" \in Event /\ Owes(at[p], i, "reconciled")
        /\ UNCHANGED <<state, approved, runs>>
    BY <1>0, <1>1 DEF Locals, Event, Owes, NoteReconciled, In
  <2> DEFINE new == IF at[p].left = {i} THEN Idle ELSE [at[p] EXCEPT !.left = @ \ {i}]
  <2>3. /\ new.place \notin {"finishing", "sweeping"}
        /\ \A j \in Execution, f \in Event : Owes(new, j, f) => j # i /\ Owes(at[p], j, f)
    BY <1>0, <1>1 DEF Owes, Idle, Down, Locals, NoteReconciled, In
  <2>4. Goto(p, new)
    BY <2>1
  <2> HIDE DEF new
  <2>5. CASE log' = [log EXCEPT ![i] = Append(@, "reconciled")]
    BY <2>2, <2>3, <2>4, <2>5, Pays
  <2>6. CASE UNCHANGED log
    BY <2>2, <2>3, <2>4, <2>6, NothingNew
  <2> QED
    BY <2>1, <2>5, <2>6
<1>2. CASE AddAuditEntry(p)
  <2>1. PICK i \in Execution : i = at[p].row
    BY <1>2 DEF AddAuditEntry, In, Starting, Inv, LocalsOK
  <2>2. PICK e \in Event : e = at[p].event
    BY <1>0 DEF Locals
  <2>3. /\ log' = [log EXCEPT ![i] = Append(@, e)] /\ UNCHANGED <<state, approved, runs>>
        /\ Owes(at[p], i, e)
    BY <1>2, <2>1, <2>2 DEF AddAuditEntry, Owes, In
  <2>4. PICK next \in {"idle", "dispatching", "calling"} :
            Goto(p, IF next = "idle" THEN Idle ELSE [at[p] EXCEPT !.place = next])
    BY <1>2 DEF AddAuditEntry
  <2> DEFINE new == IF next = "idle" THEN Idle ELSE [at[p] EXCEPT !.place = next]
  <2>5. new.place \notin {"finishing", "sweeping"} /\ \A j \in Execution, f \in Event : ~Owes(new, j, f)
    BY <1>0 DEF Owes, Idle, Down, Locals
  <2>6. Goto(p, new)
    BY <2>4
  <2> HIDE DEF new
  <2> QED
    BY <2>3, <2>5, <2>6, Pays
<1> QED
  BY <1>1, <1>2

(* A submission, the reads of approve and cancel, and the adapter.         *)
LEMMA SubmitOwes ==
    ASSUME Inv, LogInv, NEW p \in Process, NEW i \in Execution, NEW risky \in BOOLEAN, Submit(p, i, risky)
    PROVE  LogInv'
<1> DEFINE first == IF risky THEN "awaiting_approval" ELSE "queued"
           new == [Idle EXCEPT !.place = "noting", !.row = i, !.seen = first, !.event = "created"]
<1>1. new.place = "noting" /\ new.row = i /\ new.event = "created"
  BY DEF Idle, Down
<1>2. /\ Goto(p, new) /\ UNCHANGED <<approved, log, runs>>
      /\ state' = [state EXCEPT ![i] = first] /\ state[i] = "absent"
  BY DEF Submit
<1>3. ~approved[i] /\ approved' = [approved EXCEPT ![i] = @ \/ "created" = "approved"] /\ approved'[i] = approved[i]
  BY <1>2 DEF LogInv, RowsOK, Inv, TypeOK
<1>4. first \in State \ Terminal /\ "created" \in Event \ (Ending \cup {"approved", "reconciled"}) /\ state[i] \notin Swept
  BY <1>2 DEF State, Waiting, Terminal, Event, Ending, Swept
<1> HIDE DEF new, first
<1>5. first # "completed" /\ state[i] \notin Terminal /\ state[i] # "running"
  BY <1>4 DEF Terminal, Swept
<1> QED
  BY <1>1, <1>2, <1>3, <1>4, <1>5, RowMoves

LEMMA OpenSteps ==
    ASSUME Inv, LogInv, NEW p \in Process, NEW i \in Execution, OpenApprove(p, i) \/ OpenCancel(p, i)
    PROVE  LogInv'
<1>1. PICK new : /\ Goto(p, new) /\ new.place \in {"approving", "cancelling"}
                 /\ UNCHANGED <<state, approved, log, runs>>
  BY DEF OpenApprove, OpenCancel, Idle, Down
<1>2. \A j \in Execution, e \in Event : ~Owes(new, j, e)
  BY <1>1 DEF Owes
<1> QED
  BY <1>1, <1>2, NothingNew

LEMMA AdapterOwes == ASSUME Inv, LogInv, NEW p \in Process, RunAdapter(p) PROVE LogInv'
<1>1. PICK i \in Execution : i = at[p].row
  BY DEF Inv, LocalsOK, RunAdapter, In, Starting
<1>2. /\ runs[i] = 0
      /\ runs' = [runs EXCEPT ![i] = @ + 1] /\ UNCHANGED <<state, approved, log>>
  BY <1>1 DEF RunAdapter, Inv, HolderOK, Holds
<1>3. runs'[i] = 1 /\ \A j \in Execution : j # i => runs'[j] = runs[j]
  BY <1>2 DEF Inv, TypeOK
<1>4. /\ at'[p].place = "finishing" /\ at'[p].row = i
      /\ \A q \in Process : q # p => at'[q] = at[q]
  BY <1>1 DEF RunAdapter, Goto, Inv, TypeOK, Locals
<1>5. \A q \in Process, j \in Execution, e \in Event : Owes(at'[q], j, e) => Owes(at[q], j, e)
  BY <1>4 DEF Owes
<1>6. Ending \subseteq Event /\ {"approved"} \subseteq Event
  BY DEF Event
<1>7. NotedOnce(Ending)' /\ NotedOnce({"approved"})'
  BY <1>2, <1>5, <1>6 DEF LogInv, NotedOnce, Once
<1>8. NotedTruly'
  BY <1>2, <1>5 DEF LogInv, NotedTruly, Says
<1>9. RowsOK'
  <2>1. \A j \in Execution : /\ state[j] \in {"absent", "awaiting_approval"} => ~approved[j]
                             /\ state[j] = "completed" => runs'[j] = 1
    BY <1>3 DEF LogInv, RowsOK
  <2>2. ASSUME NEW q \in Process, at'[q].place = "finishing" PROVE runs'[at'[q].row] = 1
    <3>1. CASE q = p
      BY <1>3, <1>4, <3>1
    <3>2. CASE q # p
      <4>1. at'[q] = at[q] /\ at[q].row \in Execution /\ runs[at[q].row] = 1
        BY <1>4, <2>2, <3>2 DEF LogInv, RowsOK, In, Starting, Inv, LocalsOK
      <4> QED
        BY <1>3, <4>1
    <3> QED
      BY <3>1, <3>2
  <2>3. ASSUME NEW q \in Process, In(q, "sweeping")' PROVE \A j \in at'[q].left : state'[j] \in Swept
    <3>1. q # p /\ at'[q] = at[q]
      BY <1>4, <2>3 DEF In
    <3> QED
      BY <1>2, <2>3, <3>1 DEF LogInv, RowsOK, In
  <2> QED
    BY <1>2, <2>1, <2>2, <2>3 DEF RowsOK, In
<1> QED
  BY <1>7, <1>8, <1>9 DEF LogInv

(* The two invariants together are inductive.                              *)
LEMMA LogInvStep == Inv /\ LogInv /\ [Next]_vars => LogInv'
<1> SUFFICES ASSUME Inv, LogInv, [Next]_vars PROVE LogInv'
  OBVIOUS
<1>1. CASE UNCHANGED vars
  BY <1>1 DEF vars, LogInv, NotedOnce, NotedTruly, RowsOK, Once, Owes, Says, In
<1>2. ASSUME NEW p \in Process, Start(p) PROVE LogInv'
  BY <1>2, StartOwes
<1>3. ASSUME NEW p \in Process, Step(p) PROVE LogInv'
  BY <1>3, SwapSteps, NoteSteps, AdapterOwes, SweepOwes DEF Step
<1>4. ASSUME NEW p \in Process, Die(p) \/ Raise(p) PROVE LogInv'
  BY <1>4, IdleSteps DEF Die, Raise
<1>5. ASSUME NEW p \in Process, NEW i \in Execution, OpenApprove(p, i) \/ OpenCancel(p, i) PROVE LogInv'
  BY <1>5, OpenSteps
<1>6. ASSUME NEW p \in Process, NEW i \in Execution, NEW risky \in BOOLEAN, Submit(p, i, risky) PROVE LogInv'
  BY <1>6, SubmitOwes
<1> QED
  BY <1>1, <1>2, <1>3, <1>4, <1>5, <1>6 DEF Next

(* What the invariants say of a state.                                     *)
LEMMA LogInvImplies == Inv /\ LogInv => LogIsTrue
<1> SUFFICES ASSUME Inv, LogInv, NEW i \in Execution
             PROVE  /\ Once(i, Ending) /\ Once(i, {"approved"})
                    /\ \A a \in DOMAIN log[i] : Says(log[i][a], state[i], approved[i])
                    /\ state[i] = "completed" => runs[i] = 1
  BY DEF LogIsTrue, Says
<1> QED
  BY DEF LogInv, NotedOnce, NotedTruly, RowsOK

(* Whatever processes race on an execution, and wherever they die or fail, *)
(* those who finish and cancel note at most one ending, the one that the   *)
(* row has; there is at most one approval; a start notes as reconciled     *)
(* only rows that are over; and work shown as completed was run.           *)
THEOREM AuditLogIsTrue == Spec => []LogIsTrue
<1>1. Spec => [](Inv /\ LogInv)
  BY InitInv, NextInv, LogInvInit, LogInvStep, PTL DEF Spec
<1> QED
  BY <1>1, LogInvImplies, PTL
=============================================================================
