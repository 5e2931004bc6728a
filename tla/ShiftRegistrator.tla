-------------------------- MODULE ShiftRegistrator --------------------------
(***************************************************************************)
(* The fiscal device of a service group as the server drives it: class     *)
(* AsyncRegistrator of hardware/adapters/base.py, its shift states         *)
(* (UndefinedState, ClosedState, AutoShiftOpenState with the timer that is *)
(* to close the shift), the single worker thread, and behind it the device *)
(* of hardware/adapters/test/adapter.py.                                   *)
(*                                                                         *)
(* Tasks of the event loop run from one await to the next.  A call to the  *)
(* device is a job for the worker, which takes them in order; what it      *)
(* answers waits in reply until the loop resumes the task.                 *)
(*                                                                         *)
(* Nothing calls change_state once the shift state is open: the task of    *)
(* the constructor does it once, a registration does it in the closed      *)
(* state only.  AutoShiftOpenState.state_changed is hence never called,    *)
(* and a registration that awaits its future has no step left to take.     *)
(***************************************************************************)
EXTENDS Naturals, Sequences, SequencesExt

CONSTANTS Receipts,   \* receipts the invoker asks to register, one at a time
          Closers,    \* callers of close_shift and of open_shift
          Duration,   \* shift_duration, in ticks
          BootAges,   \* ages a shift found open at the start may have
          MaxAge,     \* bound: a shift grows no older
          Faults      \* which jobs the device may refuse: "info", "register",
                      \* "close"

ASSUME TimesAssumption == /\ Duration \in Nat \ {0}
                          /\ MaxAge \in Nat
                          /\ BootAges \subseteq 0..MaxAge
ASSUME TasksAssumption == /\ Receipts \cap Closers = {}
                          /\ {"boot", "timer"} \cap (Receipts \cup Closers) = {}
ASSUME FaultsAssumption == Faults \subseteq {"info", "register", "close"}

Tasks == {"boot", "timer"} \cup Receipts \cup Closers
Ops == {"info", "register", "close"}

VARIABLES
    open, age,     \* the device: is a shift open, and for how long
    journal,       \* journal[r]: how often the device has registered r
    jobs,          \* the executor's queue of [op, task]
    reply,         \* reply[t]: "none", or what t's job came to: "ok", "error"
    reading,       \* the shift information the last "info" job brought
    state,         \* the shift state: "undefined", "closed" or "open"
    closing,       \* AutoShiftOpenState._closing_task_executing
    left,          \* what the timer has still to sleep
    pc,            \* pc[t]: what task t awaits, or how it ended
    calm           \* never changes: the device does what it is asked, nobody opens or
                   \* closes by hand, and an age is read before the shift is due

deviceVars == <<open, age, journal>>
workVars == <<jobs, reply, reading>>
stateVars == <<state, closing, left>>
vars == <<deviceVars, workVars, stateVars, pc, calm>>

NoReading == [open |-> FALSE, age |-> 0]

(* A registration in progress: the invoker starts no other meanwhile. *)
Busy(r) == pc[r] \notin {"idle", "ok", "failed", "unread"}

Refuses(op) == ~calm /\ op \in Faults

Init ==
    /\ calm \in BOOLEAN
    /\ \/ open = FALSE /\ age = 0
       \/ open = TRUE /\ age \in BootAges /\ (calm => age < Duration)
    /\ journal = [r \in Receipts |-> 0]
    /\ jobs = <<>>
    /\ reply = [t \in Tasks |-> "none"]
    /\ reading = NoReading
    /\ state = "undefined"
    /\ closing = FALSE
    /\ left = 0
    /\ pc = [t \in Tasks |-> CASE t = "boot" -> "start"
                               [] t = "timer" -> "none"
                               [] OTHER -> "idle"]

Goto(t, where) == pc' = [pc EXCEPT ![t] = where]
Submit(t, op) == jobs' = Append(jobs, [op |-> op, task |-> t])
Consume(t) == reply' = [reply EXCEPT ![t] = "none"]

-----------------------------------------------------------------------------
(* The worker thread and the device *)

(* register_receipt of the device opens a shift when none is open.  A refused *)
(* one leaves the shift closed or, having come further, open. *)
DeviceRegisters(r) ==
    \/ /\ open' = TRUE
       /\ age' = IF open THEN age ELSE 0
       /\ journal' = [journal EXCEPT ![r] = @ + 1]
       /\ reply' = [reply EXCEPT ![r] = "ok"]
    \/ /\ Refuses("register")
       /\ open' \in {open, TRUE}
       /\ reply' = [reply EXCEPT ![r] = "error"]
       /\ UNCHANGED <<age, journal>>

DeviceCloses(t) ==
    \/ /\ open' = FALSE
       /\ age' = 0
       /\ reply' = [reply EXCEPT ![t] = "ok"]
       /\ UNCHANGED journal
    \/ /\ Refuses("close")
       /\ reply' = [reply EXCEPT ![t] = "error"]
       /\ UNCHANGED deviceVars

DeviceTells(t) ==
    /\ UNCHANGED deviceVars
    /\ \/ /\ reading' = [open |-> open, age |-> age]
          /\ reply' = [reply EXCEPT ![t] = "ok"]
       \/ /\ Refuses("info")
          /\ reply' = [reply EXCEPT ![t] = "error"]
          /\ UNCHANGED reading

Work ==
    /\ jobs # <<>>
    /\ jobs' = Tail(jobs)
    /\ \/ Head(jobs).op = "register" /\ DeviceRegisters(Head(jobs).task) /\ UNCHANGED reading
       \/ Head(jobs).op = "close" /\ DeviceCloses(Head(jobs).task) /\ UNCHANGED reading
       \/ Head(jobs).op = "info" /\ DeviceTells(Head(jobs).task)
    /\ UNCHANGED <<stateVars, pc, calm>>

(* Tasks on their way to change_state's reading of the shift. *)
Unread == {"start", "reading", "first", "rereading"}

(* Time passes, for the device and for the server's counter alike; a task that *)
(* has been created gets to its sleep within the tick. *)
Tick ==
    /\ open /\ age < MaxAge
    /\ pc["timer"] # "starting"
    /\ calm /\ (\E t \in Tasks : pc[t] \in Unread) => age + 1 < Duration
    /\ age' = age + 1
    /\ reading' = IF reading.open THEN [reading EXCEPT !.age = @ + 1] ELSE reading
    /\ left' = IF pc["timer"] = "sleeping" /\ left > 0 THEN left - 1 ELSE left
    /\ UNCHANGED <<open, journal, jobs, reply, state, closing, pc, calm>>

-----------------------------------------------------------------------------
(* change_state and the state the factory makes of what it read *)

(* The time a new AutoShiftOpenState gives its timer: what is left of the *)
(* shift, never less than 0. *)
TimeLeftUnclamped == Duration - reading.age
TimeLeftOfNewShift == Duration
TimeLeft == IF reading.age < Duration THEN Duration - reading.age ELSE 0

(* The second half of change_state in task t, which ends in pc end: the state *)
(* is made of the reading and the old one told; a new open state creates its *)
(* timer's task. *)
ChangeState(t, end) ==
    /\ reply[t] = "ok"
    /\ Consume(t)
    /\ reading' = NoReading
    /\ \/ /\ reading.open
          /\ state' = "open"
          /\ left' = TimeLeft
          /\ pc' = [pc EXCEPT ![t] = end, !["timer"] = "starting"]
       \/ /\ ~reading.open
          /\ state' = "closed"
          /\ Goto(t, end)
          /\ UNCHANGED left
    /\ UNCHANGED <<closing, jobs, deviceVars, calm>>

(* The task the constructor creates: read the shift, leave the undefined state. *)
Boot ==
    /\ pc["boot"] = "start"
    /\ Submit("boot", "info")
    /\ Goto("boot", "reading")
    /\ UNCHANGED <<deviceVars, reply, reading, stateVars, calm>>

BootRead ==
    /\ pc["boot"] = "reading"
    /\ \/ ChangeState("boot", "done")
       \/ /\ reply["boot"] = "error"
          /\ Consume("boot")
          /\ Goto("boot", "failed")
          /\ UNCHANGED <<deviceVars, jobs, reading, stateVars, calm>>

-----------------------------------------------------------------------------
(* register_receipt *)

(* The call reaches the current state: the undefined one lets it wait, the *)
(* closed one registers and will then change the state, the open one registers *)
(* unless its timer is closing the shift, in which case it awaits that. *)
Delegate(r) ==
    /\ \/ state = "undefined" /\ Goto(r, "undefined") /\ UNCHANGED jobs
       \/ state = "closed" /\ Submit(r, "register") /\ Goto(r, "first")
       \/ state = "open" /\ ~closing /\ Submit(r, "register") /\ Goto(r, "registering")
       \/ state = "open" /\ closing /\ Goto(r, "awaitClose") /\ UNCHANGED jobs
    /\ UNCHANGED <<deviceVars, reply, reading, stateVars, calm>>

Register(r) ==
    /\ pc[r] = "idle"
    /\ \A q \in Receipts : ~Busy(q)
    /\ Delegate(r)

(* UndefinedState's future is set by state_changed. *)
RegisterNeverTold(r) == FALSE

RegisterDefined(r) ==
    /\ pc[r] = "undefined"
    /\ state # "undefined"
    /\ Delegate(r)

ReturnUnchecked(t, from, end) ==
    /\ pc[t] = from
    /\ reply[t] # "none"
    /\ Consume(t)
    /\ Goto(t, end)
    /\ UNCHANGED <<deviceVars, jobs, reading, stateVars, calm>>

Return(t, from, end) ==
    /\ pc[t] = from
    /\ reply[t] # "none"
    /\ Consume(t)
    /\ Goto(t, IF reply[t] = "ok" THEN end ELSE "failed")
    /\ UNCHANGED <<deviceVars, jobs, reading, stateVars, calm>>

Registered(r) == Return(r, "registering", "ok")

(* ClosedState.register_receipt: registered, now read the shift again. *)
FirstRegisteredOnly(r) == Return(r, "first", "ok")

FirstRegistered(r) ==
    /\ pc[r] = "first"
    /\ reply[r] # "none"
    /\ Consume(r)
    /\ \/ reply[r] = "ok" /\ Submit(r, "info") /\ Goto(r, "rereading")
       \/ reply[r] = "error" /\ Goto(r, "failed") /\ UNCHANGED jobs
    /\ UNCHANGED <<deviceVars, reading, stateVars, calm>>

(* The call raises when reading fails ("unread"), although it has registered. *)
Reread(r) ==
    /\ pc[r] = "rereading"
    /\ \/ ChangeState(r, "ok")
       \/ /\ reply[r] = "error"
          /\ Consume(r)
          /\ Goto(r, "unread")
          /\ UNCHANGED <<deviceVars, jobs, reading, stateVars, calm>>

(* await self._closing_task passes on how it ended; then the state's future is *)
(* awaited ("awaitState"), which nothing sets. *)
ClosingAwaited(r) ==
    /\ pc[r] = "awaitClose"
    /\ \/ pc["timer"] = "done" /\ Goto(r, "awaitState")
       \/ pc["timer"] = "failed" /\ Goto(r, "failed")
    /\ UNCHANGED <<deviceVars, workVars, stateVars, calm>>

-----------------------------------------------------------------------------
(* close_shift, by a caller and by the timer, and open_shift *)

(* _cancel_closing_task: a timer that is closing the shift is left alone. *)
CancelTimer == IF ~closing /\ pc["timer"] \in {"starting", "sleeping"}
               THEN "cancelled" ELSE pc["timer"]

DelegateClose(m) ==
    /\ \/ state = "undefined" /\ Goto(m, "undefined") /\ UNCHANGED jobs
       \/ state = "closed" /\ Goto(m, "ok") /\ UNCHANGED jobs
       \/ /\ state = "open"
          /\ Submit(m, "close")
          /\ pc' = [pc EXCEPT ![m] = "closing", !["timer"] = CancelTimer]
    /\ UNCHANGED <<deviceVars, reply, reading, stateVars, calm>>

CloseShift(m) == ~calm /\ pc[m] = "idle" /\ DelegateClose(m)

CloseDefined(m) ==
    /\ pc[m] = "undefined"
    /\ state # "undefined"
    /\ DelegateClose(m)

Closed(m) == Return(m, "closing", "ok")

(* open_shift does nothing in the open state; in the closed one it calls itself   *)
(* through the device, until the recursion limit stops it.                        *)
DelegateOpen(m) ==
    /\ \/ state = "undefined" /\ Goto(m, "unopened")
       \/ state = "closed" /\ Goto(m, "failed")
       \/ state = "open" /\ Goto(m, "ok")
    /\ UNCHANGED <<deviceVars, workVars, stateVars, calm>>

OpenShift(m) == ~calm /\ pc[m] = "idle" /\ DelegateOpen(m)

OpenDefined(m) ==
    /\ pc[m] = "unopened"
    /\ state # "undefined"
    /\ DelegateOpen(m)

(* _close_shift_later begins.  With no time left it calls close_shift with the *)
(* flag still FALSE and so cancels itself: its job is submitted, and the task *)
(* is cancelled at its next await. *)
TimerStarts ==
    /\ pc["timer"] = "starting"
    /\ \/ left > 0 /\ Goto("timer", "sleeping") /\ UNCHANGED jobs
       \/ left = 0 /\ Submit("timer", "close") /\ Goto("timer", "cancelling")
    /\ UNCHANGED <<deviceVars, reply, reading, stateVars, calm>>

(* The cancellation arrives: the job is withdrawn unless the worker has it. *)
TimerCancelled ==
    /\ pc["timer"] = "cancelling"
    /\ \/ \E i \in DOMAIN jobs : jobs[i].task = "timer" /\ jobs' = RemoveAt(jobs, i)
       \/ (\A i \in DOMAIN jobs : jobs[i].task # "timer") /\ UNCHANGED jobs
    /\ Consume("timer")
    /\ Goto("timer", "cancelled")
    /\ UNCHANGED <<deviceVars, reading, stateVars, calm>>

(* The sleep returns TRUE, which is the flag: the timer closes the shift. *)
FlagForgotten == closing' = closing
RaiseFlag == closing' = TRUE

TimerFiresUnflagged ==
    /\ pc["timer"] = "sleeping"
    /\ left = 0
    /\ Submit("timer", "close")
    /\ Goto("timer", "cancelling")
    /\ UNCHANGED <<deviceVars, reply, reading, stateVars, calm>>

TimerFires ==
    /\ pc["timer"] = "sleeping"
    /\ left = 0
    /\ RaiseFlag
    /\ Submit("timer", "close")
    /\ Goto("timer", "closing")
    /\ UNCHANGED <<deviceVars, reply, reading, state, left, calm>>

TimerClosed == Return("timer", "closing", "done")

-----------------------------------------------------------------------------
Loop == \/ Boot \/ BootRead \/ TimerStarts \/ TimerCancelled \/ TimerFires \/ TimerClosed
        \/ \E r \in Receipts : \/ RegisterDefined(r) \/ Registered(r) \/ FirstRegistered(r)
                               \/ Reread(r) \/ ClosingAwaited(r)
        \/ \E m \in Closers : CloseDefined(m) \/ Closed(m) \/ OpenDefined(m)

Callers == \/ \E r \in Receipts : Register(r)
           \/ \E m \in Closers : CloseShift(m) \/ OpenShift(m)

Next == Loop \/ Callers \/ Work \/ Tick

Spec == Init /\ [][Next]_vars

(* The loop resumes what is ready, each task in its turn, the worker works, *)
(* time passes.  Nobody has to call anything. *)
Fairness ==
    /\ WF_vars(Work) /\ WF_vars(Tick)
    /\ WF_vars(Boot) /\ WF_vars(BootRead)
    /\ WF_vars(TimerStarts \/ TimerCancelled \/ TimerFires \/ TimerClosed)
    /\ \A r \in Receipts : WF_vars(\/ RegisterDefined(r) \/ Registered(r) \/ FirstRegistered(r)
                                   \/ Reread(r) \/ ClosingAwaited(r))
    /\ \A m \in Closers : WF_vars(CloseDefined(m) \/ Closed(m) \/ OpenDefined(m))

FairSpec == Spec /\ Fairness

-----------------------------------------------------------------------------
(* Properties *)

TypeOK ==
    /\ calm \in BOOLEAN
    /\ open \in BOOLEAN
    /\ age \in 0..MaxAge
    /\ journal \in [Receipts -> Nat]
    /\ jobs \in Seq([op : Ops, task : Tasks])
    /\ reply \in [Tasks -> {"none", "ok", "error"}]
    /\ reading \in [open : BOOLEAN, age : 0..MaxAge]
    /\ state \in {"undefined", "closed", "open"}
    /\ closing \in BOOLEAN
    /\ left \in 0..Duration
    /\ pc \in [Tasks -> {"none", "start", "reading", "starting", "sleeping", "cancelling",
                         "cancelled", "idle", "undefined", "unopened", "first", "rereading",
                         "registering", "awaitClose", "awaitState", "closing", "done",
                         "ok", "failed", "unread"}]

(* What a call reports: a registration that returned is in the device's journal *)
(* once.  One that raised is not there, with one exception in the code: the     *)
(* first receipt of a shift raises after it has been registered when the shift  *)
(* cannot be read then ("unread", lines 327 to 329); it is there once, though   *)
(* its command announces a failure.  Nothing is registered twice.               *)
Raised(r) == pc[r] \in {"failed", "unread"}
OutcomeTrue ==
    \A r \in Receipts : /\ pc[r] = "ok" => journal[r] = 1
                        /\ Raised(r) => journal[r] = IF pc[r] = "unread" THEN 1 ELSE 0
                        /\ journal[r] <= 1

(* A timer that sleeps belongs to the shift that is open now and wakes when *)
(* that one is Duration old, though the age was read before and by another task. *)
ArmedTimerMatchesShift ==
    pc["timer"] = "sleeping" =>
        open /\ left = (IF age < Duration THEN Duration - age ELSE 0)

(* Once the timer has begun to close the shift no registration gets behind it: *)
(* the shift it closed stays closed (what the flag is for, lines 257 to 259). *)
ClosingFence ==
    /\ pc["timer"] = "done" => ~open
    /\ pc["timer"] = "closing" =>
           \A i, j \in DOMAIN jobs :
               i < j /\ jobs[i].task = "timer" => jobs[j].op # "register"

(* "Shift open, with a timer that closes it" (line 251): in the open state a *)
(* shift that is open has a timer which will close it, and in the closed state no *)
(* shift is open but for a registration under way, on a device that obeys.        *)
OpenShiftIsTimed ==
    calm /\ open =>
        \/ state = "undefined"
        \/ state = "open" /\ pc["timer"] \in {"starting", "sleeping", "closing"}
        \/ state = "closed" /\ \E r \in Receipts : pc[r] \in {"first", "rereading"}

(* Whatever the device refuses and whoever closes the shift by hand, the waits  *)
(* of the undefined state and for the worker end, as long as the shift could be *)
(* read at the start and the timer has not begun to close it. *)
AnsweredUntilClosing ==
    \A r \in Receipts : Busy(r) ~> ~Busy(r) \/ closing \/ pc["boot"] = "failed"

(* A registration that comes while the shift is being closed waits for that and *)
(* is then delegated to the next state (lines 277 and 278), so it is answered. *)
EveryCallReturns == \A r \in Receipts : Busy(r) ~> ~Busy(r)

(* A shift that is open in the open state gets closed, without anybody's help: *)
(* its timer fires and does not cancel itself (lines 257 to 259). *)
EveryTimelyShiftCloses == (calm /\ state = "open" /\ open) ~> ~open

(* The same of every shift, whatever its age when the server reads it. *)
EveryShiftCloses == (state = "open" /\ open) ~> ~open
=============================================================================
