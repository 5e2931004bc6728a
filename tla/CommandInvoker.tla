--------------------------- MODULE CommandInvoker ---------------------------
(***************************************************************************)
(* The command queue of one service group: class Invoker of                *)
(* hardware/fiscal_device_group_managers.py with the operations of         *)
(* DeviceGroupManager on that group's device (process_command, pause,      *)
(* resume, replace, detach).                                               *)
(*                                                                         *)
(* Every action runs from one await of a coroutine to its next one: the    *)
(* event loop switches coroutines nowhere else.  The _execute tasks carry  *)
(* no data, so they are counted: those created and not started (ready),    *)
(* those queued on the lock (Executor in waiters), those blocked in        *)
(* PriorityQueue.get (getters), and those executing (a command that runs). *)
(***************************************************************************)
EXTENDS Naturals, Sequences, FiniteSets

CONSTANTS Commands,      \* commands clients may put
          Priority,      \* AbstractCommand._priority of each
          Pausers,       \* callers of pause_command_execution
          FirstAdapter,  \* the adapter add_device attached
          NewAdapters,   \* adapters that replace_device may plug in
          Executor       \* what an _execute task is called among the waiters

ASSUME CommandsAssumption == /\ IsFiniteSet(Commands)
                             /\ Priority \in [Commands -> Nat]
ASSUME AdaptersAssumption == FirstAdapter \notin NewAdapters
ASSUME WaitersAssumption ==
    /\ Executor \notin Pausers
    /\ Executor \notin NewAdapters
    /\ Pausers \cap NewAdapters = {}

Adapters == NewAdapters \cup {FirstAdapter}

(* Who may queue for the lock: executors, callers of pause, and the calls of *)
(* replace_device, each named by its adapter. *)
Waiter == {Executor} \cup Pausers \cup NewAdapters

VARIABLES
    status, stamp, clock,   \* the commands, as in SerialQueue
    ready,                  \* _execute tasks created and not started
    getters,                \* _execute tasks blocked in get, holding the lock
    unfinished,             \* the queue's _unfinished_tasks, which join awaits
    locked, waiters,        \* asyncio.Lock: its flag and its FIFO of waiters
    frAdapter,              \* Invoker._fr_adapter
    ranOn,                  \* ranOn[c]: the adapter c was handed
    pauser,                 \* pauser[p]: "idle", "waiting" or "holding"
    swap,                   \* swap[a]: how far replace_device(a) has come
    attachment,             \* "attached", "joining" (detach waits), "detached"
    device,                 \* the group's entry in _fiscal_devices; once popped,
                            \* the adapter that detach_device is to close
    closed                  \* adapters whose close has been asked for

queueVars == <<status, stamp, clock, ranOn, unfinished>>
lockVars == <<ready, getters, locked, waiters>>
deviceVars == <<frAdapter, swap, attachment, device, closed>>
vars == <<queueVars, lockVars, pauser, deviceVars>>

Queued == {c \in Commands : status[c] = "queued"}
Running == {c \in Commands : status[c] = "running"}

(* AbstractCommand.__lt__, the order of the heap inside PriorityQueue. *)
PrecedesByTime(c, d) == stamp[c] < stamp[d]
Precedes(c, d) == \/ Priority[c] < Priority[d]
                  \/ Priority[c] = Priority[d] /\ stamp[c] < stamp[d]

(* What get_nowait may return: equal priority and time leave the heap a choice. *)
MostUrgent == {c \in Queued : \A d \in Queued : ~Precedes(d, c)}

(* Lock.acquire succeeds at once only when nobody is in front. *)
LockFreeUnchecked == waiters = <<>>
LockFree == ~locked /\ waiters = <<>>

(* task_done, whatever became of the command. *)
TaskDoneTwice == unfinished' = unfinished - 2
TaskDoneOnSuccess == unfinished' \in {unfinished - 1, unfinished}
TaskDone == unfinished' = unfinished - 1

(* An executor that ends with the heap not empty creates its successor. *)
NoSuccessor == ready' = ready
Successor == ready' = IF Queued # {} THEN ready + 1 ELSE ready

Init ==
    /\ status = [c \in Commands |-> "new"]
    /\ stamp = [c \in Commands |-> 0]
    /\ clock = 0
    /\ ranOn = [c \in Commands |-> FirstAdapter]
    /\ unfinished = 0
    /\ ready = 0
    /\ getters = 0
    /\ locked = FALSE
    /\ waiters = <<>>
    /\ pauser = [p \in Pausers |-> "idle"]
    /\ frAdapter = FirstAdapter
    /\ swap = [a \in NewAdapters |-> "new"]
    /\ attachment = "attached"
    /\ device = FirstAdapter
    /\ closed = {}

-----------------------------------------------------------------------------
(* Commands and the tasks that execute them *)

(* process_command: the command, stamped when it was built in the same step, *)
(* joins the heap; only the one that finds the heap empty creates an executor. *)
(* Once the invoker is popped the call raises KeyError and changes nothing. *)
Put(c) ==
    /\ attachment = "attached"
    /\ status[c] = "new"
    /\ clock' \in {clock, clock + 1}
    /\ stamp' = [stamp EXCEPT ![c] = clock']
    /\ status' = [status EXCEPT ![c] = "queued"]
    /\ unfinished' = unfinished + 1
    /\ ready' = IF Queued = {} THEN ready + 1 ELSE ready
    /\ UNCHANGED <<ranOn, getters, locked, waiters, pauser, deviceVars>>

(* The holder of the lock takes c from the heap and calls its execute. *)
Begin(c) ==
    /\ c \in MostUrgent
    /\ status' = [status EXCEPT ![c] = "running"]
    /\ ranOn' = [ranOn EXCEPT ![c] = frAdapter]
    /\ UNCHANGED <<stamp, clock, unfinished>>

(* An executor that has just got the lock: it executes the most urgent command *)
(* or, the heap being empty, stays in get and keeps the lock. *)
EnterAsExecutor ==
    /\ locked' = TRUE
    /\ \/ \E c \in Commands : Begin(c) /\ UNCHANGED getters
       \/ /\ Queued = {}
          /\ getters' = getters + 1
          /\ UNCHANGED queueVars

(* A created _execute task runs for the first time. *)
StartExecutor ==
    /\ ready > 0
    /\ ready' = ready - 1
    /\ \/ LockFree /\ EnterAsExecutor /\ UNCHANGED waiters
       \/ /\ ~LockFree
          /\ waiters' = Append(waiters, Executor)
          /\ UNCHANGED <<locked, getters, queueVars>>
    /\ UNCHANGED <<pauser, deviceVars>>

(* The task that waited in get is woken by a put. *)
Wake ==
    /\ getters > 0
    /\ getters' = getters - 1
    /\ \E c \in Commands : Begin(c)
    /\ UNCHANGED <<ready, locked, waiters, pauser, deviceVars>>

(* execute returned or raised (the exception is logged): task_done, release, *)
(* and a new executor when the heap is not empty. *)
Finish(c) ==
    /\ status[c] = "running"
    /\ status' = [status EXCEPT ![c] = "done"]
    /\ TaskDone
    /\ locked' = FALSE
    /\ Successor
    /\ UNCHANGED <<stamp, clock, ranOn, getters, waiters, pauser, deviceVars>>

-----------------------------------------------------------------------------
(* Pausing: the caller of pause keeps the lock until it calls resume *)

Pause(p) ==
    /\ attachment = "attached"
    /\ pauser[p] = "idle"
    /\ \/ /\ LockFree
          /\ locked' = TRUE
          /\ pauser' = [pauser EXCEPT ![p] = "holding"]
          /\ UNCHANGED waiters
       \/ /\ ~LockFree
          /\ waiters' = Append(waiters, p)
          /\ pauser' = [pauser EXCEPT ![p] = "waiting"]
          /\ UNCHANGED locked
    /\ UNCHANGED <<ready, getters, queueVars, deviceVars>>

(* resume_command_execution releases the lock (and then raises TypeError: it *)
(* awaits None).  It finds no invoker, and releases nothing, after a detach. *)
(* That only the caller that paused resumes is assumed of the callers. *)
Resume(p) ==
    /\ attachment = "attached"
    /\ pauser[p] = "holding"
    /\ pauser' = [pauser EXCEPT ![p] = "idle"]
    /\ locked' = FALSE
    /\ UNCHANGED <<ready, getters, waiters, queueVars, deviceVars>>

-----------------------------------------------------------------------------
(* The adapter: replacing and detaching it *)

(* set_fr_adapter with the lock taken and given back in one step, and what *)
(* replace_device does next without awaiting: the entry is swapped and the old *)
(* adapter closed, or KeyError because the entry has been popped meanwhile. *)
PlugInEntryKept(a) ==
    /\ frAdapter' = a
    /\ closed' = closed \cup {device}
    /\ swap' = [swap EXCEPT ![a] = "done"]
    /\ UNCHANGED <<device, attachment>>

PlugIn(a) ==
    /\ frAdapter' = a
    /\ \/ /\ attachment = "attached"
          /\ device' = a
          /\ closed' = closed \cup {device}
          /\ swap' = [swap EXCEPT ![a] = "done"]
       \/ /\ attachment # "attached"
          /\ swap' = [swap EXCEPT ![a] = "lost"]
          /\ UNCHANGED <<device, closed>>
    /\ UNCHANGED attachment

Replace(a) ==
    /\ attachment = "attached"
    /\ swap[a] = "new"
    /\ \/ LockFree /\ PlugIn(a) /\ UNCHANGED waiters
       \/ /\ ~LockFree
          /\ waiters' = Append(waiters, a)
          /\ swap' = [swap EXCEPT ![a] = "waiting"]
          /\ UNCHANGED <<frAdapter, attachment, device, closed>>
    /\ UNCHANGED <<ready, getters, locked, pauser, queueVars>>

CloseAtOnce ==
    /\ attachment' = "detached"
    /\ closed' = closed \cup {device}

(* The end of detach_device, once join has returned. *)
CloseDetached ==
    /\ unfinished = 0
    /\ attachment' = "detached"
    /\ closed' = closed \cup {device}

(* detach_device pops the device and the invoker, then awaits the join of the *)
(* queue, which returns at once when nothing is unfinished. *)
Detach ==
    /\ attachment = "attached"
    /\ \/ CloseDetached
       \/ unfinished > 0 /\ attachment' = "joining" /\ UNCHANGED closed
    /\ UNCHANGED <<frAdapter, swap, device, queueVars, lockVars, pauser>>

DetachJoined ==
    /\ attachment = "joining"
    /\ CloseDetached
    /\ UNCHANGED <<frAdapter, swap, device, queueVars, lockVars, pauser>>

-----------------------------------------------------------------------------
(* asyncio.Lock: a release wakes the first waiter, which takes the lock when *)
(* the loop comes to it; until then newcomers queue behind it (LockFree). *)
Grant ==
    /\ ~locked
    /\ waiters # <<>>
    /\ waiters' = Tail(waiters)
    /\ \/ /\ Head(waiters) = Executor
          /\ EnterAsExecutor
          /\ UNCHANGED <<pauser, deviceVars>>
       \/ /\ Head(waiters) \in Pausers
          /\ locked' = TRUE
          /\ pauser' = [pauser EXCEPT ![Head(waiters)] = "holding"]
          /\ UNCHANGED <<getters, queueVars, deviceVars>>
       \/ /\ Head(waiters) \in NewAdapters
          /\ PlugIn(Head(waiters))
          /\ UNCHANGED <<locked, getters, queueVars, pauser>>
    /\ UNCHANGED ready

(* What the event loop and the device do by themselves, and what callers do. *)
LoopStep == StartExecutor \/ Wake \/ Grant \/ DetachJoined
Internal == LoopStep \/ \E c \in Commands : Finish(c)
Users == \/ \E c \in Commands : Put(c)
         \/ \E p \in Pausers : Pause(p) \/ Resume(p)
         \/ \E a \in NewAdapters : Replace(a)

Next == Internal \/ Users \/ Detach

Spec == Init /\ [][Next]_vars

(* The loop runs what is ready; a command's execution ends (what the device *)
(* layer has to guarantee); who paused resumes.  Nobody has to call anything. *)
Fairness == /\ WF_vars(StartExecutor)
            /\ WF_vars(Wake)
            /\ WF_vars(Grant)
            /\ WF_vars(DetachJoined)
            /\ \A c \in Commands : WF_vars(Finish(c))
            /\ \A p \in Pausers : WF_vars(Resume(p))

FairSpec == Spec /\ Fairness

-----------------------------------------------------------------------------
(* Properties *)

TypeOK ==
    /\ status \in [Commands -> {"new", "queued", "running", "done"}]
    /\ stamp \in [Commands -> Nat]
    /\ clock \in Nat
    /\ ranOn \in [Commands -> Adapters]
    /\ unfinished \in Nat
    /\ ready \in Nat
    /\ getters \in Nat
    /\ locked \in BOOLEAN
    /\ waiters \in Seq(Waiter)
    /\ pauser \in [Pausers -> {"idle", "waiting", "holding"}]
    /\ frAdapter \in Adapters
    /\ swap \in [NewAdapters -> {"new", "waiting", "done", "lost"}]
    /\ attachment \in {"attached", "joining", "detached"}
    /\ device \in Adapters
    /\ closed \subseteq Adapters

(* Everyone inside the lock: running commands, tasks in get, paused callers. *)
Occupants == {<<"runs", c>> : c \in Running}
        \cup {<<"gets", i>> : i \in 1..getters}
        \cup {<<"pauses", p>> : p \in {q \in Pausers : pauser[q] = "holding"}}

(* A command runs alone: no other one runs, no other executor waits in the *)
(* queue with the lock, and no caller that paused execution is inside. *)
MutualExclusion == \A x, y \in Occupants : x = y

(* put creates a task only for the first waiting command and _execute a new *)
(* one only while commands wait: still no queued command is left without a *)
(* task that will, or whose successor will, take it. *)
NoStrandedCommand ==
    Queued # {} => \/ ready > 0 \/ getters > 0 \/ Running # {}
                   \/ \E i \in DOMAIN waiters : waiters[i] = Executor

(* What a detach waits for is exactly the commands accepted and not done, so *)
(* none of them is dropped by it (the purpose of wait_all_executed). *)
UnfinishedCounted == unfinished = Cardinality(Queued \cup Running)

(* Replace and detach close an adapter only when no command runs on it, and *)
(* what is queued will be handed one that is open. *)
NoCommandOnClosedAdapter ==
    /\ \A c \in Running : ranOn[c] \notin closed
    /\ Queued # {} => frAdapter \notin closed

(* While a device is attached, the invoker uses the one the manager knows. *)
InvokerUsesAttached == attachment = "attached" => frAdapter = device

SQ == INSTANCE SerialQueue

(* Seen from those who put commands, the invoker is the queue that SerialQueue  *)
(* describes: one command at a time, the most urgent first, each of them once. *)
ServesInOrder == SQ!Spec

(* A device that is detached while its commands are paused: nobody can resume,  *)
(* as the manager has dropped the invoker. *)
Stuck == attachment # "attached" /\ \E p \in Pausers : pauser[p] = "holding"

(* No command starves, although executors pile up behind the lock and callers    *)
(* pause, resume and replace for ever: what was put is served, unless stuck. *)
ServesEverything == \A c \in Commands : status[c] = "queued" ~> status[c] = "done" \/ Stuck

(* A detach that has begun ends, with the adapter closed, unless stuck. *)
DetachEnds ==
    (attachment = "joining") ~> \/ attachment = "detached" /\ device \in closed
                                \/ Stuck
=============================================================================
