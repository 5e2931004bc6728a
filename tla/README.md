# Cr_server: models, checks and proofs

Cr_server registers fiscal receipts on cash registers. Clients post receipts to a REST
application; each *service group* has at most one cash register, whose commands run one after
another; an admin application starts and stops the devices and manages users. The program is one
asyncio process: coroutines are switched at an `await` and nowhere else, and calls to a device
run in a thread pool of one worker per device. This directory holds TLA+ modules of its core,
TLC configurations that check them on small instances, and theorems that TLAPS has checked for
every value of the constants. `PROJECT.json` maps each definition to its source lines.

## 1. The system

| component (under `src/`) | state | operations | modelled by |
|---|---|---|---|
| command invoker: `hardware/fiscal_device_group_managers.py` (`Invoker`, and the manager's operations on one group), order in `core/commands.py` | priority queue with its count of unfinished commands, `asyncio.Lock`, adapter in use | `put`, `_execute`, `pause`, `resume`, `set_fr_adapter`, `replace_device`, `detach_device` | `CommandInvoker`, promise: `SerialQueue` |
| reboot of a device: the procedure at the end of `apps/admin/view.py` | its progress | pause, reboot, close, replace, resume | `RebootProcedure` |
| registrator and shift: `hardware/adapters/base.py`, device of `adapters/test/adapter.py` | shift state with its timer and flag, last reading, the worker's jobs | `register_receipt`, `open_shift`, `close_shift`, `change_state`, the timer | `ShiftRegistrator` |
| device groups: `DeviceGroupManager`, `hardware/services.py`, `hardware/factories.py`, registrator storages, service group storage and facade, handlers of `apps/admin/view.py` | attached adapters, invokers, open connections, stored groups and registrators | make, change, run, stop and delete a group, close the manager | `DeviceGroups` |
| way of a receipt: `apps/service_group/views.py` and `app.py`, `receipt/commands.py`, `events.py`, `services.py`, `receipt_read/`, `core/events/` | read model, last id, event storage, queue | POST and GET, event handlers, command, restart | `ReceiptFlow` |
| receipt domain: `receipt/serializers.py`, `receipt/domain/`, what `adapters/atol/adapter.py` tells the driver | the receipt being made | check a form, make a receipt of it, round, sum up, tell it | `ReceiptIntake` |
| atol adapter: `hardware/adapters/atol/adapter.py` with the driver's wrapper `libfptr10.py` | the device's open document, its shift | `register_receipt`, `open_shift`, `close_shift`, `get_shift_info`, call by call | `AtolDocument`, promise: `ReceiptDevice` |
| access: `access_control/`, middlewares, user handlers of `apps/admin/view.py` | users, policies | create, change and delete a user, set a group's users, delete a group's policies, let a service client in | `AccessControl` |
| CSRF, configuration, database proxies | session tokens, first user, transactions | | as parts of `AccessControl` |
| templates, loaders, drivers' settings, start-up | none of the program's own | | not modelled: section 7 |

How they interact. A POST numbers a receipt, awaits the event dispatcher (whose subscribers save
the record) and puts a command to the invoker of the group's device. The invoker hands the
command the adapter under its lock. The command awaits the registrator, whose shift state decides
whether to register now; the registrator submits a job to the worker; the command then announces
the outcome as an event and the read model is updated. Meanwhile administrators attach and detach
devices and change groups, users and policies, and the shift's timer submits jobs of its own.

What is hard here: interleavings at awaits (a check that is stale when it is used, a chain of
executors in which each starts the next), locks kept across awaits, a timer that races with
registrations, calls whose effect happened although they report failure, cancelled handlers,
restarts with everything but MongoDB in memory. `PROJECT.json` lists these places as hazards with
the properties that watch them.

What makes each component correct:

- invoker: commands run alone, in order, on an open adapter, and each accepted one is served;
- registrator: what a call reports is what the device did (one case excepted: section 4); every
  open shift gets closed; nothing is registered behind a closing; every call returns;
- groups: one device per group, no open adapter that nobody can close, requests that end;
- flow: recorded before it is registered, truthful events, one number for one receipt, an outcome
  for whatever was accepted;
- intake: a form is refused for a reason it has, its lines reach the device unchanged, and the sum
  is what the device makes out itself;
- atol adapter: a document on paper is exactly one receipt, and outcomes are told truly;
- access: rights come from requests that asked for them and from nothing else, whatever meets or
  fails; who comes later never has the rights of who was there before.

## 2. The modules and the code

An action is the code from one `await` to the next, with everything it changes. Data the
properties do not tell apart (names, sums, texts, fiscal signs) are left out.

**`CommandInvoker`**. The `_execute` tasks carry no data, so they are counted: created (`ready`),
queued for the lock (the value `Executor` in `waiters`), blocked in `PriorityQueue.get`
(`getters`), or running a command. `locked` and `waiters` are asyncio's lock, whose release wakes
the first waiter while newcomers queue behind it (`Grant`, `LockFree`). `unfinished` is what
`join()` awaits. `Put`, `Finish`, `Pause`, `Resume`, `Replace` (with `PlugIn`, its part under the
lock), `Detach` and `DetachJoined` are the methods. Assumed: only a caller that has paused
resumes, and commands are put with non-decreasing creation times. One attachment is modelled; a
`replace_device` that outlives it ends in `KeyError` ("lost").
`SerialQueue` says the same to the client: no lock, no tasks, one command at a time, the most
urgent first, each once. Its variables are three of the invoker's, which is the refinement mapping.

**`RebootProcedure`** runs the reboot of `view.py`, lines 385 to 396, against the invoker. That
code sits in a string literal, and it is the only caller of `pause_command_execution` and
`replace_device` in the repository. The failure of creating the new adapter is left out.

**`ShiftRegistrator`**. Tasks are the constructor's (`boot`), the timer, receipts and callers who
open or close the shift; `pc` says what each awaits. Jobs go through the worker in order; what it
answers waits in `reply` until the loop resumes the task. `Tick` is time for the device and the
server's counter alike. Three facts of the code shape the model: nothing calls `change_state` in
the open state; the sleep's result TRUE is the flag `_closing_task_executing`; a closing timer with
no time left does not sleep and so never sets the flag. A registration that awaits
`_state_changed_future` ("awaitState") therefore has no step left. `ClosedState.open_shift` calls
itself until Python gives up (`DelegateOpen`). `calm`, fixed at the start, makes a device that
obeys, a shift that is read in time and nobody who closes by hand. Left out: `get_shift_info`
(which hands the executor the result of a call) and the date calls (no decision depends on them),
the adapter's `close`, which a sleeping timer outlives.

**`DeviceGroups`**. A request is a record `[kind, group, at, held, todo]`; an adapter bears the name
of the request that made it, and `driver` is the driver the group had then. `Handle` is the part of
a handler before its first await, then `Connected`, `Identified`, `Joined` and `Detached` follow;
`Close` is the manager's `close()`. `AddGroup` and `UpdateGroup` are `post_service_group`, which
awaits nothing that suspends; a change never changes whether a group is enabled, as the setter of
`is_enabled` assigns to a local name (`Updated`). `Disconnect` is aiohttp 3.6 cancelling the handler
of a client that has gone (while it creates a device the cancellation becomes a
`DeviceCreationError`, services.py, 46, and ends the handler as well). The storages are those in
memory, which never suspend. `Storable` and `ident` are what the registrator storage does to the
device's data (see section 6). An invoker is known here by what `CommandInvoker` establishes: it
serves what was put, as long as each command comes to an end, and `join()` returns when nothing is
left. `Hang` is a command that never ends: a registration after the automatic closing, or on a shift
that could not be read (base.py, 280 and 306). `alone`, fixed at the start, makes one administrator,
who waits for each answer; devices, clients and commands may fail all the same. The storages in a
database and `replace_device` (not called by any view) are left out.

**`ReceiptFlow`**. `durable` picks the read model: in memory, or MongoDB, whose calls suspend, may
fail and survive a restart. `Post`, `Saved` and `Disconnect` are the handler, `Execute` and `Report`
the command, `Update` and `HandleRegistered` the subscribers. When the client goes away during the
saving, the cancellation ends in the dispatcher: it catches `Exception`, which `CancelledError` is in
Python 3.7, the version the requirements are for. So `Disconnect` goes on and puts the command, and
the record comes late (`Land`) or never. `Hang` is a registration that never ends; its invoker comes
to no other command. The event storage is in
memory in both cases, as the repository has no other. Events and journal are counts and a set:
their order tells nothing the properties ask. `Shown` is what `get_receipt` answers: it looks a
record up by its id and its `company_id`, which no saved record has, so with MongoDB it finds none.
`met` is history for the properties only. Commands
of one group have one priority and are served in the order they were made.

**`ReceiptIntake`**. One behaviour is one form: `CheckForm` is the serializer, `Create`,
`SetCommodity`, ..., `SetCorrection` are the factory in its order, `Tell` is what
`_register_receipt` gives the driver. Amounts are whole numbers, thousandths in the form and cents
after rounding; `HalfUp` is `Decimal.quantize`. `Capacity` is the first number of too many digits for
the decimal context, 10^28 in the code: a rounding beyond it is an `InvalidOperation` (`SumFits`,
`QuantityFits`, `CostFits`), which only the amounts' own classes turn into a `ValueError`; a sum beyond
it loses its last digits (`Plus`, `Rough`). NaN passes every check of the code and stays NaN. Nulls get
through the form as None. `Announce` is `ReceiptCreated`, which asks every line for its tax after the
receipt has got its number. A `ValueError` is an answer 400 ("refused"), every
other exception one of 500 ("crashed"). `WellFormed` and `Unforeseen` are the reference: they say
of a whole form what the pipeline finds out part by part. Two things are simplified: a product of
more than 28 digits is itself rounded before `quantize`, and the adapter passes numbers to the driver
through `float()` (adapter.py, 159, 214, 227 and 228), taken as the identity, which it is for amounts of
up to 15 digits.

**`AtolDocument`**. Each driver call is a step with its return code; parameters and queries, which
have none, may raise. The driver is external and modelled by what the adapter relies on: one open
document, `checkDocumentClosed` negative while it is open, a call refused or its answer lost at
will (`Call`), a device out of reach at any time. A document survives loss of reach. The calls for
the shift are the second half: `OpenShift`, `Report` with `Poll`, `ReadShift`. `ReceiptDevice` is
what other modules take a registration for: issued once at most, told truly, told as failed after
issuing only when answers can be lost. It is the promise of three levels, each for the one above:
`AtolDocument` for one adapter, `ShiftRegistrator` for the registrator over it, `ReceiptFlow` for the
way of a receipt from its request to the announced outcome.

**`AccessControl`**. A request of an administrator is a job (`create`, `change`, `delete` a user,
`allow` users to a group, `remove` a group's policies); one of a service client is `use`. `at` is
the storage call it makes next. With `sql` each call suspends and is a transaction of its own; in
memory nothing suspends (the body of a request has been read by `csrf_middleware`), which `turn`
says. `mixed` is history: the requests that met another one. `Cut` ends a handler at its await,
because its client or the database has gone. py_abac is external: a policy allows what its targets,
subject, resource and actions say. A policy is `<<user, resource>>`, its uid in the code. `OtherNames`
are ids that a path spells otherwise than the server does, such as "02", and `IdOf` is `int()`: the
handlers look for the user by `int()`, for her policies by the string of the path (view.py, 314 and 315,
338 and 341, 368 and 371), while removing a group turns its id into a number and back (240). All
passwords have one hash (section 6), so authentication asks for the login only.

## 3. The runs

State counts are distinct states; each run takes less than three minutes on two cores.

| run | states | what it shows |
|---|---|---|
| `invoker` | 96,257 | every caller interleaved: exclusion, order, open adapter, nothing stranded, exact count, refinement of `SerialQueue`; with fairness, all is served and a detach ends |
| `shift_all_callers` | 308,517 | all refusals, two who open or close, three receipts: outcomes true but for an unreadable shift, timers fit their shift, no registration behind the closing, calls answered until the timer fires; on calm days each open shift is timed and closes |
| `groups_all_callers` | 749,898 | three requests on two groups with both drivers, groups made and changed, all failures, commands that never end: commands on open adapters, listed devices open and nobody's to close, nothing evicted, leaks only by failed requests, every request ends unless it waits for such a command; for one administrator, with the same failures, no second adapter on a device but one left behind, and no device that cannot be stopped |
| `flow` | 83,883 | both read models, all faults, two restarts, two devices: what is queued or registered is on record but where its saving failed or was cancelled, truthful events, no record overwritten, an outcome for what was accepted unless a registration hangs |
| `intake` | 15,683 | forms wrong in every part, nulls, NaN and amounts at every edge of rounding and of the decimal context: each gets the verdict of the reference, lines and payments arrive as asked, the sum is true |
| `atol_receipts` | 167,822 | normal and test mode, answers lost or not, three receipts and a call for the shift: whole documents only, refinement of `ReceiptDevice`, every call told |
| `access` | 3,095,884 | three requests, in memory and in a database, cut off anywhere, ids spelled in two ways: nobody inherits rights, no right nobody asked for, success means done, to the user by id and to the policies by name |
| `reboot_procedure`, `shift_after_auto_close`, `shift_overdue`, `groups_close`, `flow_success` | | violated: section 6 |

Bounds, and why they are enough.

- `invoker`: two commands of one priority and an urgent one, so that both halves of the order
  matter; one pauser and one replacement are enough for each kind of waiter to meet the others in
  the lock's queue. The proofs cover any number.
- shift: `Duration` 2 of at most `MaxAge` 3 ticks: shifts that are new, half over, due and
  overdue, by what `BootAges` starts from. Three receipts: one before, one during and one after a
  closing.
- groups: three requests are a run, a stop or deletion that meets it, and a third that meets both
  (two runs and a close, a stop, a deletion and a run); two groups, one of them made later, are
  enough for an id that might be given twice. `groups_close` needs five: three runs, a stop and the
  close. `MaxQueue` 1 bounds the commands of one queue: a detach waits for none or some. The
  theorems hold for any bounds.
- flow: two receipts and two restarts let an unsaved number, a late one and a saved one meet a new one
  (a start from 0 instead of the last id is caught). `MaxDevices` 2 lets a device be stopped with
  commands left, or with one that hangs, while the next one serves.
- intake: up to three lines and two payments, so that something is wrong in a first, a later and no
  line; lines with amounts on both sides of a half, at each number of places, and negative. A
  `Capacity` of five digits makes each overflow a matter of one or two lines. The theorems hold for any
  forms and any capacity.
- atol: two goods and a payment are enough for a failure before, between and after lines; three
  receipts for a document left open twice. `Polls` is the code's 10.
- access: an administrator, a second one and a user to come; one group; lists with a user twice and
  with one who does not exist; one user and one group with a second spelling. Three requests: one
  that meets another, and one after both. The theorems hold for any number.

All runs but `intake` set `CHECK_DEADLOCK FALSE`: receipts, requests and commands are finite sets, so every
behaviour ends when they are used up, and nobody is obliged to make requests. Where ending early
would be an error, a liveness property says so.

## 4. Fairness

Only what the code or its environment guarantees is fair; nobody has to call anything.

- The event loop resumes what is ready: `StartExecutor`, `Wake`, `Grant`, `DetachJoined`; the
  steps of each task in `ShiftRegistrator`; `Progress` of each request; `Saved` and `Report`.
- Devices and databases answer, with success or without: `Work`, `Connected`, the driver's calls. A
  device that never answers blocks its worker, and no timeout exists.
- Commands end: `Finish` in `CommandInvoker`, `Serve` in `DeviceGroups`, `Execute` in `ReceiptFlow`.
  This is what an invoker needs of the registrator, and the registrator does not always keep it: a
  registration after the automatic closing, or on a shift that could not be read, waits for ever
  (`shift_after_auto_close`). `DeviceGroups` and `ReceiptFlow` have such commands (`Hang`): from then on
  nothing is fair for that adapter, and `EveryRequestAnswered` and `AcceptedIsProcessed` except who waits
  for it (`WaitsForHung`, `Stuck`). `ServesEverything` and `DetachEnds` are the invoker's own part, for
  commands that end.
- Time passes while a shift is open: `Tick`.
- Who has paused resumes (`Resume`), as long as the device is attached; after a detach the manager
  has dropped the invoker. That state is `Stuck`, which `ServesEverything` and `DetachEnds` except
  because nothing in the code ends it.

`EveryTimelyShiftCloses` and `OpenShiftIsTimed` speak of `calm` behaviours, `OneAdapterPerDevice` and
`DevicesCanBeStopped` of those with one administrator (`alone`), because the code keeps what they say
only then; what becomes of it otherwise is in section 6. Both are chosen at the start, both choices are
in one run, and the same actions are checked for both; `alone` switches no failure off.

`AnsweredUntilClosing` excepts two states from which the code has no way out: the timer has begun to
close the shift (section 6), and the first reading of the shift failed, which nothing repeats.
`OutcomeTrue` has one exception: the first receipt of a shift raises although it is registered when
the shift cannot be read after it ("unread", base.py, 327 to 329); `EventsTellTruth` has the same
("reread"). `RecordedFirst` excepts receipts whose saving failed or was cancelled, and then asks
that their number is no other receipt's.

## 5. What is proved

`CommandInvokerProofs`, from the assumptions that commands are finite, priorities natural numbers
and names distinct. The inductive invariant is

    IInv == Counted /\ OneInside /\ NoStrandedCommand /\ AdapterInv

- `Counted` is the type invariant with `unfinished` equal to the number of queued and running
  commands. The type needs it: without it `task_done` could go below zero (`TypeCorrect`,
  `CountIsTrue`).
- `OneInside` says that nobody is inside an unlocked lock, and that a running command, an executor
  in `get` and a pausing caller exclude each other. Exclusion alone is not inductive, because an unlocked lock
  with somebody inside would admit a second one (`Exclusion`).
- `NoStrandedCommand` is inductive over `OneInside`: an executor that leaves makes a successor, and
  a lock that is given back goes to a waiter (`NothingStranded`).
- `AdapterInv` ties `frAdapter`, `device`, `closed` and the progress of replacements: an adapter
  in use is not closed, a waiting or new one neither, a detach closes only with nothing unfinished
  (`AdapterStaysOpen`, `AdapterAgreed`).

`Refinement` maps each step to a step of `SerialQueue` or a stutter: only `Put`, the entry of an
executor with a command, and `Finish` change what `SerialQueue` sees.

`StuckForGood` justifies what the liveness properties except: a device that was detached while a
caller has paused stays so (`StaysStuck`), as nothing gives back the lock of a dropped invoker.

`RebootProcedureProofs`, for a caller and an adapter that the invoker knows (`Known`). The invariant
has two halves: `Before` the device is closed, the invoker is as ever and nobody waits to plug in the
new adapter; `After` it, the procedure has the lock and its adapter waits for that very lock. Nobody
else can give it back (`NobodyElse`), so the last line is never reached (`RebootNeverEnds`) and no
command runs (`NothingServedAfterClose`).

`DeviceGroupsProofs`, for any groups, drivers, requests, faults and queue bound, `TypeCorrect` and

    Inv == ListedInv /\ ReleasingInv /\ AloneInv /\ MakingInv /\ QueuedInv

A listed adapter is open and was made for its group; one that is being released is open, off the
list and, once joined, without commands; two requests never release the same one; a request that
makes an adapter holds none; commands wait only on open adapters. `AloneInv` is the part that makes
the rest inductive: without it one request could close what another still waits for. From it follow
`CommandsServedOpen`, `ListedIsOpen` and, with `IdsInv` (devices stand, and are on their way, at ids
that were given), `NothingEvicted`: a new group finds no device at its id, though devices outlive
their groups.

What leaks and what does not, on top of it:

- `OwnersInv` names for each open adapter the one who answers for it: the list, the request that has
  taken it off, the request that makes it, or one that failed or was cancelled. Its inductive part is
  about what a handler does with an adapter between two awaits (`OwnersFrame`); `OnlyErrorsLeak`
  follows.
- `SoloInv == OneAtATime /\ EnabledInv /\ RunInv /\ EmptiedInv` is what one administrator at a time can
  rely on, whatever fails (`SoloInvariance`): a request that makes a device found its group empty and
  enabled, one that releases a device has emptied the entry. `ListedCanBeStopped` follows from it and,
  with `OwnersInv`, `OneWorkerPerDevice`; neither can be had from their own statements, which say nothing
  of a request at its await.

`AccessControlProofs`, for any requests, methods, jobs and faults, both storages at once:

    Inv == JobInv /\ SubjectInv /\ ListInv /\ RightsInv

A handler makes the calls of its own kind of job; whoever a policy is about to be set for has or had
an id; what is left of a list is of the list, and a user who had access and is on the list is still
ahead in it (`ListInv`, which keeps `Withdraw` from the users of the list); policies are for ids that
were given. `RightsInv` with ids that only grow gives `NoInheritance`, the rest `NoOtherRights`.

`SuccessIsDone` needs to know what a handler has done by the call it makes next (`SoFar`), for a
handler that has met no other and is hence the only one under way (`AloneInv`). The list of users is
the hard part: who had access, who is on the list and who is still ahead in it bound, at each call, who
has access now. Names are any at all: `GivenNames` keeps those that policies are made out to among the
spellings of ids that were given.

`ReceiptIntakeProofs`, for any forms, of any length and with any amounts:

    Inv == TypeInv /\ LinesInv /\ PaymentsInv /\ TextsInv /\ EndInv

What each part that is behind has made sure of: the lines made so far are those of the form in their
order, and every part passed was well formed. `VerdictIsFair` and `NothingIsLost` follow, the latter
with lemmas on rounding (`HalfUpNearest`, `CentsNear`, `QuantityNear`).

`SumIsRight` is for forms of any length. The sum of the reference is a fold over the lines; it is
shown to be the end of a function of running totals (`SumBySteps`), in whatever order the fold takes
the lines (`AnyOrder`). `TotalOf` relates the receipt's total to them: it is the last one, or NaN,
or rough once one of them was more than the context holds (`TotalOn`). The induction on the number
of lines is one on sets: the least number for which a statement fails is had from `WFMin`.
`TotalInv` has the receipt keep the same running totals, and `CostsNear` bounds what each line adds
by its rounding.

`AtolDocumentProofs`, for any receipts, shift calls, numbers of goods and payments, both modes, with
`NoneIsNoDocument` (no document open is not a sequence of lines):

    Inv == CallInv /\ DocInv /\ PaperInv /\ OutcomeInv /\ OnceInv

While lines are told, the open document has exactly those of the current receipt up to the place the
code has come to (`DocInv`): a cancelled document of an earlier receipt, or none, is where it
started. So what is closed is whole (`WholeReceiptsOnly`). What is on paper has been told, or the code
is past the closing (`PaperInv`), which keeps a receipt from being on paper twice (`OnceInv`) and
makes the outcome true (`OutcomeInv`). With it each step maps to a step of `ReceiptDevice` or a
stutter (`ImplementsDevice`): a successful close issues, `Tell` tells, all others stutter. What is
issued there is the number of documents on paper that are the receipt's.

`ReceiptFlowProofs`, for any receipts and faults, any number of restarts, both read models:

    Inv == KeysInv /\ NumberInv /\ SavedInv /\ JournalInv /\ EventInv /\ DeviceInv /\ LateInv

`NumberInv` bounds every number in use by `last` and keeps a number whose record is being saved, or
may yet come, free and given once; `KeysInv` (a finite set of keys has a greatest) keeps that so
over a restart, which reads `last` back from the records. `NumbersAreUnique` is an action property
on top of them. `SavedInv` has each receipt that a command is about on record, unless its saving
failed or was cancelled. `JournalInv` and `EventInv` tie journal and events to how far a receipt has
come, and `EventsAreTrue` follows. `RecordComesFirst` needs `NumberInv`: else another receipt's
record could replace the one that makes it true, or stand under the number of one that has none.
`ImplementsDevice` maps the flow to `ReceiptDevice`: what a device has in its journal is issued,
what the command has announced is told, and a restart, which loses commands and events, is a
stutter. `OutcomesStayUnknown` is another invariant: as neither handler of an outcome can update a
record, each stays "created".

`ShiftRegistratorProofs`, for any receipts, callers, durations, ages and refusals:

    Inv == /\ PlaceInv /\ JobInv /\ StateInv /\ OutcomeInv /\ ReadInv /\ FenceInv
           /\ TimerInv /\ CalmInv

A task has at most one job and no reply while it has it (`JobInv`); the shift state belongs to what
`boot` and the timer have done, and at most one registration is under way (`StateInv`). Hence the
shift is read when nothing else is to do, and the reading is still true when it is used (`ReadInv`):
this is why the timer fits its shift (`TimerIsRight`), although nothing in the code locks the device
between the two steps. `FenceInv` says that no registration is queued behind the timer's job and none
at all once it is done (`NothingAfterClosing`). `OutcomesAreTrue` follows from `OutcomeInv`,
`OpenMeansTimed` from `CalmInv` with the fence. `ImplementsDevice` maps it to `ReceiptDevice`, whose
answers get lost only where reading the shift may fail (`MisreadInv`).

Three action properties say what the state machine never gets out of: once the timer has closed its
shift, no registration ends and the journal stays as it is (`AutoCloseIsFinal`, by `EndOfBusiness`); a
timer that is over is never followed by another (`OneTimerOnly`); and a shift whose timer was cancelled
stays open until a caller of `close_shift` has it closed (`CancelledMeansByHand`).

All invariants and action properties that the passing runs check are stated by theorems. Only
model-checked are the liveness properties, which with fairness and `ENABLED` are out of the prover's
reach: `ServesEverything`, `DetachEnds`, `AnsweredUntilClosing`, `EveryTimelyShiftCloses`,
`EveryRequestAnswered`, `AcceptedIsProcessed` and `EveryCallTold`. So are the counterexamples of section
6, but for what the next section says. No module that is proved about reaches a RECURSIVE operator.

## 6. Disagreements between the code and what is said of it

Runs that TLC shows violated:

- `reboot_procedure`: `pause_command_execution` keeps the lock that `replace_device` awaits, so
  the reboot waits for itself and no command of the group runs again.
- `shift_after_auto_close`: after the timer has closed the shift nobody calls `change_state`, and
  each registration from then on awaits a future nobody sets.
- `shift_overdue`: a shift already overdue when its age is read gets a timer that cancels itself;
  the job is withdrawn unless the worker has begun it, and the shift stays open.
- `groups_close`: `close()` raises when one of its groups was detached meanwhile; the devices that
  follow stay attached.
- `flow_success`: a registered receipt is never shown as "success", as its handler fails on the
  registrator's data first; and with MongoDB `get_receipt` finds no record at all, as it looks for a
  `company_id`.

What they show of one instance is proved for every value of the constants, `groups_close` excepted: the
reboot never ends (`RebootNeverEnds`), no registration ends after the automatic closing
(`AutoCloseIsFinal`), a timer that cancelled itself leaves its shift open (`CancelledMeansByHand`), no
outcome is ever shown (`OutcomesStayUnknown`).

Seen while modelling, kept in the models, without a run:

- After `close_shift` by hand the state keeps `AutoShiftOpenState` without a timer; the next receipt
  opens a shift that nothing closes (`OpenShiftIsTimed` without `calm` fails so; `OneTimerOnly` says why).
- Two requests to run one group open two adapters on one device; `add_device` refuses one of them,
  which stays open (`OneAdapterPerDevice` without `alone` fails so). A run that meets a deletion leaves
  a device of no group, which no view can stop (`DevicesCanBeStopped` without `alone`). With one
  administrator an adapter is still left open by a run that fails or is cancelled after it connected.
- A registration that never ends (section 4) takes the invoker with it: a stop, a deletion or a close of
  the manager then waits in `join()` (manager, 189) until its client goes away.
- A first registration of a shift raises, and its receipt is announced as failed, when the shift cannot
  be read after it, although the device has registered it (base.py, 329).
- A client that goes away while its receipt is being saved does not end the handler: the dispatcher
  swallows the cancellation and the command is put, with no record, or one that comes late
  (event_dispatchers.py, 53).
- The registrator storage in memory joins the data's fields as strings; the atol driver's
  `ffd_version` is a number, so an atol device is never attached. The second start of a test device
  makes the stored record its id instead of a number.
- The data of `ReceiptRegistationFailed` has no id, so a failed receipt stays "created".
- Ids that a path spells otherwise than the server: `DELETE /users/02` deletes user 2, finds no policy of
  "02" and answers with success, with the policies of "2" left; `POST /users/02` changes user 2 and the
  rights of "02", which nobody has. Users set for group "01" get policies that no removal of group 1
  finds, and that let them in under that path. `OkIsDone` says what success means then; no new user gets
  any of these rights (`NobodyInherits`).
- The POST handler's `is_service_provided` test is inverted, and asks with the string from the
  URL where the manager has numbers: it lets every request pass, and a group without a device
  ends in `KeyError` after the record was saved.
- A change of a group never changes whether it is enabled. (If it did, a group could be disabled
  while its device runs, and that device could not be stopped.) A change of a group that is gone
  ends in an exception. `views.py` of the service catches a `ServiceGroupNotExists` of its own,
  which nobody raises.
- `ClosedState.open_shift` calls itself through `state` until a `RecursionError`.
- Every non-zero tax system crashes the intake, as the map has texts for keys; every correction
  does, as receipts have no `set_correction_data`; a missing sum of a payment does, and a null for the
  precision of a quantity; so does a line whose price and quantity are held but whose cost has too many
  digits (products.py, 169). A null tax crashes only at `ReceiptCreated`, after the receipt has got its
  number. NaN passes every check and is told to the device. The comment at the handler (views.py, 46)
  has invalid data raise a `ValueError`.
- A form without the places of a quantity keeps none: weights are rounded to whole units. The email
  or phone may both be missing, the payments may differ from the total: `ReceiptDefaultValidator`
  would look, but nobody calls it (and it objects to a contact that is there). `_set_cashier` is never
  called.
- `as_dict` of a receipt holds `Decimal`s, which MongoDB's plain codec refuses; the fault "save" of
  `ReceiptFlow` stands for it.
- `close_shift` of the atol adapter ignores the code of `report()`, so a shift that was not closed is
  told as closed.
- Password hashes are made with `'%s%s'.format(...)`, which has no place to format: they are the same
  for all passwords, and a change that sends a password fails on the comparison. In memory the
  login has been changed by then.
- Deleting a user who has policies ends in an `AttributeError` (`policy.id`) after the user is gone.
  The policies remain, harmless only because ids are not given twice (`NobodyInherits`).
- In memory, changing a user who has no admin policy ends in `PolicyDoesNotExist` after the change; a
  change does not look whether the login is taken. A login nobody has ends in an exception for a
  service client. Nobody looks whether a user is active, or whether a group exists whose users are set.
- A list of allowed users with one twice raises `PolicyExists` in the middle; two administrators who
  set the users of a group at a time leave the union of what they set.

## 7. Not modelled

- Rendering, templates, forms' declarations, static files, routes, containers, imports by name: no
  state and no decisions the properties could tell apart.
- Logging in and out, and the renewal of CSRF tokens: a session is a library's encrypted cookie.
- The registrator and service group storages in a database: `DeviceGroups` has handlers run to their
  device calls without suspending; with a database they suspend once more in the places where
  `Disconnect` already cancels and other requests already meet them.
- `get_receipts`, which calls methods no repository has; `get_shift_info` of `AsyncRegistrator`;
  setting and reading the date; `reboot` but for the procedure of `RebootProcedure`.
- Whether asyncio survives `create_task` from a thread of the pool (base.py, 183): the model takes the
  task as started.
- `replace_device` that waits for the lock while its group is detached and started anew
  (fiscal_device_group_managers.py, 154): `CommandInvoker` has one attachment.
- A closing timer that outlives `close` of its adapter (base.py, 228).

## 8. Plan

Written so far, in this order: `CommandInvoker` with `SerialQueue` and its proofs;
`RebootProcedure`; `ShiftRegistrator`; `DeviceGroups` and its proofs; `ReceiptFlow`; `AtolDocument`
with `ReceiptDevice`; `AccessControl` and its proofs; `ReceiptIntake` and its proofs; the shift calls
of `AtolDocument` and the making and changing of groups; the proofs of `AtolDocument`, `ReceiptFlow`
and `ShiftRegistrator`; the proofs about leaks and single administrators of `DeviceGroups`, about success in
`AccessControl`, sums in `ReceiptIntake` and `RebootProcedure`; `ReceiptDevice` at three levels.

Next, models: several attachments of one group (`DeviceGroups` composed with `CommandInvoker`, for a
replacement that outlives its device, and with `ShiftRegistrator`, for a timer that outlives its
adapter).

Next, proofs: of the finding that only a run shows, that the devices `close()` leaves attached stay so;
the invoker that `DeviceGroups` assumes, from `CommandInvoker`.
