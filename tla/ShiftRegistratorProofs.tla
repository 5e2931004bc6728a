------------------------ MODULE ShiftRegistratorProofs ------------------------
(* Proofs about ShiftRegistrator, for any receipts, callers, durations, ages and *)
(* faults. *)
EXTENDS ShiftRegistrator, TLAPS

-----------------------------------------------------------------------------
(* The inductive invariant *)

(* Each task is where its kind of task can be. *)
PlaceInv ==
    /\ pc["boot"] \in {"start", "reading", "done", "failed"}
    /\ pc["timer"] \in {"none", "starting", "sleeping", "cancelling", "cancelled", "closing",
                        "done", "failed"}
    /\ \A r \in Receipts : pc[r] \in {"idle", "undefined", "first", "rereading", "registering",
                                      "awaitClose", "awaitState", "ok", "failed", "unread"}
    /\ \A m \in Closers : pc[m] \in {"idle", "undefined", "unopened", "closing", "ok", "failed"}

(* A job is of a task that awaits such a job and has no reply yet; a task has one. *)
Awaits(t, op) ==
    \/ op = "info" /\ pc[t] \in {"reading", "rereading"}
    \/ op = "register" /\ pc[t] \in {"first", "registering"}
    \/ op = "close" /\ pc[t] \in {"closing", "cancelling"}
JobInv ==
    /\ \A i \in 1..Len(jobs) : Awaits(jobs[i].task, jobs[i].op) /\ reply[jobs[i].task] = "none"
    /\ \A i, j \in 1..Len(jobs) : jobs[i].task = jobs[j].task => i = j
    /\ \A t \in Tasks : reply[t] # "none" => \E op \in Ops : Awaits(t, op)

(* The shift state belongs to what the tasks have done. *)
StateInv ==
    /\ state = "undefined" <=> pc["boot"] # "done"
    /\ state = "open" <=> pc["timer"] # "none"
    /\ closing <=> pc["timer"] \in {"closing", "done", "failed"}
    /\ \A q, r \in Receipts : Busy(q) /\ Busy(r) => q = r
    /\ \A r \in Receipts :
           /\ pc[r] \in {"first", "rereading"} => state = "closed"
           /\ pc[r] = "registering" => state = "open"
           /\ pc[r] \in {"awaitClose", "awaitState"} => closing
    /\ \A m \in Closers : pc[m] = "closing" => state = "open"

(* Registrations are in the device's journal as far as they have come. *)
OutcomeInv ==
    \A r \in Receipts :
        /\ pc[r] \in {"idle", "undefined", "awaitClose", "awaitState", "failed"} => journal[r] = 0
        /\ pc[r] \in {"first", "registering"} =>
               journal[r] = IF reply[r] = "ok" THEN 1 ELSE 0
        /\ pc[r] \in {"rereading", "unread", "ok"} => journal[r] = 1

(* What has been read of the shift is true until it is used: nothing else is to do. *)
Waits(t) == pc[t] \in {"reading", "rereading"} /\ reply[t] = "ok"
ReadInv ==
    /\ \A t \in Tasks : Waits(t) =>
           /\ jobs = <<>>
           /\ reading.open = open
           /\ open => reading.age = age
    /\ reading.open => \E t \in Tasks : Waits(t)

(* The timer's job has no registration behind it, and then there is none. *)
FenceInv ==
    /\ pc["timer"] = "closing" =>
           \A i, j \in 1..Len(jobs) : i < j /\ jobs[i].task = "timer" => jobs[j].op # "register"
    /\ pc["timer"] = "done" \/ (pc["timer"] = "closing" /\ reply["timer"] = "ok") =>
           ~open /\ \A j \in 1..Len(jobs) : jobs[j].op # "register"
    /\ pc["timer"] = "closing" /\ reply["timer"] = "none" =>
           \E i \in 1..Len(jobs) : jobs[i].task = "timer"

(* A timer that has not fired is that of the open shift, which nobody is closing. *)
Rest == IF age < Duration THEN Duration - age ELSE 0
TimerInv ==
    pc["timer"] \in {"starting", "sleeping"} =>
        /\ open /\ left = Rest
        /\ \A i \in 1..Len(jobs) : jobs[i].op # "close"

(* On a calm day nothing is refused, and a shift that is open has its timer. *)
CalmInv ==
    calm =>
        /\ \A t \in Tasks : reply[t] # "error"
        /\ \A m \in Closers : pc[m] = "idle"
        /\ pc["timer"] \in {"none", "starting", "sleeping", "closing", "done"}
        /\ open /\ (\E t \in Tasks : pc[t] \in Unread) => age < Duration
        /\ pc["timer"] = "starting" => left > 0
        /\ \A r \in Receipts : pc[r] = "rereading" \/ (pc[r] = "first" /\ reply[r] = "ok") => open
        /\ OpenShiftIsTimed

Inv == /\ PlaceInv /\ JobInv /\ StateInv /\ OutcomeInv /\ ReadInv /\ FenceInv /\ TimerInv
       /\ CalmInv
IInv == TypeOK /\ Inv

-----------------------------------------------------------------------------
(* The tasks and their jobs *)

LEMMA TaskFacts ==
  /\ "boot" \in Tasks /\ "timer" \in Tasks
  /\ \A r \in Receipts : r \in Tasks /\ r \notin Closers /\ r # "boot" /\ r # "timer"
  /\ \A m \in Closers : m \in Tasks /\ m \notin Receipts /\ m # "boot" /\ m # "timer"
  /\ \A t \in Tasks : t = "boot" \/ t = "timer" \/ t \in Receipts \/ t \in Closers
BY TasksAssumption DEF Tasks

(* What a submitted job makes of the queue. *)
LEMMA Submitted ==
  ASSUME IInv, NEW t \in Tasks, NEW op \in Ops, Submit(t, op)
  PROVE  /\ jobs' \in Seq([op : Ops, task : Tasks])
         /\ Len(jobs') = Len(jobs) + 1 /\ Len(jobs) \in Nat
         /\ \A i \in 1..Len(jobs) : jobs'[i] = jobs[i]
         /\ jobs'[Len(jobs) + 1].op = op /\ jobs'[Len(jobs) + 1].task = t
<1>1. jobs \in Seq([op : Ops, task : Tasks]) /\ [op |-> op, task |-> t] \in [op : Ops, task : Tasks]
  BY DEF IInv, TypeOK
<1>2. jobs' = Append(jobs, [op |-> op, task |-> t])
  BY DEF Submit
<1> QED
  BY <1>1, <1>2

(* (What the elements of a sequence are.) *)
LEMMA ElementsTyped ==
  ASSUME NEW S, NEW s \in Seq(S)
  PROVE  Len(s) \in Nat /\ \A i \in 1..Len(s) : s[i] \in S
OBVIOUS

LEMMA JobsTyped ==
  ASSUME IInv
  PROVE  /\ Len(jobs) \in Nat
         /\ \A i \in 1..Len(jobs) : jobs[i].op \in Ops /\ jobs[i].task \in Tasks
<1>1. jobs \in Seq([op : Ops, task : Tasks])
  BY DEF IInv, TypeOK
<1>2. \A i \in 1..Len(jobs) : jobs[i] \in [op : Ops, task : Tasks]
  BY <1>1, ElementsTyped
<1> QED
  BY <1>1, <1>2

(* A step that leaves the waiting ones waiting keeps the jobs in order, *)
LEMMA JobsKept ==
  ASSUME IInv, UNCHANGED jobs,
         \A u \in Tasks, o \in Ops : Awaits(u, o) /\ reply[u] = "none"
                                         => (Awaits(u, o))' /\ reply'[u] = "none",
         \A u \in Tasks : reply'[u] # "none" => \E o \in Ops : (Awaits(u, o))'
  PROVE  JobInv'
BY JobsTyped DEF IInv, Inv, JobInv

(* and so does one of a task without a job that submits one. *)
LEMMA JobAdded ==
  ASSUME IInv, NEW t \in Tasks, NEW op \in Ops, Submit(t, op),
         \A o \in Ops : ~(Awaits(t, o) /\ reply[t] = "none"),
         (Awaits(t, op))', reply'[t] = "none",
         \A u \in Tasks \ {t}, o \in Ops : Awaits(u, o) /\ reply[u] = "none"
                                         => (Awaits(u, o))' /\ reply'[u] = "none",
         \A u \in Tasks : reply'[u] # "none" => \E o \in Ops : (Awaits(u, o))'
  PROVE  JobInv'
<1>1. \A i \in 1..Len(jobs) : jobs[i].task # t
  BY JobsTyped DEF IInv, Inv, JobInv
<1>2. \A i \in 1..Len(jobs') : i \in 1..Len(jobs) \/ i = Len(jobs) + 1
  BY Submitted
<1>3. \A i \in 1..Len(jobs') : (Awaits(jobs[i].task, jobs[i].op))' /\ reply'[jobs'[i].task] = "none"
  <2> SUFFICES ASSUME NEW i \in 1..Len(jobs')
               PROVE  (Awaits(jobs[i].task, jobs[i].op))' /\ reply'[jobs'[i].task] = "none"
    OBVIOUS
  <2>1. CASE i \in 1..Len(jobs)
    <3>1. /\ jobs'[i] = jobs[i] /\ jobs[i].task \in Tasks \ {t} /\ jobs[i].op \in Ops
          /\ Awaits(jobs[i].task, jobs[i].op) /\ reply[jobs[i].task] = "none"
      BY <1>1, <2>1, Submitted, JobsTyped DEF IInv, Inv, JobInv
    <3>2. (Awaits(jobs[i].task, jobs[i].op))'
      BY <3>1 DEF Awaits
    <3> QED
      BY <3>1, <3>2
  <2>2. CASE i = Len(jobs) + 1
    BY <2>2, Submitted DEF Awaits
  <2> QED
    BY <1>2, <2>1, <2>2
<1>4. \A i, j \in 1..Len(jobs') : jobs'[i].task = jobs'[j].task => i = j
  BY <1>1, <1>2, Submitted DEF IInv, Inv, JobInv
<1> QED
  BY <1>3, <1>4 DEF JobInv

(* Who has read the shift, while nothing else is to do. *)
LEMMA ReadStill ==
  ASSUME IInv, NEW t \in Tasks, Waits(t)
  PROVE  /\ jobs = <<>> /\ Len(jobs) = 0 /\ state # "open" /\ pc["timer"] = "none" /\ ~closing
         /\ reading.open = open /\ (open => reading.age = age)
         /\ (t = "boot" /\ state = "undefined") \/ (t \in Receipts /\ state = "closed" /\ Busy(t))
         /\ \A u \in Tasks : Waits(u) => u = t
         /\ reading.age \in 0..MaxAge
<1>1. /\ jobs = <<>> /\ reading.open = open /\ (open => reading.age = age)
      /\ reading \in [open : BOOLEAN, age : 0..MaxAge]
  BY DEF IInv, Inv, TypeOK, ReadInv
<1>2. \A u \in Tasks : Waits(u) => (u = "boot" /\ state = "undefined")
                                  \/ (u \in Receipts /\ state = "closed" /\ Busy(u))
  <2> SUFFICES ASSUME NEW u \in Tasks, Waits(u)
               PROVE  (u = "boot" /\ state = "undefined")
                          \/ (u \in Receipts /\ state = "closed" /\ Busy(u))
    OBVIOUS
  <2>1. pc[u] \in {"reading", "rereading"}
    BY DEF Waits
  <2>2. CASE u = "boot"
    <3>1. pc["boot"] = "reading"
      BY <2>1, <2>2 DEF IInv, Inv, PlaceInv
    <3>2. state = "undefined"
      BY <3>1 DEF IInv, Inv, StateInv
    <3> QED
      BY <2>2, <3>2
  <2>3. CASE u \in Receipts
    <3>1. pc[u] = "rereading"
      BY <2>1, <2>3 DEF IInv, Inv, PlaceInv
    <3> QED
      BY <2>3, <3>1 DEF IInv, Inv, StateInv, Busy
  <2>4. u # "timer" /\ u \notin Closers
    BY <2>1 DEF IInv, Inv, PlaceInv
  <2> QED
    BY <2>2, <2>3, <2>4, TaskFacts
<1>3. \A u \in Tasks : Waits(u) => u = t
  BY <1>2 DEF IInv, Inv, StateInv
<1>4. state # "open" /\ pc["timer"] = "none" /\ ~closing
  BY <1>2 DEF IInv, Inv, StateInv
<1> QED
  BY <1>1, <1>2, <1>3, <1>4

LEMMA NobodyWaits ==
  ASSUME IInv, \A t \in Tasks : ~Waits(t), UNCHANGED reading, \A t \in Tasks : ~(Waits(t))'
  PROVE  ReadInv'
BY DEF IInv, Inv, ReadInv

(* A registration waits for the state, or for the timer that closes the shift. *)
LEMMA RegistrationWaits ==
  ASSUME IInv, NEW r \in Receipts,
         pc[r] \in {"idle", "undefined"},
         \A q \in Receipts : Busy(q) => q = r,
         NEW w,
         pc' = [pc EXCEPT ![r] = w],
         (w = "undefined" /\ state = "undefined") \/ (w = "awaitClose" /\ closing),
         UNCHANGED <<deviceVars, workVars, stateVars, calm>>
  PROVE  IInv'
<1>1. TypeOK'
  BY DEF IInv, TypeOK, deviceVars, workVars, stateVars
<1>2. PlaceInv'
  BY TaskFacts DEF IInv, Inv, PlaceInv
<1>3. JobInv'
  BY DEF IInv, Inv, JobInv, Awaits, workVars
<1>4. StateInv'
  BY DEF IInv, Inv, StateInv, Busy, stateVars
<1>5. OutcomeInv'
  BY DEF IInv, Inv, OutcomeInv, deviceVars, workVars
<1>6. ReadInv'
  BY DEF IInv, Inv, ReadInv, Waits, deviceVars, workVars
<1>7. FenceInv'
  BY DEF IInv, Inv, FenceInv, deviceVars, workVars
<1>8. TimerInv'
  BY DEF IInv, Inv, TimerInv, StateInv
<1>9. CalmInv'
  BY TaskFacts DEF IInv, Inv, CalmInv, OpenShiftIsTimed, Unread, deviceVars, workVars, stateVars
<1> QED
  BY <1>1, <1>2, <1>3, <1>4, <1>5, <1>6, <1>7, <1>8, <1>9 DEF IInv, Inv

(* A registration is submitted, in the closed state or the open one. *)
LEMMA RegistrationSubmitted ==
  ASSUME IInv, NEW r \in Receipts,
         pc[r] \in {"idle", "undefined"},
         \A q \in Receipts : Busy(q) => q = r,
         NEW w,
         pc' = [pc EXCEPT ![r] = w],
         (w = "first" /\ state = "closed") \/ (w = "registering" /\ state = "open" /\ ~closing),
         Submit(r, "register"),
         UNCHANGED <<deviceVars, reply, reading, stateVars, calm>>
  PROVE  IInv'
<1>1. TypeOK'
  <2>1. jobs' \in Seq([op : Ops, task : Tasks])
    BY Submitted, TaskFacts DEF Ops
  <2> QED
    BY <2>1, TaskFacts DEF IInv, TypeOK, deviceVars, stateVars
<1>2. PlaceInv'
  BY TaskFacts DEF IInv, Inv, PlaceInv
<1>3. JobInv'
  <2>1. \A o \in Ops : ~Awaits(r, o)
    BY TaskFacts DEF Awaits
  <2>2. reply' = reply /\ reply[r] = "none"
    BY <2>1, TaskFacts DEF IInv, Inv, JobInv
  <2>3. (Awaits(r, "register"))' /\ \A u \in Tasks \ {r} : pc'[u] = pc[u]
    BY TaskFacts DEF IInv, TypeOK, Awaits
  <2>4. \A u \in Tasks \ {r}, o \in Ops : Awaits(u, o) => (Awaits(u, o))'
    BY <2>3 DEF Awaits
  <2>5. \A u \in Tasks : reply'[u] # "none" => \E o \in Ops : (Awaits(u, o))'
    BY <2>2, <2>4 DEF IInv, Inv, JobInv
  <2> QED
    BY <2>1, <2>2, <2>3, <2>4, <2>5, JobAdded, TaskFacts DEF Ops
<1>4. StateInv'
  BY DEF IInv, Inv, StateInv, Busy, stateVars
<1>5. OutcomeInv'
  BY DEF IInv, Inv, TypeOK, OutcomeInv, JobInv, Awaits, deviceVars
<1>6. ReadInv'
  <2>1. \A t \in Tasks : ~Waits(t)
    BY ReadStill, TaskFacts DEF IInv, Inv, PlaceInv, StateInv, Busy, Waits
  <2>2. \A t \in Tasks : ~(Waits(t))'
    BY <2>1, TaskFacts DEF IInv, TypeOK, Waits
  <2> QED
    BY <2>1, <2>2, NobodyWaits
<1>7. FenceInv'
  BY DEF IInv, Inv, FenceInv, StateInv
<1>8. TimerInv'
  <2>1. \A i \in 1..Len(jobs') : i \in 1..Len(jobs) \/ i = Len(jobs) + 1
    BY Submitted, TaskFacts DEF Ops
  <2>2. \A i \in 1..Len(jobs) : jobs'[i] = jobs[i]
    BY Submitted, TaskFacts DEF Ops
  <2>3. jobs'[Len(jobs) + 1].op = "register"
    BY Submitted, TaskFacts DEF Ops
  <2> QED
    BY <2>1, <2>2, <2>3, TaskFacts DEF IInv, Inv, TimerInv, Rest, deviceVars, stateVars
<1>9. CalmInv'
  BY TaskFacts DEF IInv, Inv, CalmInv, OpenShiftIsTimed, JobInv, Awaits, Unread, deviceVars,
     stateVars
<1> QED
  BY <1>1, <1>2, <1>3, <1>4, <1>5, <1>6, <1>7, <1>8, <1>9 DEF IInv, Inv

(* A registration that has awaited the timer. *)
LEMMA ClosingOver ==
  ASSUME IInv, NEW r \in Receipts,
         pc[r] = "awaitClose",
         NEW w \in {"awaitState", "failed"},
         pc' = [pc EXCEPT ![r] = w],
         UNCHANGED <<deviceVars, workVars, stateVars, calm>>
  PROVE  IInv'
<1>1. TypeOK'
  BY DEF IInv, TypeOK, deviceVars, workVars, stateVars
<1>2. PlaceInv'
  BY DEF IInv, Inv, PlaceInv
<1>3. JobInv'
  BY DEF IInv, Inv, JobInv, Awaits, workVars
<1>4. StateInv'
  BY DEF IInv, Inv, StateInv, Busy, stateVars
<1>5. OutcomeInv'
  BY DEF IInv, Inv, OutcomeInv, deviceVars, workVars
<1>6. ReadInv'
  BY DEF IInv, Inv, ReadInv, Waits, deviceVars, workVars
<1>7. FenceInv'
  BY DEF IInv, Inv, FenceInv, deviceVars, workVars
<1>8. TimerInv'
  BY DEF IInv, Inv, TimerInv, StateInv
<1>9. CalmInv'
  BY DEF IInv, Inv, CalmInv, OpenShiftIsTimed, Unread, deviceVars, workVars, stateVars
<1> QED
  BY <1>1, <1>2, <1>3, <1>4, <1>5, <1>6, <1>7, <1>8, <1>9 DEF IInv, Inv

(* A caller waits for the state or is answered. *)
LEMMA CallerMoves ==
  ASSUME IInv, NEW m \in Closers,
         pc[m] \in {"idle", "undefined", "unopened"},
         pc[m] # "idle" \/ ~calm,
         NEW w \in {"undefined", "unopened", "ok", "failed"},
         pc' = [pc EXCEPT ![m] = w],
         UNCHANGED <<deviceVars, workVars, stateVars, calm>>
  PROVE  IInv'
<1>1. TypeOK'
  BY DEF IInv, TypeOK, deviceVars, workVars, stateVars
<1>2. PlaceInv'
  BY TaskFacts DEF IInv, Inv, PlaceInv
<1>3. JobInv'
  BY DEF IInv, Inv, JobInv, Awaits, workVars
<1>4. StateInv'
  BY TaskFacts DEF IInv, Inv, StateInv, Busy, stateVars
<1>5. OutcomeInv'
  BY TaskFacts DEF IInv, Inv, OutcomeInv, deviceVars, workVars
<1>6. ReadInv'
  BY DEF IInv, Inv, ReadInv, Waits, deviceVars, workVars
<1>7. FenceInv'
  BY DEF IInv, Inv, FenceInv, deviceVars, workVars
<1>8. TimerInv'
  BY DEF IInv, Inv, TimerInv, Rest, deviceVars, workVars, stateVars
<1>9. CalmInv'
  BY DEF IInv, Inv, CalmInv
<1> QED
  BY <1>1, <1>2, <1>3, <1>4, <1>5, <1>6, <1>7, <1>8, <1>9 DEF IInv, Inv

(* A caller closes the shift, and the timer is stopped. *)
LEMMA CallerCloses ==
  ASSUME IInv, NEW m \in Closers,
         pc[m] \in {"idle", "undefined"},
         pc[m] # "idle" \/ ~calm,
         state = "open",
         Submit(m, "close"),
         NEW w,
         \/ w = "cancelled" /\ ~closing /\ pc["timer"] \in {"starting", "sleeping"}
         \/ w = pc["timer"] /\ (closing \/ pc["timer"] \notin {"starting", "sleeping"}),
         pc' = [pc EXCEPT ![m] = "closing", !["timer"] = w],
         UNCHANGED <<deviceVars, reply, reading, stateVars, calm>>
  PROVE  IInv'
<1>1. TypeOK'
  <2>1. jobs' \in Seq([op : Ops, task : Tasks])
    BY Submitted, TaskFacts DEF Ops
  <2> QED
    BY <2>1, TaskFacts DEF IInv, TypeOK, deviceVars, stateVars
<1>2. PlaceInv'
  BY TaskFacts DEF IInv, Inv, TypeOK, PlaceInv
<1>3. JobInv'
  <2>1. \A o \in Ops : ~Awaits(m, o)
    BY TaskFacts DEF Awaits
  <2>2. reply' = reply /\ reply[m] = "none"
    BY <2>1, TaskFacts DEF IInv, Inv, JobInv
  <2>3. /\ (Awaits(m, "close"))'
        /\ \A u \in Tasks \ {m} : pc'[u] = pc[u] \/ (u = "timer" /\ pc'[u] = w)
    <3>1. pc'[m] = "closing"
      BY TaskFacts DEF IInv, TypeOK
    <3>2. \A u \in Tasks \ {m} : pc'[u] = pc[u] \/ (u = "timer" /\ pc'[u] = w)
      BY DEF IInv, TypeOK
    <3> QED
      BY <3>1, <3>2 DEF Awaits
  <2>4. \A u \in Tasks \ {m}, o \in Ops : Awaits(u, o) => (Awaits(u, o))'
    BY <2>3, TaskFacts DEF Awaits
  <2>5. \A u \in Tasks : reply'[u] # "none" => \E o \in Ops : (Awaits(u, o))'
    BY <2>2, <2>4 DEF IInv, Inv, JobInv
  <2> QED
    BY <2>1, <2>2, <2>3, <2>4, <2>5, JobAdded, TaskFacts DEF Ops
<1>4. StateInv'
  <2>1. /\ \A r \in Receipts : pc'[r] = pc[r]
        /\ pc'["boot"] = pc["boot"] /\ pc'["timer"] = w
        /\ \A k \in Closers : k # m => pc'[k] = pc[k]
    BY TaskFacts DEF IInv, TypeOK
  <2>2. (w = "none" <=> pc["timer"] = "none")
        /\ (w \in {"closing", "done", "failed"} <=> pc["timer"] \in {"closing", "done", "failed"})
    BY DEF IInv, Inv, StateInv
  <2> QED
    BY <2>1, <2>2 DEF IInv, Inv, StateInv, Busy, stateVars
<1>5. OutcomeInv'
  BY TaskFacts DEF IInv, Inv, TypeOK, OutcomeInv, deviceVars
<1>6. ReadInv'
  <2>1. \A t \in Tasks : ~Waits(t)
    BY ReadStill, TaskFacts DEF IInv, Inv, PlaceInv, StateInv, Busy, Waits
  <2>2. \A t \in Tasks : ~(Waits(t))'
    BY <2>1, TaskFacts DEF IInv, TypeOK, Waits
  <2> QED
    BY <2>1, <2>2, NobodyWaits
<1>7. FenceInv'
  <2>1. \A i \in 1..Len(jobs') : i \in 1..Len(jobs) \/ i = Len(jobs) + 1
    BY Submitted, TaskFacts DEF Ops
  <2>2. \A i \in 1..Len(jobs) : jobs'[i] = jobs[i]
    BY Submitted, TaskFacts DEF Ops
  <2>3. jobs'[Len(jobs) + 1].op = "close"
    BY Submitted, TaskFacts DEF Ops
  <2>4. Len(jobs) \in Nat /\ Len(jobs') = Len(jobs) + 1 /\ jobs'[Len(jobs) + 1].task = m
    BY Submitted, TaskFacts DEF Ops
  <2>5. pc'["timer"] = w /\ m # "timer" /\ reply' = reply /\ open' = open
    BY TaskFacts DEF IInv, TypeOK, deviceVars
  <2>6. CASE w = pc["timer"]
    <3>1. \A i, j \in 1..Len(jobs') : i < j /\ jobs'[i].task = "timer" =>
                i \in 1..Len(jobs) /\ (j \in 1..Len(jobs) \/ jobs'[j].op = "close")
      BY <2>1, <2>3, <2>4, <2>5
    <3>2. w = "closing" =>
              \A i, j \in 1..Len(jobs') : i < j /\ jobs'[i].task = "timer"
                                             => jobs'[j].op # "register"
      BY <2>2, <2>6, <3>1 DEF IInv, Inv, FenceInv
    <3>3. w = "done" \/ (w = "closing" /\ reply["timer"] = "ok") =>
              ~open /\ \A j \in 1..Len(jobs') : jobs'[j].op # "register"
      BY <2>1, <2>2, <2>3, <2>6 DEF IInv, Inv, FenceInv
    <3>4. w = "closing" /\ reply["timer"] = "none" =>
              \E i \in 1..Len(jobs') : jobs'[i].task = "timer"
      BY <2>2, <2>4, <2>6 DEF IInv, Inv, FenceInv
    <3> QED
      BY <2>5, <3>2, <3>3, <3>4 DEF FenceInv
  <2>7. CASE w = "cancelled"
    BY <2>5, <2>7 DEF FenceInv
  <2> QED
    BY <2>6, <2>7
<1>8. TimerInv'
  BY TaskFacts DEF IInv, Inv, TypeOK, TimerInv, StateInv
<1>9. CalmInv'
  BY DEF IInv, Inv, CalmInv
<1> QED
  BY <1>1, <1>2, <1>3, <1>4, <1>5, <1>6, <1>7, <1>8, <1>9 DEF IInv, Inv

(* The timer goes to sleep. *)
LEMMA TimerSleeps ==
  ASSUME IInv, pc["timer"] = "starting",
         left > 0,
         pc' = [pc EXCEPT !["timer"] = "sleeping"],
         UNCHANGED <<deviceVars, workVars, stateVars, calm>>
  PROVE  IInv'
<1>1. TypeOK'
  BY DEF IInv, TypeOK, deviceVars, workVars, stateVars
<1>2. PlaceInv'
  BY DEF IInv, Inv, PlaceInv
<1>3. JobInv'
  BY DEF IInv, Inv, JobInv, Awaits, workVars
<1>4. StateInv'
  BY DEF IInv, Inv, StateInv, Busy, stateVars
<1>5. OutcomeInv'
  BY DEF IInv, Inv, OutcomeInv, deviceVars, workVars
<1>6. ReadInv'
  BY DEF IInv, Inv, ReadInv, Waits, deviceVars, workVars
<1>7. FenceInv'
  BY DEF FenceInv
<1>8. TimerInv'
  BY DEF IInv, Inv, TimerInv, Rest, deviceVars, workVars, stateVars
<1>9. CalmInv'
  BY DEF IInv, Inv, CalmInv, OpenShiftIsTimed, TimerInv, Rest, deviceVars, workVars, stateVars
<1> QED
  BY <1>1, <1>2, <1>3, <1>4, <1>5, <1>6, <1>7, <1>8, <1>9 DEF IInv, Inv

(* The timer of a shift that is due submits its job and is cancelled. *)
LEMMA TimerCancelsItself ==
  ASSUME IInv, pc["timer"] = "starting",
         left = 0,
         Submit("timer", "close"),
         pc' = [pc EXCEPT !["timer"] = "cancelling"],
         UNCHANGED <<deviceVars, reply, reading, stateVars, calm>>
  PROVE  IInv'
<1>1. TypeOK'
  <2>1. jobs' \in Seq([op : Ops, task : Tasks])
    BY Submitted, TaskFacts DEF Ops
  <2> QED
    BY <2>1, TaskFacts DEF IInv, TypeOK, deviceVars, stateVars
<1>2. PlaceInv'
  BY DEF IInv, Inv, PlaceInv
<1>3. JobInv'
  <2>1. \A o \in Ops : ~Awaits("timer", o)
    BY DEF Awaits
  <2>2. reply' = reply /\ reply["timer"] = "none"
    BY <2>1, TaskFacts DEF IInv, Inv, JobInv
  <2>3. /\ pc'["timer"] = "cancelling"
        /\ \A u \in Tasks \ {"timer"} : pc'[u] = pc[u]
    BY TaskFacts DEF IInv, TypeOK
  <2>4. (Awaits("timer", "close"))'
    BY <2>3 DEF Awaits
  <2>5. \A u \in Tasks \ {"timer"}, o \in Ops : Awaits(u, o) => (Awaits(u, o))'
    BY <2>3 DEF Awaits
  <2>6. \A u \in Tasks : reply'[u] # "none" => \E o \in Ops : (Awaits(u, o))'
    BY <2>2, <2>5 DEF IInv, Inv, JobInv
  <2> QED
    BY <2>1, <2>2, <2>4, <2>5, <2>6, JobAdded, TaskFacts DEF Ops
<1>4. StateInv'
  BY DEF IInv, Inv, StateInv, Busy, stateVars
<1>5. OutcomeInv'
  BY DEF IInv, Inv, OutcomeInv, deviceVars
<1>6. ReadInv'
  BY TaskFacts DEF IInv, Inv, PlaceInv, ReadInv, Waits, StateInv
<1>7. FenceInv'
  BY DEF FenceInv
<1>8. TimerInv'
  BY TaskFacts DEF IInv, TypeOK, TimerInv
<1>9. CalmInv'
  BY DEF IInv, Inv, CalmInv
<1> QED
  BY <1>1, <1>2, <1>3, <1>4, <1>5, <1>6, <1>7, <1>8, <1>9 DEF IInv, Inv

(* A registration in the closed state has been carried out; the shift is read again. *)
LEMMA RegistrationReread ==
  ASSUME IInv, NEW r \in Receipts,
         pc[r] = "first",
         reply[r] = "ok",
         reply' = [reply EXCEPT ![r] = "none"],
         Submit(r, "info"),
         pc' = [pc EXCEPT ![r] = "rereading"],
         UNCHANGED <<deviceVars, reading, stateVars, calm>>
  PROVE  IInv'
<1>1. TypeOK'
  <2>1. jobs' \in Seq([op : Ops, task : Tasks])
    BY Submitted, TaskFacts DEF Ops
  <2> QED
    BY <2>1, TaskFacts DEF IInv, TypeOK, deviceVars, stateVars
<1>2. PlaceInv'
  BY DEF IInv, Inv, PlaceInv
<1>3. JobInv'
  <2>1. \A o \in Ops : ~(Awaits(r, o) /\ reply[r] = "none")
    OBVIOUS
  <2>2. /\ reply'[r] = "none" /\ pc'[r] = "rereading"
        /\ \A u \in Tasks \ {r} : pc'[u] = pc[u] /\ reply'[u] = reply[u]
    BY TaskFacts DEF IInv, TypeOK
  <2>3. (Awaits(r, "info"))'
    BY <2>2 DEF Awaits
  <2>4. \A u \in Tasks \ {r}, o \in Ops : Awaits(u, o) => (Awaits(u, o))'
    BY <2>2 DEF Awaits
  <2>5. \A u \in Tasks : reply'[u] # "none" => \E o \in Ops : (Awaits(u, o))'
    BY <2>2, <2>4 DEF IInv, Inv, JobInv
  <2> QED
    BY <2>1, <2>2, <2>3, <2>4, <2>5, JobAdded, TaskFacts DEF Ops
<1>4. StateInv'
  BY DEF IInv, Inv, StateInv, Busy, stateVars
<1>5. OutcomeInv'
  BY DEF IInv, Inv, TypeOK, OutcomeInv, deviceVars
<1>6. ReadInv'
  <2>1. \A t \in Tasks : ~Waits(t)
    BY ReadStill, TaskFacts DEF IInv, Inv, PlaceInv, StateInv, Busy, Waits
  <2>2. \A t \in Tasks : ~(Waits(t))'
    BY <2>1, TaskFacts DEF IInv, TypeOK, Waits
  <2> QED
    BY <2>1, <2>2, NobodyWaits
<1>7. FenceInv'
  BY DEF IInv, Inv, FenceInv, StateInv
<1>8. TimerInv'
  BY DEF IInv, Inv, TimerInv, StateInv
<1>9. CalmInv'
  BY DEF IInv, Inv, CalmInv, OpenShiftIsTimed, Unread, deviceVars, stateVars
<1> QED
  BY <1>1, <1>2, <1>3, <1>4, <1>5, <1>6, <1>7, <1>8, <1>9 DEF IInv, Inv

(* It has failed, or reading the shift has. *)
LEMMA RegistrationFails ==
  ASSUME IInv, NEW r \in Receipts,
         reply[r] = "error",
         reply' = [reply EXCEPT ![r] = "none"],
         NEW w,
         pc' = [pc EXCEPT ![r] = w],
         (pc[r] = "first" /\ w = "failed") \/ (pc[r] = "rereading" /\ w = "unread"),
         UNCHANGED <<deviceVars, jobs, reading, stateVars, calm>>
  PROVE  IInv'
<1>1. TypeOK'
  BY DEF IInv, TypeOK, deviceVars, stateVars
<1>2. PlaceInv'
  BY DEF IInv, Inv, PlaceInv
<1>3. JobInv'
  BY DEF IInv, Inv, TypeOK, JobInv, Awaits, Ops
<1>4. StateInv'
  BY DEF IInv, Inv, StateInv, Busy, stateVars
<1>5. OutcomeInv'
  BY DEF IInv, Inv, OutcomeInv, deviceVars
<1>6. ReadInv'
  BY TaskFacts DEF IInv, Inv, PlaceInv, ReadInv, Waits, StateInv, Busy
<1>7. FenceInv'
  BY DEF IInv, Inv, FenceInv, deviceVars
<1>8. TimerInv'
  BY DEF IInv, Inv, TimerInv, StateInv
<1>9. CalmInv'
  BY TaskFacts DEF IInv, Inv, CalmInv
<1> QED
  BY <1>1, <1>2, <1>3, <1>4, <1>5, <1>6, <1>7, <1>8, <1>9 DEF IInv, Inv

(* The shift could not be read at the start. *)
LEMMA BootFails ==
  ASSUME IInv, pc["boot"] = "reading",
         reply["boot"] = "error",
         reply' = [reply EXCEPT !["boot"] = "none"],
         pc' = [pc EXCEPT !["boot"] = "failed"],
         UNCHANGED <<deviceVars, jobs, reading, stateVars, calm>>
  PROVE  IInv'
<1>1. TypeOK'
  BY DEF IInv, TypeOK, deviceVars, stateVars
<1>2. PlaceInv'
  BY DEF IInv, Inv, PlaceInv
<1>3. JobInv'
  BY DEF IInv, Inv, TypeOK, JobInv, Awaits, Ops
<1>4. StateInv'
  BY DEF IInv, Inv, StateInv, Busy, stateVars
<1>5. OutcomeInv'
  BY DEF IInv, Inv, PlaceInv, OutcomeInv, deviceVars
<1>6. ReadInv'
  BY TaskFacts DEF IInv, Inv, PlaceInv, ReadInv, Waits, StateInv
<1>7. FenceInv'
  BY DEF IInv, Inv, FenceInv, deviceVars
<1>8. TimerInv'
  BY DEF IInv, Inv, TimerInv, StateInv
<1>9. CalmInv'
  BY TaskFacts DEF IInv, Inv, CalmInv
<1> QED
  BY <1>1, <1>2, <1>3, <1>4, <1>5, <1>6, <1>7, <1>8, <1>9 DEF IInv, Inv

(* The shift has been read as open: the state is, and its timer is created. *)
LEMMA StateBecomesOpen ==
  ASSUME IInv, NEW t \in Tasks,
         NEW end,
         \/ t = "boot" /\ pc[t] = "reading" /\ end = "done"
         \/ t \in Receipts /\ pc[t] = "rereading" /\ end = "ok",
         reply[t] = "ok",
         reply' = [reply EXCEPT ![t] = "none"],
         reading' = NoReading,
         UNCHANGED <<closing, jobs, deviceVars, calm>>,
         reading.open,
         state' = "open",
         left' = TimeLeft,
         pc' = [pc EXCEPT ![t] = end, !["timer"] = "starting"]
  PROVE  IInv'
<1>0. /\ t \in Tasks /\ t # "timer" /\ t \notin Closers /\ Waits(t)
      /\ pc \in [Tasks -> {pc[u] : u \in Tasks}]
      /\ jobs = <<>> /\ Len(jobs) = 0 /\ state # "open" /\ pc["timer"] = "none" /\ ~closing
      /\ reading.open = open /\ (open => reading.age = age) /\ reading.age \in 0..MaxAge
      /\ (t = "boot" /\ state = "undefined") \/ (t \in Receipts /\ state = "closed" /\ Busy(t))
      /\ \A u \in Tasks : Waits(u) => u = t
      /\ \A u \in Tasks \ {t} : reply'[u] = reply[u]
      /\ reply'[t] = "none" /\ pc'[t] = end /\ ~NoReading.open /\ NoReading.age = 0
  <2>1. t \in Tasks /\ t # "timer" /\ t \notin Closers /\ Waits(t)
    BY TaskFacts DEF Waits
  <2>2. pc \in [Tasks -> {pc[u] : u \in Tasks}] /\ \A u \in Tasks \ {t} : reply'[u] = reply[u]
    BY DEF IInv, TypeOK
  <2>3. reply'[t] = "none" /\ pc'[t] = end /\ ~NoReading.open /\ NoReading.age = 0
    BY <2>1, TaskFacts DEF IInv, TypeOK, NoReading
  <2> QED
    BY <2>1, <2>2, <2>3, ReadStill
<1>1. TypeOK'
  <2>1. end \in {"done", "ok"} /\ left' \in 0..Duration
    BY <1>0, TimesAssumption DEF IInv, TypeOK, TimeLeft
  <2>2. reading' \in [open : BOOLEAN, age : 0..MaxAge]
    BY TimesAssumption DEF NoReading
  <2>3. reply' \in [Tasks -> {"none", "ok", "error"}]
    BY DEF IInv, TypeOK
  <2>4. pc' \in [Tasks -> {"none", "start", "reading", "starting", "sleeping", "cancelling",
                         "cancelled", "idle", "undefined", "unopened", "first", "rereading",
                         "registering", "awaitClose", "awaitState", "closing", "done",
                         "ok", "failed", "unread"}]
    BY <2>1 DEF IInv, TypeOK
  <2> QED
    BY <2>1, <2>2, <2>3, <2>4 DEF IInv, TypeOK, deviceVars
<1>2. PlaceInv'
  BY TaskFacts DEF IInv, Inv, TypeOK, PlaceInv
<1>3. JobInv'
  BY <1>0 DEF IInv, Inv, JobInv, Awaits
<1>4. StateInv'
  BY TaskFacts, <1>0 DEF IInv, Inv, StateInv, Busy
<1>5. OutcomeInv'
  BY TaskFacts DEF IInv, Inv, TypeOK, OutcomeInv, deviceVars
<1>6. ReadInv'
  <2>1. \A u \in Tasks : ~(Waits(u))'
    BY <1>0, TaskFacts DEF Waits
  <2>2. ~(reading.open)'
    BY <1>0
  <2> QED
    BY <2>1, <2>2 DEF ReadInv
<1>7. FenceInv'
  BY TaskFacts, <1>0 DEF FenceInv
<1>8. TimerInv'
  BY <1>0 DEF TimerInv, Rest, TimeLeft, deviceVars
<1>9. CalmInv'
  BY TimesAssumption, TaskFacts, <1>0 DEF IInv, Inv, CalmInv, TimeLeft, OpenShiftIsTimed, Unread,
     deviceVars
<1> QED
  BY <1>1, <1>2, <1>3, <1>4, <1>5, <1>6, <1>7, <1>8, <1>9 DEF IInv, Inv

(* It has been read as closed. *)
LEMMA StateBecomesClosed ==
  ASSUME IInv, NEW t \in Tasks,
         NEW end,
         \/ t = "boot" /\ pc[t] = "reading" /\ end = "done"
         \/ t \in Receipts /\ pc[t] = "rereading" /\ end = "ok",
         reply[t] = "ok",
         reply' = [reply EXCEPT ![t] = "none"],
         reading' = NoReading,
         UNCHANGED <<closing, jobs, deviceVars, calm>>,
         ~reading.open,
         state' = "closed",
         left' = left,
         pc' = [pc EXCEPT ![t] = end]
  PROVE  IInv'
<1>0. /\ t \in Tasks /\ t # "timer" /\ t \notin Closers /\ Waits(t)
      /\ pc \in [Tasks -> {pc[u] : u \in Tasks}]
      /\ jobs = <<>> /\ Len(jobs) = 0 /\ state # "open" /\ pc["timer"] = "none" /\ ~closing
      /\ reading.open = open /\ (open => reading.age = age) /\ reading.age \in 0..MaxAge
      /\ (t = "boot" /\ state = "undefined") \/ (t \in Receipts /\ state = "closed" /\ Busy(t))
      /\ \A u \in Tasks : Waits(u) => u = t
      /\ \A u \in Tasks \ {t} : reply'[u] = reply[u]
      /\ reply'[t] = "none" /\ pc'[t] = end /\ ~NoReading.open /\ NoReading.age = 0
  <2>1. t \in Tasks /\ t # "timer" /\ t \notin Closers /\ Waits(t)
    BY TaskFacts DEF Waits
  <2>2. pc \in [Tasks -> {pc[u] : u \in Tasks}] /\ \A u \in Tasks \ {t} : reply'[u] = reply[u]
    BY DEF IInv, TypeOK
  <2>3. reply'[t] = "none" /\ pc'[t] = end /\ ~NoReading.open /\ NoReading.age = 0
    BY <2>1, TaskFacts DEF IInv, TypeOK, NoReading
  <2> QED
    BY <2>1, <2>2, <2>3, ReadStill
<1>1. TypeOK'
  <2>1. end \in {"done", "ok"} /\ left' \in 0..Duration
    BY <1>0, TimesAssumption DEF IInv, TypeOK, TimeLeft
  <2>2. reading' \in [open : BOOLEAN, age : 0..MaxAge]
    BY TimesAssumption DEF NoReading
  <2>3. reply' \in [Tasks -> {"none", "ok", "error"}]
    BY DEF IInv, TypeOK
  <2>4. pc' \in [Tasks -> {"none", "start", "reading", "starting", "sleeping", "cancelling",
                         "cancelled", "idle", "undefined", "unopened", "first", "rereading",
                         "registering", "awaitClose", "awaitState", "closing", "done",
                         "ok", "failed", "unread"}]
    BY <2>1 DEF IInv, TypeOK
  <2> QED
    BY <2>1, <2>2, <2>3, <2>4 DEF IInv, TypeOK, deviceVars
<1>2. PlaceInv'
  BY DEF IInv, Inv, PlaceInv
<1>3. JobInv'
  BY DEF IInv, Inv, TypeOK, JobInv, Awaits
<1>4. StateInv'
  BY DEF IInv, Inv, TypeOK, StateInv, Busy
<1>5. OutcomeInv'
  BY DEF IInv, Inv, OutcomeInv, deviceVars
<1>6. ReadInv'
  <2>1. \A u \in Tasks : ~(Waits(u))'
    BY <1>0, TaskFacts DEF Waits
  <2>2. ~(reading.open)'
    BY <1>0
  <2> QED
    BY <2>1, <2>2 DEF ReadInv
<1>7. FenceInv'
  BY DEF IInv, Inv, FenceInv, StateInv
<1>8. TimerInv'
  BY <1>0 DEF TimerInv
<1>9. CalmInv'
  BY <1>0 DEF IInv, Inv, CalmInv, OpenShiftIsTimed, deviceVars
<1> QED
  BY <1>1, <1>2, <1>3, <1>4, <1>5, <1>6, <1>7, <1>8, <1>9 DEF IInv, Inv

-----------------------------------------------------------------------------
(* The actions *)

LEMMA BootStep ==
  ASSUME IInv, Boot
  PROVE  IInv'
<1>1. TypeOK'
  BY TaskFacts DEF Boot, Goto, Submit, deviceVars, stateVars, IInv, TypeOK, Ops
<1>2. PlaceInv'
  BY DEF Boot, Goto, IInv, Inv, PlaceInv
<1>3. JobInv'
  BY TimesAssumption, TaskFacts DEF Boot, Goto, Submit, deviceVars, IInv, Inv, TypeOK, JobInv,
     Awaits, StateInv, Ops
<1>4. StateInv'
  BY DEF Boot, Goto, stateVars, IInv, Inv, StateInv, Busy
<1>5. OutcomeInv'
  BY DEF Boot, Goto, deviceVars, IInv, Inv, OutcomeInv
<1>6. ReadInv'
  <2>1. \A t \in Tasks : ~Waits(t)
    BY ReadStill, TaskFacts DEF Boot, IInv, Inv, PlaceInv, StateInv, Busy, Waits
  <2>2. \A t \in Tasks : ~(Waits(t))'
    BY <2>1, TaskFacts DEF Boot, Goto, IInv, Inv, TypeOK, JobInv, Awaits, Waits
  <2> QED
    BY <2>1, <2>2, NobodyWaits DEF Boot
<1>7. FenceInv'
  BY DEF Boot, Goto, Submit, deviceVars, IInv, Inv, FenceInv
<1>8. TimerInv'
  BY DEF Boot, Goto, Submit, deviceVars, stateVars, IInv, Inv, TimerInv, Rest
<1>9. CalmInv'
  BY DEF Boot, Goto, deviceVars, stateVars, IInv, Inv, CalmInv, OpenShiftIsTimed, Unread
<1> QED
  BY <1>1, <1>2, <1>3, <1>4, <1>5, <1>6, <1>7, <1>8, <1>9 DEF IInv, Inv

LEMMA ChangeStateStep ==
  ASSUME IInv, NEW t, NEW end, ChangeState(t, end),
         \/ t = "boot" /\ pc[t] = "reading" /\ end = "done"
         \/ t \in Receipts /\ pc[t] = "rereading" /\ end = "ok"
  PROVE  IInv'
<1>0. t \in Tasks
  BY TaskFacts
<1>1. /\ reply[t] = "ok" /\ reply' = [reply EXCEPT ![t] = "none"] /\ reading' = NoReading
      /\ UNCHANGED <<closing, jobs, deviceVars, calm>>
  BY DEF ChangeState, Consume
<1>2. CASE /\ reading.open /\ state' = "open" /\ left' = TimeLeft
           /\ pc' = [pc EXCEPT ![t] = end, !["timer"] = "starting"]
  BY <1>0, <1>1, <1>2, StateBecomesOpen
<1>3. CASE /\ ~reading.open /\ state' = "closed" /\ pc' = [pc EXCEPT ![t] = end] /\ left' = left
  BY <1>0, <1>1, <1>3, StateBecomesClosed
<1> QED
  BY <1>2, <1>3 DEF ChangeState, Goto

LEMMA BootReadStep ==
  ASSUME IInv, BootRead
  PROVE  IInv'
<1>1. CASE ChangeState("boot", "done")
  <2>1. pc["boot"] = "reading"
    BY DEF BootRead
  <2> QED
    BY <1>1, <2>1, ChangeStateStep, Zenon
<1>2. CASE /\ reply["boot"] = "error" /\ Consume("boot") /\ Goto("boot", "failed")
           /\ UNCHANGED <<deviceVars, jobs, reading, stateVars, calm>>
  BY <1>2, BootFails DEF BootRead, Goto, Consume
<1> QED
  BY <1>1, <1>2 DEF BootRead

LEMMA TimerStartsStep ==
  ASSUME IInv, TimerStarts
  PROVE  IInv'
BY TimerSleeps, TimerCancelsItself DEF TimerStarts, Goto, workVars

(* What is left of a queue from which a job is withdrawn. *)
LEMMA Withdrawn ==
  ASSUME NEW S, NEW s \in Seq(S), NEW i \in 1..Len(s)
  PROVE  /\ RemoveAt(s, i) \in Seq(S) /\ Len(RemoveAt(s, i)) = Len(s) - 1
         /\ \A j \in 1..(Len(s) - 1) : RemoveAt(s, i)[j] = IF j < i THEN s[j] ELSE s[j + 1]
<1> DEFINE a == SubSeq(s, 1, i - 1)
           b == SubSeq(s, i + 1, Len(s))
<1>1. a \in Seq(S) /\ Len(a) = i - 1 /\ \A j \in 1..(i - 1) : a[j] = s[j]
  OBVIOUS
<1>2. b \in Seq(S) /\ Len(b) = Len(s) - i /\ \A j \in 1..(Len(s) - i) : b[j] = s[i + j]
  OBVIOUS
<1>3. RemoveAt(s, i) = a \o b
  BY DEF RemoveAt
<1> HIDE DEF a, b
<1>4. /\ a \o b \in Seq(S) /\ Len(a \o b) = Len(s) - 1
      /\ \A j \in 1..(Len(s) - 1) : (a \o b)[j] = IF j < i THEN a[j] ELSE b[j - (i - 1)]
  <2>0. a \in Seq(S) /\ b \in Seq(S) /\ Len(a) \in Nat /\ Len(b) \in Nat
    BY <1>1, <1>2
  <2>1. /\ a \o b \in Seq(S) /\ Len(a \o b) = Len(a) + Len(b)
        /\ \A j \in 1..(Len(a) + Len(b)) :
               (a \o b)[j] = IF j <= Len(a) THEN a[j] ELSE b[j - Len(a)]
    BY <2>0
  <2>2. Len(a) = i - 1 /\ Len(a) + Len(b) = Len(s) - 1
    BY <1>1, <1>2
  <2> QED
    BY <2>1, <2>2
<1>5. \A j \in 1..(Len(s) - 1) : IF j < i THEN a[j] = s[j] ELSE b[j - (i - 1)] = s[j + 1]
  <2> SUFFICES ASSUME NEW j \in 1..(Len(s) - 1)
               PROVE  IF j < i THEN a[j] = s[j] ELSE b[j - (i - 1)] = s[j + 1]
    OBVIOUS
  <2>1. CASE j < i
    BY <1>1, <2>1
  <2>2. CASE ~(j < i)
    <3>1. j - (i - 1) \in 1..(Len(s) - i) /\ i + (j - (i - 1)) = j + 1
      BY <2>2
    <3> QED
      BY <1>2, <2>2, <3>1
  <2> QED
    BY <2>1, <2>2
<1> QED
  BY <1>3, <1>4, <1>5

LEMMA TimerCancelledStep ==
  ASSUME IInv, TimerCancelled
  PROVE  IInv'
<1>1. TypeOK'
  <2>1. jobs \in Seq([op : Ops, task : Tasks])
    BY DEF IInv, TypeOK
  <2>2. jobs' \in Seq([op : Ops, task : Tasks])
    BY <2>1, Withdrawn DEF TimerCancelled
  <2> QED
    BY <2>2 DEF TimerCancelled, Goto, Consume, IInv, TypeOK, deviceVars, stateVars
<1>2. PlaceInv'
  BY DEF TimerCancelled, Goto, IInv, Inv, PlaceInv
<1>3. JobInv'
  <2>1. jobs \in Seq([op : Ops, task : Tasks]) /\ Len(jobs) \in Nat
    BY JobsTyped DEF IInv, TypeOK
  <2>2. /\ \A i \in 1..Len(jobs') :
               \E k \in 1..Len(jobs) : jobs'[i] = jobs[k] /\ jobs[k].task # "timer"
        /\ \A i, j \in 1..Len(jobs') : jobs'[i].task = jobs'[j].task => i = j
    <3>1. CASE \E i \in DOMAIN jobs : jobs[i].task = "timer" /\ jobs' = RemoveAt(jobs, i)
      <4>1. PICK n \in 1..Len(jobs) : jobs[n].task = "timer" /\ jobs' = RemoveAt(jobs, n)
        BY <2>1, <3>1
      <4>2. /\ Len(jobs') = Len(jobs) - 1
            /\ \A j \in 1..Len(jobs') : jobs'[j] = IF j < n THEN jobs[j] ELSE jobs[j + 1]
        BY <2>1, <4>1, Withdrawn
      <4>3. \A i, j \in 1..Len(jobs) : jobs[i].task = jobs[j].task => i = j
        BY DEF IInv, Inv, JobInv
      <4>4. \A i \in 1..Len(jobs') : i \in 1..Len(jobs) /\ i + 1 \in 1..Len(jobs)
        BY <2>1, <4>2
      <4>5. \A i \in 1..Len(jobs') : \E k \in 1..Len(jobs) : jobs'[i] = jobs[k] /\ k # n
        <5> TAKE i \in 1..Len(jobs')
        <5>1. CASE i < n
          BY <4>2, <4>4, <5>1
        <5>2. CASE ~(i < n)
          BY <4>2, <4>4, <5>2
        <5> QED
          BY <5>1, <5>2
      <4>6. \A i, j \in 1..Len(jobs') : jobs'[i].task = jobs'[j].task => i = j
        <5> TAKE i, j \in 1..Len(jobs')
        <5>1. CASE i < n /\ j < n
          BY <4>2, <4>3, <4>4, <5>1
        <5>2. CASE i < n /\ ~(j < n)
          BY <4>2, <4>3, <4>4, <5>2
        <5>3. CASE ~(i < n) /\ j < n
          BY <4>2, <4>3, <4>4, <5>3
        <5>4. CASE ~(i < n) /\ ~(j < n)
          <6>1. jobs'[i] = jobs[i + 1] /\ jobs'[j] = jobs[j + 1]
            BY <4>2, <5>4
          <6>2. jobs'[i].task = jobs'[j].task => i + 1 = j + 1
            BY <4>3, <4>4, <6>1
          <6> QED
            BY <6>2
        <5> QED
          BY <5>1, <5>2, <5>3, <5>4
      <4> QED
        BY <4>1, <4>3, <4>5, <4>6
    <3>2. CASE (\A i \in DOMAIN jobs : jobs[i].task # "timer") /\ UNCHANGED jobs
      BY <2>1, <3>2 DEF IInv, Inv, JobInv
    <3> QED
      BY <3>1, <3>2 DEF TimerCancelled
  <2>3. \A u \in Tasks \ {"timer"} : pc'[u] = pc[u] /\ reply'[u] = reply[u]
    BY DEF TimerCancelled, Goto, Consume, IInv, TypeOK
  <2>4. reply'["timer"] = "none"
    BY TaskFacts DEF TimerCancelled, Consume, IInv, TypeOK
  <2>5. \A u \in Tasks \ {"timer"}, o \in Ops : Awaits(u, o) => (Awaits(u, o))'
    BY <2>3 DEF Awaits
  <2>6. \A i \in 1..Len(jobs') :
            (Awaits(jobs[i].task, jobs[i].op))' /\ reply'[jobs'[i].task] = "none"
    <3> TAKE i \in 1..Len(jobs')
    <3>1. PICK k \in 1..Len(jobs) : jobs'[i] = jobs[k] /\ jobs[k].task # "timer"
      BY <2>2
    <3>2. /\ jobs[k].task \in Tasks \ {"timer"} /\ jobs[k].op \in Ops
          /\ Awaits(jobs[k].task, jobs[k].op) /\ reply[jobs[k].task] = "none"
      BY <3>1, JobsTyped DEF IInv, Inv, JobInv
    <3>3. pc'[jobs[k].task] = pc[jobs[k].task] /\ reply'[jobs[k].task] = "none"
      BY <2>3, <3>2
    <3> QED
      BY <3>1, <3>2, <3>3 DEF Awaits
  <2>7. \A u \in Tasks : reply'[u] # "none" => \E o \in Ops : (Awaits(u, o))'
    BY <2>3, <2>4, <2>5 DEF IInv, Inv, JobInv
  <2> QED
    BY <2>2, <2>6, <2>7 DEF JobInv
<1>4. StateInv'
  BY DEF TimerCancelled, Goto, stateVars, IInv, Inv, StateInv, Busy
<1>5. OutcomeInv'
  BY DEF TimerCancelled, Goto, Consume, deviceVars, IInv, Inv, OutcomeInv
<1>6. ReadInv'
  BY DEF TimerCancelled, Goto, Consume, deviceVars, IInv, Inv, ReadInv, Waits
<1>7. FenceInv'
  BY DEF TimerCancelled, Goto, FenceInv
<1>8. TimerInv'
  BY DEF TimerCancelled, Goto, TimerInv
<1>9. CalmInv'
  BY DEF TimerCancelled, IInv, Inv, CalmInv
<1> QED
  BY <1>1, <1>2, <1>3, <1>4, <1>5, <1>6, <1>7, <1>8, <1>9 DEF IInv, Inv

LEMMA TimerFiresStep ==
  ASSUME IInv, TimerFires
  PROVE  IInv'
<1>1. TypeOK'
  BY TaskFacts DEF TimerFires, Goto, Submit, RaiseFlag, deviceVars, IInv, TypeOK, Ops
<1>2. PlaceInv'
  BY DEF TimerFires, Goto, IInv, Inv, PlaceInv
<1>3. JobInv'
  BY TimesAssumption, TaskFacts DEF TimerFires, Goto, Submit, RaiseFlag, IInv, Inv, TypeOK,
     PlaceInv, JobInv, Awaits
<1>4. StateInv'
  BY TaskFacts DEF TimerFires, Goto, RaiseFlag, IInv, Inv, TypeOK, StateInv, Busy
<1>5. OutcomeInv'
  BY DEF TimerFires, Goto, deviceVars, IInv, Inv, OutcomeInv
<1>6. ReadInv'
  BY TaskFacts DEF TimerFires, Goto, IInv, Inv, PlaceInv, ReadInv, Waits, StateInv
<1>7. FenceInv'
  <2>1. \A i \in 1..Len(jobs) : jobs[i].task # "timer"
    BY JobsTyped DEF TimerFires, IInv, Inv, JobInv, Awaits
  <2>2. Submit("timer", "close")
    BY DEF TimerFires
  <2>3. \A i \in 1..Len(jobs') : (i \in 1..Len(jobs) /\ jobs'[i] = jobs[i]) \/ i = Len(jobs) + 1
    BY <2>2, Submitted, TaskFacts DEF Ops
  <2>4. Len(jobs) \in Nat /\ Len(jobs) + 1 \in 1..Len(jobs') /\ jobs'[Len(jobs) + 1].task = "timer"
    BY <2>2, Submitted, TaskFacts DEF Ops
  <2>5. reply["timer"] = "none" /\ reply' = reply /\ pc'["timer"] = "closing"
    BY TaskFacts DEF TimerFires, Goto, IInv, Inv, TypeOK, JobInv, Awaits
  <2>6. \A i, j \in 1..Len(jobs') : i < j /\ jobs'[i].task = "timer" => jobs'[j].op # "register"
    BY <2>1, <2>3, <2>4
  <2> QED
    BY <2>4, <2>5, <2>6 DEF FenceInv
<1>8. TimerInv'
  BY TaskFacts DEF TimerFires, Goto, IInv, TypeOK, TimerInv
<1>9. CalmInv'
  BY TimesAssumption, TaskFacts DEF TimerFires, Goto, IInv, Inv, PlaceInv, CalmInv,
     OpenShiftIsTimed, StateInv, Unread
<1> QED
  BY <1>1, <1>2, <1>3, <1>4, <1>5, <1>6, <1>7, <1>8, <1>9 DEF IInv, Inv

LEMMA TimerClosedStep ==
  ASSUME IInv, TimerClosed
  PROVE  IInv'
<1>1. TypeOK'
  BY DEF TimerClosed, Return, Goto, Consume, deviceVars, stateVars, IInv, TypeOK
<1>2. PlaceInv'
  BY TaskFacts DEF TimerClosed, Return, Goto, IInv, Inv, PlaceInv
<1>3. JobInv'
  BY DEF TimerClosed, Return, Goto, Consume, IInv, Inv, TypeOK, JobInv, Awaits
<1>4. StateInv'
  BY DEF TimerClosed, Return, Goto, stateVars, IInv, Inv, StateInv, Busy
<1>5. OutcomeInv'
  BY DEF TimerClosed, Return, Goto, Consume, deviceVars, IInv, Inv, PlaceInv, OutcomeInv
<1>6. ReadInv'
  BY TaskFacts DEF TimerClosed, Return, Goto, IInv, Inv, PlaceInv, ReadInv, Waits, StateInv
<1>7. FenceInv'
  BY TaskFacts DEF TimerClosed, Return, Goto, deviceVars, IInv, Inv, TypeOK, FenceInv
<1>8. TimerInv'
  BY DEF TimerClosed, Return, Goto, TimerInv
<1>9. CalmInv'
  BY DEF TimerClosed, Return, Goto, Consume, deviceVars, stateVars, IInv, Inv, TypeOK, CalmInv,
     OpenShiftIsTimed, FenceInv
<1> QED
  BY <1>1, <1>2, <1>3, <1>4, <1>5, <1>6, <1>7, <1>8, <1>9 DEF IInv, Inv

LEMMA OneBusy ==
  ASSUME IInv, NEW r \in Receipts, pc[r] = "undefined"
  PROVE  \A q \in Receipts : Busy(q) => q = r
BY DEF IInv, Inv, StateInv, Busy

LEMMA DelegateStep ==
  ASSUME IInv, NEW r \in Receipts, pc[r] \in {"idle", "undefined"},
         \A q \in Receipts : Busy(q) => q = r, Delegate(r)
  PROVE  IInv'
<1>1. UNCHANGED <<deviceVars, reply, reading, stateVars, calm>>
  BY DEF Delegate
<1>2. CASE state = "undefined" /\ Goto(r, "undefined") /\ UNCHANGED jobs
  <2>1. pc' = [pc EXCEPT ![r] = "undefined"] /\ UNCHANGED <<deviceVars, workVars, stateVars, calm>>
    BY <1>1, <1>2 DEF Goto, workVars
  <2> QED
    BY <1>2, <2>1, RegistrationWaits, Zenon
<1>3. CASE state = "open" /\ closing /\ Goto(r, "awaitClose") /\ UNCHANGED jobs
  BY <1>1, <1>3, RegistrationWaits DEF Goto, workVars
<1>4. CASE state = "closed" /\ Submit(r, "register") /\ Goto(r, "first")
  <2>1. /\ pc' = [pc EXCEPT ![r] = "first"]
        /\ UNCHANGED <<deviceVars, reply, reading, stateVars, calm>>
    BY <1>1, <1>4 DEF Goto
  <2> QED
    BY <1>4, <2>1, RegistrationSubmitted, Zenon
<1>5. CASE state = "open" /\ ~closing /\ Submit(r, "register") /\ Goto(r, "registering")
  BY <1>1, <1>5, RegistrationSubmitted DEF Goto
<1> QED
  BY <1>2, <1>3, <1>4, <1>5 DEF Delegate

LEMMA RegisterDefinedStep ==
  ASSUME IInv, NEW r \in Receipts, RegisterDefined(r)
  PROVE  IInv'
BY DelegateStep, OneBusy DEF RegisterDefined

LEMMA RegisteredStep ==
  ASSUME IInv, NEW r \in Receipts, Registered(r)
  PROVE  IInv'
<1>1. TypeOK'
  BY DEF Registered, Return, Goto, Consume, deviceVars, stateVars, IInv, TypeOK
<1>2. PlaceInv'
  BY DEF Registered, Return, Goto, IInv, Inv, PlaceInv
<1>3. JobInv'
  BY DEF Registered, Return, Goto, Consume, IInv, Inv, TypeOK, JobInv, Awaits, StateInv, Ops
<1>4. StateInv'
  BY DEF Registered, Return, Goto, stateVars, IInv, Inv, PlaceInv, StateInv, Busy
<1>5. OutcomeInv'
  BY DEF Registered, Return, Goto, Consume, deviceVars, IInv, Inv, TypeOK, OutcomeInv
<1>6. ReadInv'
  BY TaskFacts DEF Registered, Return, Goto, Consume, IInv, Inv, PlaceInv, ReadInv, Waits, StateInv
<1>7. FenceInv'
  BY DEF Registered, Return, Goto, Consume, deviceVars, IInv, Inv, FenceInv
<1>8. TimerInv'
  BY DEF Registered, Return, Goto, deviceVars, stateVars, IInv, Inv, TimerInv, Rest
<1>9. CalmInv'
  BY DEF Registered, Return, Goto, Consume, deviceVars, stateVars, IInv, Inv, CalmInv,
     OpenShiftIsTimed, Unread
<1> QED
  BY <1>1, <1>2, <1>3, <1>4, <1>5, <1>6, <1>7, <1>8, <1>9 DEF IInv, Inv

LEMMA FirstRegisteredStep ==
  ASSUME IInv, NEW r \in Receipts, FirstRegistered(r)
  PROVE  IInv'
<1>1. CASE reply[r] = "ok" /\ Submit(r, "info") /\ Goto(r, "rereading")
  BY <1>1, RegistrationReread DEF FirstRegistered, Goto, Consume
<1>2. CASE reply[r] = "error" /\ Goto(r, "failed") /\ UNCHANGED jobs
  <2>1. /\ pc[r] = "first" /\ reply' = [reply EXCEPT ![r] = "none"]
        /\ pc' = [pc EXCEPT ![r] = "failed"]
        /\ UNCHANGED <<deviceVars, jobs, reading, stateVars, calm>>
    BY <1>2 DEF FirstRegistered, Goto, Consume
  <2> QED
    BY <1>2, <2>1, RegistrationFails, Zenon
<1> QED
  BY <1>1, <1>2 DEF FirstRegistered

LEMMA RereadStep ==
  ASSUME IInv, NEW r \in Receipts, Reread(r)
  PROVE  IInv'
<1>1. CASE ChangeState(r, "ok")
  BY <1>1, ChangeStateStep DEF Reread
<1>2. CASE /\ reply[r] = "error" /\ Consume(r) /\ Goto(r, "unread")
           /\ UNCHANGED <<deviceVars, jobs, reading, stateVars, calm>>
  BY <1>2, RegistrationFails DEF Reread, Goto, Consume
<1> QED
  BY <1>1, <1>2 DEF Reread

LEMMA ClosingAwaitedStep ==
  ASSUME IInv, NEW r \in Receipts, ClosingAwaited(r)
  PROVE  IInv'
BY ClosingOver DEF ClosingAwaited, Goto

LEMMA CloseDefinedStep ==
  ASSUME IInv, NEW m \in Closers, CloseDefined(m)
  PROVE  IInv'
BY CallerMoves, CallerCloses DEF CloseDefined, DelegateClose, CancelTimer, Goto, workVars

LEMMA ClosedStep ==
  ASSUME IInv, NEW m \in Closers, Closed(m)
  PROVE  IInv'
<1>1. TypeOK'
  BY DEF Closed, Return, Goto, Consume, deviceVars, stateVars, IInv, TypeOK
<1>2. PlaceInv'
  BY TaskFacts DEF Closed, Return, Goto, IInv, Inv, PlaceInv
<1>3. JobInv'
  <2>1. /\ pc[m] = "closing" /\ reply[m] # "none" /\ m \in Tasks /\ jobs' = jobs
        /\ reply' = [reply EXCEPT ![m] = "none"]
        /\ \A u \in Tasks : u # m => pc'[u] = pc[u]
    BY TaskFacts DEF Closed, Return, Goto, Consume, IInv, TypeOK
  <2>2. /\ \A u \in Tasks : u # m => reply'[u] = reply[u]
        /\ reply'[m] = "none"
    BY <2>1 DEF IInv, TypeOK
  <2>3. \A i \in 1..Len(jobs) : jobs[i].task \in Tasks /\ jobs[i].task # m
    BY <2>1, JobsTyped DEF IInv, Inv, TypeOK, JobInv
  <2>4. \A i \in 1..Len(jobs') :
           (Awaits(jobs[i].task, jobs[i].op))' /\ reply'[jobs'[i].task] = "none"
    BY <2>1, <2>2, <2>3 DEF IInv, Inv, JobInv, Awaits
  <2>5. \A u \in Tasks : reply'[u] # "none" => \E op \in Ops : (Awaits(u, op))'
    BY <2>1, <2>2 DEF IInv, Inv, JobInv, Awaits
  <2> QED
    BY <2>1, <2>4, <2>5 DEF IInv, Inv, JobInv
<1>4. StateInv'
  BY TaskFacts DEF Closed, Return, Goto, stateVars, IInv, Inv, StateInv, Busy
<1>5. OutcomeInv'
  BY DEF Closed, Return, Goto, Consume, deviceVars, IInv, Inv, PlaceInv, OutcomeInv
<1>6. ReadInv'
  BY TaskFacts DEF Closed, Return, Goto, Consume, IInv, Inv, PlaceInv, ReadInv, Waits, StateInv
<1>7. FenceInv'
  BY DEF Closed, Return, Goto, Consume, deviceVars, IInv, Inv, TypeOK, FenceInv
<1>8. TimerInv'
  BY DEF Closed, Return, Goto, deviceVars, stateVars, IInv, Inv, TimerInv, Rest
<1>9. CalmInv'
  BY DEF Closed, Return, IInv, Inv, CalmInv
<1> QED
  BY <1>1, <1>2, <1>3, <1>4, <1>5, <1>6, <1>7, <1>8, <1>9 DEF IInv, Inv

LEMMA OpenDefinedStep ==
  ASSUME IInv, NEW m \in Closers, OpenDefined(m)
  PROVE  IInv'
BY CallerMoves DEF OpenDefined, DelegateOpen, Goto

LEMMA RegisterStep ==
  ASSUME IInv, NEW r \in Receipts, Register(r)
  PROVE  IInv'
BY DelegateStep DEF Register

LEMMA CloseShiftStep ==
  ASSUME IInv, NEW m \in Closers, CloseShift(m)
  PROVE  IInv'
BY CallerMoves, CallerCloses DEF CloseShift, DelegateClose, CancelTimer, Goto, workVars

LEMMA OpenShiftStep ==
  ASSUME IInv, NEW m \in Closers, OpenShift(m)
  PROVE  IInv'
BY CallerMoves DEF OpenShift, DelegateOpen, Goto

(* The worker takes the first job: its task awaits it and has no other. *)
LEMMA HeadTaken ==
  ASSUME IInv, Work, NEW t, t = Head(jobs).task, NEW op, op = Head(jobs).op
  PROVE  /\ t \in Tasks /\ op \in Ops /\ Awaits(t, op) /\ reply[t] = "none"
         /\ Len(jobs) \in Nat /\ Len(jobs) >= 1 /\ jobs[1].task = t /\ jobs[1].op = op
         /\ jobs' \in Seq([op : Ops, task : Tasks]) /\ Len(jobs') = Len(jobs) - 1
         /\ \A i \in 1..Len(jobs') :
                i + 1 \in 1..Len(jobs) /\ jobs'[i] = jobs[i + 1] /\ jobs'[i].task # t
         /\ \A u \in Tasks : ~Waits(u)
<1>1. /\ jobs \in Seq([op : Ops, task : Tasks]) /\ jobs # <<>> /\ jobs' = Tail(jobs)
      /\ Len(jobs) \in Nat
  BY JobsTyped DEF IInv, TypeOK, Work
<1>2. Len(jobs) >= 1 /\ Head(jobs) = jobs[1]
  BY <1>1
<1>3. /\ jobs' \in Seq([op : Ops, task : Tasks]) /\ Len(jobs') = Len(jobs) - 1
      /\ \A i \in 1..Len(jobs') : jobs'[i] = jobs[i + 1]
  BY <1>1, <1>2
<1>4. \A i \in 1..Len(jobs') : i + 1 \in 1..Len(jobs) /\ i + 1 # 1
  BY <1>1, <1>3
<1>5. t \in Tasks /\ op \in Ops /\ Awaits(t, op) /\ reply[t] = "none"
  BY <1>1, <1>2, JobsTyped DEF IInv, Inv, JobInv
<1>6. \A i \in 1..Len(jobs') : jobs'[i].task # t
  BY <1>1, <1>2, <1>3, <1>4 DEF IInv, Inv, JobInv
<1>7. \A u \in Tasks : ~Waits(u)
  BY <1>1, ReadStill
<1> QED
  BY <1>1, <1>2, <1>3, <1>4, <1>5, <1>6, <1>7

(* Its answer disturbs neither the queue nor what belongs to the loop. *)
LEMMA HeadAnswered ==
  ASSUME IInv, Work, NEW v \in {"ok", "error"},
         reply' = [reply EXCEPT ![Head(jobs).task] = v]
  PROVE  /\ PlaceInv' /\ JobInv' /\ StateInv'
         /\ reply' \in [Tasks -> {"none", "ok", "error"}]
         /\ reply'[Head(jobs).task] = v
         /\ \A u \in Tasks \ {Head(jobs).task} : reply'[u] = reply[u]
<1> DEFINE t == Head(jobs).task
           o == Head(jobs).op
<1>1. /\ t \in Tasks /\ o \in Ops /\ Awaits(t, o)
      /\ \A i \in 1..Len(jobs') :
             i + 1 \in 1..Len(jobs) /\ jobs'[i] = jobs[i + 1] /\ jobs'[i].task # t
      /\ Len(jobs) \in Nat /\ Len(jobs') = Len(jobs) - 1
  BY HeadTaken
<1> HIDE DEF t, o
<1>2. reply' = [reply EXCEPT ![t] = v] /\ reply \in [Tasks -> {"none", "ok", "error"}]
  BY DEF t, IInv, TypeOK
<1>3. /\ reply' \in [Tasks -> {"none", "ok", "error"}] /\ reply'[t] = v
      /\ \A u \in Tasks \ {t} : reply'[u] = reply[u]
  BY <1>1, <1>2
<1>4. pc' = pc /\ state' = state /\ closing' = closing /\ calm' = calm
  BY DEF Work, stateVars
<1>5. PlaceInv' /\ StateInv'
  BY <1>4 DEF IInv, Inv, PlaceInv, StateInv, Busy
<1>6. JobInv'
  <2>1. \A i \in 1..Len(jobs') :
            (Awaits(jobs[i].task, jobs[i].op))' /\ reply'[jobs'[i].task] = "none"
    <3> TAKE i \in 1..Len(jobs')
    <3>1. /\ jobs'[i] = jobs[i + 1] /\ jobs[i + 1].task \in Tasks \ {t}
          /\ Awaits(jobs[i + 1].task, jobs[i + 1].op) /\ reply[jobs[i + 1].task] = "none"
      BY <1>1, JobsTyped DEF IInv, Inv, JobInv
    <3>2. reply'[jobs[i + 1].task] = "none"
      BY <1>3, <3>1
    <3> QED
      BY <1>4, <3>1, <3>2 DEF Awaits
  <2>2. \A i, j \in 1..Len(jobs') : jobs'[i].task = jobs'[j].task => i = j
    <3> TAKE i, j \in 1..Len(jobs')
    <3>1. jobs[i + 1].task = jobs[j + 1].task => i + 1 = j + 1
      BY <1>1 DEF IInv, Inv, JobInv
    <3> QED
      BY <1>1, <3>1
  <2>3. \A u \in Tasks : reply'[u] # "none" => \E p \in Ops : (Awaits(u, p))'
    <3> SUFFICES ASSUME NEW u \in Tasks, reply'[u] # "none"
                 PROVE  \E p \in Ops : (Awaits(u, p))'
      OBVIOUS
    <3>1. \E p \in Ops : Awaits(u, p)
      BY <1>1, <1>3 DEF IInv, Inv, JobInv
    <3> QED
      BY <1>4, <3>1 DEF Awaits
  <2> QED
    BY <2>1, <2>2, <2>3 DEF JobInv
<1> QED
  BY <1>3, <1>5, <1>6 DEF t

(* A registration at the head finds the timer's job, if any, behind it. *)
LEMMA WorkRegisters ==
  ASSUME IInv, Work, Head(jobs).op = "register", DeviceRegisters(Head(jobs).task),
         UNCHANGED reading
  PROVE  IInv'
<1> DEFINE r == Head(jobs).task
<1>1. /\ r \in Tasks /\ pc[r] \in {"first", "registering"} /\ reply[r] = "none"
      /\ Len(jobs) \in Nat /\ Len(jobs) >= 1 /\ jobs[1].task = r /\ jobs[1].op = "register"
      /\ jobs' \in Seq([op : Ops, task : Tasks]) /\ Len(jobs') = Len(jobs) - 1
      /\ \A i \in 1..Len(jobs') :
             i + 1 \in 1..Len(jobs) /\ jobs'[i] = jobs[i + 1] /\ jobs'[i].task # r
      /\ \A u \in Tasks : ~Waits(u)
  BY HeadTaken DEF Awaits
<1>2. DeviceRegisters(r)
  OBVIOUS
<1>3. \A v \in {"ok", "error"} : reply' = [reply EXCEPT ![r] = v] =>
          /\ PlaceInv' /\ JobInv' /\ StateInv' /\ reply'[r] = v
          /\ reply' \in [Tasks -> {"none", "ok", "error"}]
          /\ \A u \in Tasks \ {r} : reply'[u] = reply[u]
  BY HeadAnswered
<1> HIDE DEF r
<1>4. r \in Receipts /\ r # "timer" /\ r \notin Closers
  BY <1>1, TaskFacts DEF IInv, Inv, PlaceInv
<1>5. UNCHANGED <<stateVars, pc, calm, reading>>
  BY DEF Work
<1>6. PICK v \in {"ok", "error"} :
          /\ reply' = [reply EXCEPT ![r] = v]
          /\ v = "ok" => /\ open' = TRUE /\ age' = (IF open THEN age ELSE 0)
                         /\ journal' = [journal EXCEPT ![r] = @ + 1]
          /\ v = "error" => ~calm /\ open' \in {open, TRUE} /\ age' = age /\ journal' = journal
  BY <1>2 DEF DeviceRegisters, Refuses
<1>7. /\ PlaceInv' /\ JobInv' /\ StateInv' /\ reply'[r] = v
      /\ reply' \in [Tasks -> {"none", "ok", "error"}]
      /\ \A u \in Tasks \ {r} : reply'[u] = reply[u]
  BY <1>3, <1>6
<1>8. open' \in BOOLEAN /\ (open => open' /\ age' = age) /\ age' \in {age, 0}
  <2>1. CASE v = "ok"
    BY <1>6, <2>1 DEF IInv, TypeOK
  <2>2. CASE v = "error"
    <3>1. age' = age /\ (open' = open \/ open' = TRUE)
      BY <1>6, <2>2
    <3>2. open \in BOOLEAN
      BY DEF IInv, TypeOK
    <3>3. CASE open' = open
      BY <3>1, <3>2, <3>3
    <3>4. CASE open' = TRUE
      BY <3>1, <3>4
    <3> QED
      BY <3>1, <3>3, <3>4
  <2> QED
    BY <2>1, <2>2
<1>9. pc["timer"] # "done" /\ ~(pc["timer"] = "closing" /\ reply["timer"] = "ok")
  BY <1>1 DEF IInv, Inv, FenceInv
<1>10. TypeOK'
  <2>1. journal' \in [Receipts -> Nat]
    <3>1. CASE v = "ok"
      BY <1>4, <1>6, <3>1 DEF IInv, TypeOK
    <3>2. CASE v = "error"
      BY <1>6, <3>2 DEF IInv, TypeOK
    <3> QED
      BY <3>1, <3>2
  <2> QED
    BY <1>1, <1>5, <1>7, <1>8, <2>1, TimesAssumption DEF IInv, TypeOK, stateVars
<1>11. OutcomeInv'
  <2>1. journal[r] = 0 /\ journal \in [Receipts -> Nat]
    BY <1>1, <1>4 DEF IInv, Inv, TypeOK, OutcomeInv
  <2>2. journal'[r] = IF reply'[r] = "ok" THEN 1 ELSE 0
    <3>1. CASE v = "ok"
      BY <1>4, <1>6, <1>7, <2>1, <3>1
    <3>2. CASE v = "error"
      BY <1>6, <1>7, <2>1, <3>2
    <3> QED
      BY <3>1, <3>2
  <2>3. \A q \in Receipts \ {r} : journal'[q] = journal[q] /\ reply'[q] = reply[q]
    BY <1>4, <1>6, <1>7, <2>1, TaskFacts
  <2> QED
    BY <1>1, <1>5, <2>2, <2>3 DEF IInv, Inv, OutcomeInv
<1>12. ReadInv'
  <2>1. \A u \in Tasks : ~(Waits(u))'
    BY <1>1, <1>5, <1>7 DEF Waits
  <2> QED
    BY <1>1, <1>5, <2>1, NobodyWaits
<1>13. FenceInv'
  <2>1. pc["timer"] = "closing" => \A i, j \in 1..Len(jobs') :
            i < j /\ jobs'[i].task = "timer" => jobs'[j].op # "register"
    <3> SUFFICES ASSUME pc["timer"] = "closing", NEW i \in 1..Len(jobs'), NEW j \in 1..Len(jobs'),
                        i < j, jobs'[i].task = "timer"
                 PROVE  jobs'[j].op # "register"
      OBVIOUS
    <3>1. i + 1 < j + 1 /\ jobs[i + 1].task = "timer" => jobs[j + 1].op # "register"
      BY <1>1 DEF IInv, Inv, FenceInv
    <3> QED
      BY <1>1, <3>1
  <2>2. pc["timer"] = "closing" /\ reply["timer"] = "none" =>
            \E i \in 1..Len(jobs') : jobs'[i].task = "timer"
    <3> SUFFICES ASSUME pc["timer"] = "closing" /\ reply["timer"] = "none"
                 PROVE  \E i \in 1..Len(jobs') : jobs'[i].task = "timer"
      OBVIOUS
    <3>1. PICK i \in 1..Len(jobs) : jobs[i].task = "timer"
      BY DEF IInv, Inv, FenceInv
    <3>2. i # 1
      BY <1>1, <1>4, <3>1
    <3>3. i - 1 \in 1..Len(jobs') /\ (i - 1) + 1 = i
      BY <1>1, <3>2
    <3>4. jobs'[i - 1].task = "timer"
      BY <1>1, <3>1, <3>3
    <3> QED
      BY <3>3, <3>4
  <2>3. reply'["timer"] = reply["timer"] /\ pc' = pc
    BY <1>4, <1>5, <1>7, TaskFacts
  <2> QED
    BY <1>9, <2>1, <2>2, <2>3 DEF FenceInv
<1>14. TimerInv'
  BY <1>1, <1>5, <1>8 DEF IInv, Inv, TimerInv, Rest, stateVars
<1>15. CalmInv'
  <2> SUFFICES ASSUME calm PROVE CalmInv'
    BY <1>5 DEF CalmInv
  <2>1. v = "ok" /\ open' = TRUE /\ age' = (IF open THEN age ELSE 0)
    BY <1>6
  <2>2. \A u \in Tasks : reply'[u] # "error"
    BY <1>7, <2>1 DEF IInv, Inv, CalmInv
  <2>3. (\E u \in Tasks : pc[u] \in Unread) => age' < Duration
    BY <2>1, TimesAssumption DEF IInv, Inv, CalmInv
  <2>4. \/ state = "undefined"
        \/ state = "open" /\ pc["timer"] \in {"starting", "sleeping", "closing"}
        \/ state = "closed" /\ \E q \in Receipts : pc[q] \in {"first", "rereading"}
    BY <1>1, <1>4, <1>9 DEF IInv, Inv, StateInv, CalmInv
  <2> QED
    BY <1>5, <2>1, <2>2, <2>3, <2>4 DEF IInv, Inv, CalmInv, OpenShiftIsTimed, stateVars
<1> QED
  BY <1>7, <1>10, <1>11, <1>12, <1>13, <1>14, <1>15 DEF IInv, Inv

(* No timer sleeps while the device is told to close the shift. *)
LEMMA WorkCloses ==
  ASSUME IInv, Work, Head(jobs).op = "close", DeviceCloses(Head(jobs).task), UNCHANGED reading
  PROVE  IInv'
<1> DEFINE t == Head(jobs).task
<1>1. /\ t \in Tasks /\ pc[t] \in {"closing", "cancelling"} /\ reply[t] = "none"
      /\ Len(jobs) \in Nat /\ Len(jobs) >= 1 /\ jobs[1].task = t /\ jobs[1].op = "close"
      /\ jobs' \in Seq([op : Ops, task : Tasks]) /\ Len(jobs') = Len(jobs) - 1
      /\ \A i \in 1..Len(jobs') :
             i + 1 \in 1..Len(jobs) /\ jobs'[i] = jobs[i + 1] /\ jobs'[i].task # t
      /\ \A u \in Tasks : ~Waits(u)
  BY HeadTaken DEF Awaits
<1>2. DeviceCloses(t)
  OBVIOUS
<1>3. \A v \in {"ok", "error"} : reply' = [reply EXCEPT ![t] = v] =>
          /\ PlaceInv' /\ JobInv' /\ StateInv' /\ reply'[t] = v
          /\ reply' \in [Tasks -> {"none", "ok", "error"}]
          /\ \A u \in Tasks \ {t} : reply'[u] = reply[u]
  BY HeadAnswered
<1> HIDE DEF t
<1>4. t = "timer" \/ t \in Closers
  BY <1>1, TaskFacts DEF IInv, Inv, PlaceInv
<1>5. UNCHANGED <<stateVars, pc, calm, reading>>
  BY DEF Work
<1>6. PICK v \in {"ok", "error"} :
          /\ reply' = [reply EXCEPT ![t] = v]
          /\ v = "ok" => open' = FALSE /\ age' = 0
          /\ v = "error" => ~calm /\ open' = open /\ age' = age
          /\ journal' = journal
  BY <1>2 DEF DeviceCloses, Refuses, deviceVars
<1>7. /\ PlaceInv' /\ JobInv' /\ StateInv' /\ reply'[t] = v
      /\ reply' \in [Tasks -> {"none", "ok", "error"}]
      /\ \A u \in Tasks \ {t} : reply'[u] = reply[u]
  BY <1>3, <1>6
<1>8. \A r \in Receipts : r \in Tasks /\ r # t /\ reply'[r] = reply[r]
  BY <1>4, <1>7, TaskFacts
<1>9. pc["timer"] \notin {"starting", "sleeping"}
  BY <1>1 DEF IInv, Inv, TimerInv
<1>10. TypeOK'
  <2>1. open' \in BOOLEAN /\ age' \in 0..MaxAge
    <3>1. CASE v = "ok"
      <4>1. open' = FALSE /\ age' = 0
        BY <1>6, <3>1
      <4>2. open' \in BOOLEAN
        BY <4>1
      <4>3. age' \in 0..MaxAge
        BY <4>1, TimesAssumption
      <4> QED
        BY <4>2, <4>3
    <3>2. CASE v = "error"
      BY <1>6, <3>2 DEF IInv, TypeOK
    <3> QED
      BY <3>1, <3>2
  <2> QED
    BY <1>1, <1>5, <1>6, <1>7, <2>1 DEF IInv, TypeOK, stateVars
<1>11. OutcomeInv'
  BY <1>5, <1>6, <1>8 DEF IInv, Inv, OutcomeInv
<1>12. ReadInv'
  <2>1. \A u \in Tasks : ~(Waits(u))'
    BY <1>1, <1>5, <1>7 DEF Waits
  <2> QED
    BY <1>1, <1>5, <2>1, NobodyWaits
<1>13. FenceInv'
  <2>1. pc["timer"] = "closing" => \A i, j \in 1..Len(jobs') :
            i < j /\ jobs'[i].task = "timer" => jobs'[j].op # "register"
    <3> SUFFICES ASSUME pc["timer"] = "closing", NEW i \in 1..Len(jobs'), NEW j \in 1..Len(jobs'),
                        i < j, jobs'[i].task = "timer"
                 PROVE  jobs'[j].op # "register"
      OBVIOUS
    <3>1. i + 1 < j + 1 /\ jobs[i + 1].task = "timer" => jobs[j + 1].op # "register"
      BY <1>1 DEF IInv, Inv, FenceInv
    <3> QED
      BY <1>1, <3>1
  <2>2. CASE t = "timer"
    <3>1. pc["timer"] # "done" /\ reply'["timer"] = v
      BY <1>1, <1>7, <2>2
    <3>2. pc["timer"] = "closing" => \A j \in 1..Len(jobs') : jobs'[j].op # "register"
      <4> SUFFICES ASSUME pc["timer"] = "closing", NEW j \in 1..Len(jobs')
                   PROVE  jobs'[j].op # "register"
        OBVIOUS
      <4>1. 1 \in 1..Len(jobs) /\ j + 1 \in 1..Len(jobs) /\ 1 < j + 1 /\ jobs'[j] = jobs[j + 1]
        BY <1>1
      <4> QED
        BY <1>1, <2>2, <4>1 DEF IInv, Inv, FenceInv
    <3> QED
      BY <1>5, <1>6, <2>1, <3>1, <3>2 DEF FenceInv
  <2>3. CASE t # "timer"
    <3>1. reply'["timer"] = reply["timer"]
      BY <1>7, <2>3, TaskFacts
    <3>2. pc["timer"] = "closing" /\ reply["timer"] = "none" =>
              \E i \in 1..Len(jobs') : jobs'[i].task = "timer"
      <4> SUFFICES ASSUME pc["timer"] = "closing" /\ reply["timer"] = "none"
                   PROVE  \E i \in 1..Len(jobs') : jobs'[i].task = "timer"
        OBVIOUS
      <4>1. PICK i \in 1..Len(jobs) : jobs[i].task = "timer"
        BY DEF IInv, Inv, FenceInv
      <4>2. i # 1
        BY <1>1, <2>3, <4>1
      <4>3. i - 1 \in 1..Len(jobs') /\ (i - 1) + 1 = i
        BY <1>1, <4>2
      <4>4. jobs'[i - 1].task = "timer"
        BY <1>1, <4>1, <4>3
      <4> QED
        BY <4>3, <4>4
    <3>3. pc["timer"] = "done" \/ (pc["timer"] = "closing" /\ reply["timer"] = "ok") =>
              ~open' /\ \A j \in 1..Len(jobs') : jobs'[j].op # "register"
      BY <1>1, <1>6 DEF IInv, Inv, FenceInv
    <3> QED
      BY <1>5, <2>1, <3>1, <3>2, <3>3 DEF FenceInv
  <2> QED
    BY <2>2, <2>3
<1>14. TimerInv'
  BY <1>5, <1>9 DEF TimerInv
<1>15. CalmInv'
  <2> SUFFICES ASSUME calm PROVE CalmInv'
    BY <1>5 DEF CalmInv
  <2>1. v = "ok" /\ open' = FALSE
    BY <1>6
  <2>2. \A u \in Tasks : reply'[u] # "error"
    BY <1>7, <2>1 DEF IInv, Inv, CalmInv
  <2>3. \A m \in Closers : pc[m] = "idle"
    BY DEF IInv, Inv, CalmInv
  <2>4. state = "open"
    BY <1>1, <1>4, <2>3 DEF IInv, Inv, StateInv
  <2>5. \A r \in Receipts : pc[r] \notin {"first", "rereading"}
    BY <2>4 DEF IInv, Inv, StateInv
  <2> QED
    BY <1>5, <1>9, <2>1, <2>2, <2>5 DEF IInv, Inv, CalmInv, OpenShiftIsTimed
<1> QED
  BY <1>7, <1>10, <1>11, <1>12, <1>13, <1>14, <1>15 DEF IInv, Inv

(* The shift is read when nothing else is to do. *)
LEMMA ReadsAlone ==
  ASSUME IInv, NEW t \in Tasks, pc[t] \in {"reading", "rereading"}
  PROVE  /\ state # "open" /\ pc["timer"] = "none"
         /\ \A u \in Tasks, o \in Ops : Awaits(u, o) => u = t
<1>1. \/ t = "boot" /\ state = "undefined"
      \/ t \in Receipts /\ state = "closed" /\ pc[t] = "rereading"
  <2>1. t # "timer" /\ t \notin Closers
    BY DEF IInv, Inv, PlaceInv
  <2>2. CASE t = "boot"
    <3>1. pc["boot"] = "reading"
      BY <2>2 DEF IInv, Inv, PlaceInv
    <3>2. state = "undefined"
      BY <3>1 DEF IInv, Inv, StateInv
    <3> QED
      BY <2>2, <3>2
  <2>3. CASE t \in Receipts
    <3>1. pc[t] = "rereading"
      BY <2>3 DEF IInv, Inv, PlaceInv
    <3> QED
      BY <2>3, <3>1 DEF IInv, Inv, StateInv
  <2> QED
    BY <2>1, <2>2, <2>3, TaskFacts
<1>2. state # "open" /\ pc["timer"] = "none"
  BY <1>1 DEF IInv, Inv, StateInv
<1>3. ASSUME NEW u \in Tasks, NEW o \in Ops, Awaits(u, o)
      PROVE  u = t
  <2>1. u # "timer"
    BY <1>2, <1>3 DEF Awaits
  <2>2. u \notin Closers
    BY <1>2, <1>3 DEF Awaits, IInv, Inv, PlaceInv, StateInv
  <2>3. CASE u = "boot"
    <3>1. pc["boot"] = "reading"
      BY <1>3, <2>3 DEF Awaits, IInv, Inv, PlaceInv
    <3>2. state = "undefined"
      BY <3>1 DEF IInv, Inv, StateInv
    <3> QED
      BY <1>1, <2>3, <3>2
  <2>4. CASE u \in Receipts
    <3>1. pc[u] \in {"first", "rereading", "registering"}
      BY <1>3, <2>4 DEF Awaits, IInv, Inv, PlaceInv
    <3>2. state # "undefined"
      BY <2>4, <3>1 DEF IInv, Inv, StateInv
    <3>3. t \in Receipts /\ Busy(t) /\ Busy(u)
      BY <1>1, <3>1, <3>2 DEF Busy
    <3> QED
      BY <2>4, <3>3 DEF IInv, Inv, StateInv
  <2> QED
    BY <2>1, <2>2, <2>3, <2>4, TaskFacts
<1> QED
  BY <1>2, <1>3

LEMMA WorkTells ==
  ASSUME IInv, Work, Head(jobs).op = "info", DeviceTells(Head(jobs).task)
  PROVE  IInv'
<1> DEFINE t == Head(jobs).task
<1>1. /\ t \in Tasks /\ pc[t] \in {"reading", "rereading"} /\ reply[t] = "none"
      /\ Len(jobs) \in Nat /\ Len(jobs) >= 1
      /\ jobs' \in Seq([op : Ops, task : Tasks]) /\ Len(jobs') = Len(jobs) - 1
      /\ \A i \in 1..Len(jobs') :
             i + 1 \in 1..Len(jobs) /\ jobs'[i] = jobs[i + 1] /\ jobs'[i].task # t
      /\ \A u \in Tasks : ~Waits(u)
  BY HeadTaken DEF Awaits
<1>2. DeviceTells(t)
  OBVIOUS
<1>3. \A v \in {"ok", "error"} : reply' = [reply EXCEPT ![t] = v] =>
          /\ PlaceInv' /\ JobInv' /\ StateInv' /\ reply'[t] = v
          /\ reply' \in [Tasks -> {"none", "ok", "error"}]
          /\ \A u \in Tasks \ {t} : reply'[u] = reply[u]
  BY HeadAnswered
<1> HIDE DEF t
<1>4. state # "open" /\ pc["timer"] = "none" /\ \A u \in Tasks, o \in Ops : Awaits(u, o) => u = t
  BY <1>1, ReadsAlone
<1>5. UNCHANGED <<stateVars, pc, calm, deviceVars>>
  BY <1>2 DEF Work, DeviceTells
<1>6. PICK v \in {"ok", "error"} :
          /\ reply' = [reply EXCEPT ![t] = v]
          /\ v = "ok" => reading' = [open |-> open, age |-> age]
          /\ v = "error" => ~calm /\ reading' = reading
  BY <1>2 DEF DeviceTells, Refuses
<1>7. /\ PlaceInv' /\ JobInv' /\ StateInv' /\ reply'[t] = v
      /\ reply' \in [Tasks -> {"none", "ok", "error"}]
      /\ \A u \in Tasks \ {t} : reply'[u] = reply[u]
  BY <1>3, <1>6
<1>8. jobs' = <<>>
  <2>1. \A i \in 1..Len(jobs') : FALSE
    BY <1>1, <1>4, JobsTyped DEF IInv, Inv, JobInv
  <2>2. Len(jobs') = 0
    BY <1>1, <2>1
  <2> QED
    BY <1>1, <2>2
<1>9. TypeOK'
  <2>1. reading' \in [open : BOOLEAN, age : 0..MaxAge]
    BY <1>6 DEF IInv, TypeOK
  <2> QED
    BY <1>1, <1>5, <1>7, <2>1 DEF IInv, TypeOK, stateVars, deviceVars
<1>10. OutcomeInv'
  <2>1. \A r \in Receipts : pc[r] \in {"first", "registering"} => r # t
    BY <1>1
  <2> QED
    BY <1>5, <1>7, <2>1, TaskFacts DEF IInv, Inv, OutcomeInv, deviceVars
<1>11. ReadInv'
  <2>1. \A u \in Tasks : (Waits(u))' => u = t /\ v = "ok"
    BY <1>1, <1>5, <1>7 DEF Waits
  <2>2. v = "ok" => \A u \in Tasks : u = t => (Waits(u))'
    BY <1>1, <1>5, <1>7 DEF Waits
  <2>3. ~reading.open
    BY <1>1 DEF IInv, Inv, ReadInv
  <2> QED
    BY <1>1, <1>5, <1>6, <1>8, <2>1, <2>2, <2>3 DEF ReadInv, deviceVars
<1>12. FenceInv' /\ TimerInv'
  BY <1>4, <1>5 DEF FenceInv, TimerInv
<1>13. CalmInv'
  <2> SUFFICES ASSUME calm PROVE CalmInv'
    BY <1>5 DEF CalmInv
  <2>1. \A u \in Tasks : reply'[u] # "error"
    BY <1>6, <1>7 DEF IInv, Inv, CalmInv
  <2>2. \A r \in Receipts : pc[r] = "first" => reply'[r] = reply[r]
    BY <1>1, <1>7, TaskFacts
  <2> QED
    BY <1>5, <2>1, <2>2 DEF IInv, Inv, CalmInv, OpenShiftIsTimed, stateVars, deviceVars
<1> QED
  BY <1>7, <1>9, <1>10, <1>11, <1>12, <1>13 DEF IInv, Inv

LEMMA WorkStep ==
  ASSUME IInv, Work
  PROVE  IInv'
BY WorkRegisters, WorkCloses, WorkTells DEF Work

LEMMA TickStep ==
  ASSUME IInv, Tick
  PROVE  IInv'
<1>1. TypeOK'
  <2>1. reading.open => reading.age + 1 \in 0..MaxAge
    <3> SUFFICES ASSUME reading.open PROVE reading.age + 1 \in 0..MaxAge
      OBVIOUS
    <3>1. PICK t \in Tasks : Waits(t)
      BY DEF IInv, Inv, ReadInv
    <3>2. reading.age = age
      BY <3>1 DEF IInv, Inv, ReadInv, Tick
    <3> QED
      BY <3>2, TimesAssumption DEF Tick, IInv, TypeOK
  <2>2. reading' \in [open : BOOLEAN, age : 0..MaxAge]
    BY <2>1 DEF Tick, IInv, TypeOK
  <2>3. age' \in 0..MaxAge /\ left' \in 0..Duration
    BY TimesAssumption DEF Tick, IInv, TypeOK
  <2> QED
    BY <2>2, <2>3 DEF Tick, IInv, TypeOK
<1>2. PlaceInv'
  BY DEF Tick, IInv, Inv, PlaceInv
<1>3. JobInv'
  BY DEF Tick, IInv, Inv, JobInv, Awaits
<1>4. StateInv'
  BY DEF Tick, IInv, Inv, StateInv, Busy
<1>5. OutcomeInv'
  BY DEF Tick, IInv, Inv, OutcomeInv
<1>6. ReadInv'
  BY DEF Tick, IInv, Inv, TypeOK, ReadInv, Waits
<1>7. FenceInv'
  BY DEF Tick, IInv, Inv, FenceInv
<1>8. TimerInv'
  BY TimesAssumption DEF Tick, IInv, Inv, TypeOK, TimerInv, Rest
<1>9. CalmInv'
  BY DEF Tick, IInv, Inv, CalmInv, OpenShiftIsTimed
<1> QED
  BY <1>1, <1>2, <1>3, <1>4, <1>5, <1>6, <1>7, <1>8, <1>9 DEF IInv, Inv

-----------------------------------------------------------------------------
(* The theorems *)

LEMMA InvInit ==
  ASSUME Init
  PROVE  IInv
<1>1. TypeOK
  <2>1. age \in 0..MaxAge /\ open \in BOOLEAN /\ reading \in [open : BOOLEAN, age : 0..MaxAge]
    <3>1. open \in BOOLEAN
      BY DEF Init
    <3>2. age \in 0..MaxAge /\ 0 \in 0..MaxAge
      BY TimesAssumption DEF Init
    <3> QED
      BY <3>1, <3>2 DEF Init, NoReading
  <2>2. /\ journal \in [Receipts -> Nat] /\ jobs \in Seq([op : Ops, task : Tasks])
        /\ left \in 0..Duration
    BY TimesAssumption DEF Init
  <2>3. pc \in [Tasks -> {"none", "start", "idle"}]
    BY DEF Init
  <2>4. reply \in [Tasks -> {"none", "ok", "error"}]
    BY DEF Init
  <2> QED
    BY <2>1, <2>2, <2>3, <2>4 DEF Init, TypeOK
<1>2. /\ pc["boot"] = "start" /\ pc["timer"] = "none"
      /\ \A r \in Receipts : pc[r] = "idle"
      /\ \A m \in Closers : pc[m] = "idle"
      /\ \A t \in Tasks : reply[t] = "none"
  BY TaskFacts DEF Init
<1>3. PlaceInv /\ StateInv /\ OutcomeInv
  BY <1>2 DEF Init, PlaceInv, StateInv, OutcomeInv, Busy
<1>4. JobInv /\ FenceInv /\ TimerInv
  BY <1>2 DEF Init, JobInv, FenceInv, TimerInv
<1>5. ReadInv
  BY <1>2 DEF Init, ReadInv, Waits, NoReading
<1>6. CalmInv
  BY <1>2, TimesAssumption DEF Init, CalmInv, OpenShiftIsTimed
<1> QED
  BY <1>1, <1>3, <1>4, <1>5, <1>6 DEF IInv, Inv

LEMMA Stutter ==
  ASSUME IInv, UNCHANGED vars
  PROVE  IInv'
<1>1. /\ UNCHANGED <<calm, open, age, journal, jobs, reply, reading>>
      /\ UNCHANGED <<state, closing, left, pc>>
  BY DEF vars, deviceVars, workVars, stateVars
<1>2. TypeOK'
  BY <1>1 DEF IInv, TypeOK
<1>3. PlaceInv' /\ JobInv' /\ StateInv' /\ OutcomeInv'
  BY <1>1 DEF IInv, Inv, PlaceInv, JobInv, StateInv, OutcomeInv, Awaits, Busy
<1>4. ReadInv' /\ FenceInv' /\ TimerInv'
  BY <1>1 DEF IInv, Inv, ReadInv, FenceInv, TimerInv, Waits, Rest
<1>5. CalmInv'
  BY <1>1 DEF IInv, Inv, CalmInv, OpenShiftIsTimed
<1> QED
  BY <1>2, <1>3, <1>4, <1>5 DEF IInv, Inv

LEMMA InvStep ==
  ASSUME IInv, [Next]_vars
  PROVE  IInv'
<1>1. CASE Boot \/ BootRead \/ TimerStarts \/ TimerCancelled \/ TimerFires \/ TimerClosed
  BY <1>1, BootStep, BootReadStep, TimerStartsStep, TimerCancelledStep, TimerFiresStep,
     TimerClosedStep
<1>2. ASSUME NEW r \in Receipts,
             \/ RegisterDefined(r) \/ Registered(r) \/ FirstRegistered(r)
             \/ Reread(r) \/ ClosingAwaited(r) \/ Register(r)
      PROVE  IInv'
  BY <1>2, RegisterDefinedStep, RegisteredStep, FirstRegisteredStep, RereadStep,
     ClosingAwaitedStep, RegisterStep
<1>3. ASSUME NEW m \in Closers,
             CloseDefined(m) \/ Closed(m) \/ OpenDefined(m) \/ CloseShift(m) \/ OpenShift(m)
      PROVE  IInv'
  BY <1>3, CloseDefinedStep, ClosedStep, OpenDefinedStep, CloseShiftStep, OpenShiftStep
<1>4. CASE Work
  BY <1>4, WorkStep
<1>5. CASE Tick
  BY <1>5, TickStep
<1>6. CASE UNCHANGED vars
  BY <1>6, Stutter
<1> QED
  BY <1>1, <1>2, <1>3, <1>4, <1>5, <1>6 DEF Next, Loop, Callers

(* The inductive invariant holds. *)
LEMMA Invariance == Spec => []IInv
<1>1. Init => IInv
  BY InvInit
<1>2. IInv /\ [Next]_vars => IInv'
  BY InvStep
<1> QED
  BY <1>1, <1>2, PTL DEF Spec

(* Every reachable state is well formed, for any receipts, callers, durations, ages *)
(* and refusals (AsyncRegistrator, base.py lines 157 to 312). *)
THEOREM TypeCorrect == Spec => []TypeOK
<1>1. IInv => TypeOK
  BY DEF IInv
<1> QED
  BY <1>1, Invariance, PTL

(* A registration that returned is in the device's journal once; one that raised is *)
(* not, in whatever state of the shift it was delegated, unless it raised because the *)
(* shift could not be read after it was registered: then it is there once as well.  *)
THEOREM OutcomesAreTrue == Spec => []OutcomeTrue
<1>1. IInv => OutcomeTrue
  <2> SUFFICES ASSUME IInv, NEW r \in Receipts
               PROVE  /\ pc[r] = "ok" => journal[r] = 1
                      /\ Raised(r) => journal[r] = IF pc[r] = "unread" THEN 1 ELSE 0
                      /\ journal[r] <= 1
    BY DEF OutcomeTrue
  <2> QED
    BY DEF IInv, Inv, PlaceInv, OutcomeInv, Raised
<1> QED
  BY <1>1, Invariance, PTL

(* A timer that sleeps belongs to the open shift and wakes when it is Duration old, *)
(* though change_state read the age in an earlier step. *)
THEOREM TimerIsRight == Spec => []ArmedTimerMatchesShift
<1>1. IInv => ArmedTimerMatchesShift
  BY DEF IInv, Inv, TimerInv, Rest, ArmedTimerMatchesShift
<1> QED
  BY <1>1, Invariance, PTL

(* No registration gets behind the timer's job: the shift it has closed is closed. *)
THEOREM NothingAfterClosing == Spec => []ClosingFence
<1>1. ASSUME IInv PROVE ClosingFence
  <2>1. DOMAIN jobs = 1..Len(jobs)
    BY <1>1 DEF IInv, TypeOK
  <2> QED
    BY <1>1, <2>1 DEF IInv, Inv, FenceInv, ClosingFence
<1> QED
  BY <1>1, Invariance, PTL

(* On a device that obeys, a shift that is open has a timer that is to close it or *)
(* is not yet known to the state machine. *)
THEOREM OpenMeansTimed == Spec => []OpenShiftIsTimed
<1>1. IInv => OpenShiftIsTimed
  BY DEF IInv, Inv, CalmInv, OpenShiftIsTimed
<1> QED
  BY <1>1, Invariance, PTL

-----------------------------------------------------------------------------
(* After the automatic closing *)

(* Once the timer has closed its shift nothing is registered any more, and a registration *)
(* that is called then comes to the two waits of AutoShiftOpenState and no further.       *)
Parked == {"idle", "awaitClose", "awaitState"}
EndOfBusiness ==
    pc["timer"] = "done" =>
        /\ pc'["timer"] = "done"
        /\ journal' = journal
        /\ \A r \in Receipts : pc[r] \in Parked => pc'[r] \in Parked

(* The timer is done: the state is open and closing, and nobody reads the shift. *)
LEMMA ClosedState ==
  ASSUME IInv, pc["timer"] = "done"
  PROVE  /\ state = "open" /\ closing /\ pc["boot"] = "done"
         /\ \A r \in Receipts : pc[r] \notin {"first", "rereading"}
BY DEF IInv, Inv, StateInv

(* A registration that is called or told of the state meets the closing timer. *)
LEMMA ParkedDelegate ==
  ASSUME IInv, pc["timer"] = "done", NEW r \in Receipts, Delegate(r)
  PROVE  pc' = [pc EXCEPT ![r] = "awaitClose"]
<1>1. state = "open" /\ closing
  BY ClosedState
<1> QED
  BY <1>1 DEF Delegate, Goto

(* A task that goes where it is to go leaves the others where they are. *)
LEMMA OthersStay ==
  ASSUME TypeOK, NEW t \in Tasks, NEW w, pc' = [pc EXCEPT ![t] = w], t # "timer",
         t \in Receipts => w \in Parked \/ pc[t] \notin Parked
  PROVE  /\ pc'["timer"] = pc["timer"]
         /\ \A r \in Receipts : pc[r] \in Parked => pc'[r] \in Parked
BY DEF TypeOK, Tasks

(* Nobody's closing of a shift stops a timer that has begun to close it. *)
LEMMA CallerStays ==
  ASSUME TypeOK, state = "open", closing, NEW m \in Tasks, m # "timer", DelegateClose(m)
  PROVE  journal' = journal /\ \E w : pc' = [pc EXCEPT ![m] = w]
<1>1. CancelTimer = pc["timer"]
  BY DEF CancelTimer
<1>2. pc' = [pc EXCEPT ![m] = "closing", !["timer"] = CancelTimer]
  BY DEF DelegateClose
<1>3. pc' = [pc EXCEPT ![m] = "closing"]
  BY <1>1, <1>2 DEF TypeOK, Tasks
<1> QED
  BY <1>3 DEF DelegateClose, deviceVars

LEMMA EndOfBusinessStep ==
  ASSUME IInv, [Next]_vars
  PROVE  EndOfBusiness
<1> SUFFICES ASSUME pc["timer"] = "done"
             PROVE  /\ pc'["timer"] = "done"
                    /\ journal' = journal
                    /\ \A r \in Receipts : pc[r] \in Parked => pc'[r] \in Parked
  BY DEF EndOfBusiness
<1>0. TypeOK /\ state = "open" /\ closing /\ pc["boot"] = "done"
      /\ \A r \in Receipts : pc[r] \notin {"first", "rereading"}
  BY ClosedState DEF IInv
<1>1. CASE Loop
  <2>1. ~Boot /\ ~BootRead /\ ~TimerStarts /\ ~TimerCancelled /\ ~TimerFires /\ ~TimerClosed
    BY <1>0 DEF Boot, BootRead, TimerStarts, TimerCancelled, TimerFires, TimerClosed, Return
  <2>2. ASSUME NEW r \in Receipts,
               \/ RegisterDefined(r) \/ Registered(r) \/ FirstRegistered(r)
               \/ Reread(r) \/ ClosingAwaited(r)
        PROVE  /\ r \in Tasks /\ r # "timer" /\ journal' = journal
               /\ \E w : /\ pc' = [pc EXCEPT ![r] = w]
                         /\ w \in Parked \/ pc[r] \notin Parked
    <3>1. r \in Tasks /\ r # "timer"
      BY TaskFacts
    <3>2. CASE RegisterDefined(r)
      <4>1. Delegate(r) /\ journal' = journal
        BY <3>2 DEF RegisterDefined, Delegate, deviceVars
      <4> QED
        BY <3>1, <4>1, ParkedDelegate DEF Parked
    <3>3. CASE Registered(r)
      BY <3>1, <3>3 DEF Registered, Return, Goto, Parked, deviceVars
    <3>4. ~FirstRegistered(r) /\ ~Reread(r)
      BY <1>0 DEF FirstRegistered, Reread
    <3>5. CASE ClosingAwaited(r)
      BY <3>1, <3>5 DEF ClosingAwaited, Goto, Parked, deviceVars
    <3> QED
      BY <2>2, <3>2, <3>3, <3>4, <3>5
  <2>3. ASSUME NEW m \in Closers, CloseDefined(m) \/ Closed(m) \/ OpenDefined(m)
        PROVE  /\ m \in Tasks /\ m # "timer" /\ m \notin Receipts /\ journal' = journal
               /\ \E w : pc' = [pc EXCEPT ![m] = w]
    <3>1. m \in Tasks /\ m # "timer" /\ m \notin Receipts
      BY TaskFacts
    <3>2. CASE CloseDefined(m)
      <4>1. DelegateClose(m)
        BY <3>2 DEF CloseDefined
      <4> QED
        BY <1>0, <3>1, <4>1, CallerStays
    <3>3. CASE Closed(m)
      BY <3>1, <3>3 DEF Closed, Return, Goto, deviceVars
    <3>4. CASE OpenDefined(m)
      BY <3>1, <3>4 DEF OpenDefined, DelegateOpen, Goto, deviceVars
    <3> QED
      BY <2>3, <3>2, <3>3, <3>4
  <2> QED
    BY <1>0, <1>1, <2>1, <2>2, <2>3, OthersStay DEF Loop
<1>2. CASE Callers
  <2>1. ASSUME NEW r \in Receipts, Register(r)
        PROVE  /\ r \in Tasks /\ r # "timer" /\ journal' = journal
               /\ \E w : /\ pc' = [pc EXCEPT ![r] = w]
                         /\ w \in Parked \/ pc[r] \notin Parked
    <3>1. r \in Tasks /\ r # "timer"
      BY TaskFacts
    <3>2. Delegate(r) /\ journal' = journal
      BY <2>1 DEF Register, Delegate, deviceVars
    <3> QED
      BY <3>1, <3>2, ParkedDelegate DEF Parked
  <2>2. ASSUME NEW m \in Closers, CloseShift(m) \/ OpenShift(m)
        PROVE  /\ m \in Tasks /\ m # "timer" /\ m \notin Receipts /\ journal' = journal
               /\ \E w : pc' = [pc EXCEPT ![m] = w]
    <3>1. m \in Tasks /\ m # "timer" /\ m \notin Receipts
      BY TaskFacts
    <3>2. CASE CloseShift(m)
      <4>1. DelegateClose(m)
        BY <3>2 DEF CloseShift
      <4> QED
        BY <1>0, <3>1, <4>1, CallerStays
    <3>3. CASE OpenShift(m)
      BY <3>1, <3>3 DEF OpenShift, DelegateOpen, Goto, deviceVars
    <3> QED
      BY <2>2, <3>2, <3>3
  <2> QED
    BY <1>0, <1>2, <2>1, <2>2, OthersStay DEF Callers
<1>3. CASE Work
  <2>1. UNCHANGED pc
    BY <1>3 DEF Work
  <2>2. Head(jobs).op # "register"
    BY <1>0, <1>3, HeadTaken DEF Work, IInv, Inv, FenceInv
  <2>3. journal' = journal
    BY <1>3, <2>2 DEF Work, DeviceCloses, DeviceTells, deviceVars
  <2> QED
    BY <2>1, <2>3
<1>4. CASE Tick
  BY <1>4 DEF Tick
<1>5. CASE UNCHANGED vars
  BY <1>5 DEF vars, deviceVars
<1> QED
  BY <1>1, <1>2, <1>3, <1>4, <1>5 DEF Next

(* Once the timer of AutoShiftOpenState has closed its shift the device never registers   *)
(* anything again, and no registration called from then on returns or raises, whatever    *)
(* the duration, the callers and the refusals: its change of state is never triggered.    *)
THEOREM AutoCloseIsFinal == Spec => [][EndOfBusiness]_vars
<1>1. IInv /\ [Next]_vars => EndOfBusiness
  BY EndOfBusinessStep
<1> QED
  BY <1>1, Invariance, PTL DEF Spec

-----------------------------------------------------------------------------
(* One timer in the life of the registrator *)

(* A timer that has been cancelled, by a call of close_shift or by itself, or has fired *)
(* is never followed by another, although shifts are opened after it.                  *)
Over == {"cancelling", "cancelled", "closing", "done", "failed"}
NeverRearmed == pc["timer"] \in Over => pc'["timer"] \in Over

LEMMA NeverRearmedStep ==
  ASSUME IInv, [Next]_vars
  PROVE  NeverRearmed
<1> SUFFICES ASSUME pc["timer"] \in Over PROVE pc'["timer"] \in Over
  BY DEF NeverRearmed
<1>0. /\ TypeOK /\ state = "open" /\ pc["boot"] = "done"
      /\ \A r \in Receipts : pc[r] # "rereading"
      /\ "timer" \in Tasks
  BY TaskFacts DEF IInv, Inv, StateInv, Over
<1>1. ASSUME NEW t \in Tasks, NEW w, pc' = [pc EXCEPT ![t] = w], t # "timer" \/ w \in Over
      PROVE  pc'["timer"] \in Over
  BY <1>0, <1>1 DEF TypeOK
<1>2. ASSUME NEW m \in Closers, DelegateClose(m)
      PROVE  pc'["timer"] \in Over
  <2>1. CancelTimer \in Over
    BY DEF CancelTimer, Over
  <2>2. pc' = [pc EXCEPT ![m] = "closing", !["timer"] = CancelTimer]
    BY <1>0, <1>2 DEF DelegateClose
  <2>3. m # "timer"
    BY TaskFacts
  <2> QED
    BY <1>0, <2>1, <2>2, <2>3 DEF TypeOK
<1>3. ASSUME NEW r \in Receipts, \/ RegisterDefined(r) \/ Registered(r) \/ FirstRegistered(r)
                                 \/ Reread(r) \/ ClosingAwaited(r) \/ Register(r)
      PROVE  pc'["timer"] \in Over
  <2>1. r \in Tasks /\ r # "timer"
    BY TaskFacts
  <2>2. \E w : pc' = [pc EXCEPT ![r] = w]
    BY <1>0, <1>3 DEF RegisterDefined, Registered, FirstRegistered, Reread, ClosingAwaited,
                      Register, Delegate, Return, Goto
  <2> QED
    BY <1>1, <2>1, <2>2
<1>4. ASSUME NEW m \in Closers, \/ CloseDefined(m) \/ Closed(m) \/ OpenDefined(m)
                                \/ CloseShift(m) \/ OpenShift(m)
      PROVE  pc'["timer"] \in Over
  <2>1. m \in Tasks /\ m # "timer"
    BY TaskFacts
  <2>2. CASE Closed(m) \/ OpenDefined(m) \/ OpenShift(m)
    <3>1. \E w : pc' = [pc EXCEPT ![m] = w]
      BY <2>2 DEF Closed, OpenDefined, OpenShift, DelegateOpen, Return, Goto
    <3> QED
      BY <1>1, <2>1, <3>1
  <2>3. CASE CloseDefined(m) \/ CloseShift(m)
    BY <1>2, <2>3 DEF CloseDefined, CloseShift
  <2> QED
    BY <1>4, <2>2, <2>3
<1>5. CASE TimerStarts \/ TimerCancelled \/ TimerFires \/ TimerClosed
  <2>1. pc["timer"] \notin {"starting", "sleeping"}
    BY DEF Over
  <2>2. \E w \in Over : pc' = [pc EXCEPT !["timer"] = w]
    BY <1>5, <2>1 DEF TimerStarts, TimerCancelled, TimerFires, TimerClosed, Return, Goto, Over
  <2> QED
    BY <1>0, <1>1, <2>2
<1>6. CASE Boot \/ BootRead
  BY <1>0, <1>6 DEF Boot, BootRead
<1>7. CASE UNCHANGED pc
  BY <1>7
<1> QED
  BY <1>3, <1>4, <1>5, <1>6, <1>7 DEF Next, Loop, Callers, Work, Tick, vars

(* The registrator has one timer in its life: once close_shift has cancelled it, or it has *)
(* come to an end, no shift that is opened later is closed by itself.  Only the task of    *)
(* the constructor and a registration in the closed state call change_state (base.py).     *)
THEOREM OneTimerOnly == Spec => [][NeverRearmed]_vars
<1>1. IInv /\ [Next]_vars => NeverRearmed
  BY NeverRearmedStep
<1> QED
  BY <1>1, Invariance, PTL DEF Spec

-----------------------------------------------------------------------------
(* A shift whose timer was cancelled *)

(* It stays open until a caller of close_shift has its job with the worker. *)
NobodyCloses == \A m \in Closers : pc[m] # "closing"
OnlyByHand ==
    pc["timer"] = "cancelled" /\ open /\ NobodyCloses => open' /\ pc'["timer"] = "cancelled"

LEMMA OnlyByHandStep ==
  ASSUME IInv, [Next]_vars
  PROVE  OnlyByHand
<1> SUFFICES ASSUME pc["timer"] = "cancelled", open, NobodyCloses
             PROVE  open' /\ pc'["timer"] = "cancelled"
  BY DEF OnlyByHand
<1>1. CASE Work
  <2>1. Head(jobs).op # "close"
    <3>1. PICK t \in Tasks : Awaits(t, Head(jobs).op) /\ t = Head(jobs).task
      BY <1>1, HeadTaken
    <3>2. pc[t] \notin {"closing", "cancelling"}
      BY TaskFacts DEF IInv, Inv, PlaceInv, NobodyCloses
    <3> QED
      BY <3>1, <3>2 DEF Awaits
  <2> QED
    BY <1>1, <2>1 DEF Work, DeviceRegisters, DeviceTells, deviceVars
<1>2. CASE Tick \/ UNCHANGED vars
  BY <1>2 DEF Tick, vars, deviceVars
<1>3. CASE Loop \/ Callers
  <2>1. open'
    BY <1>3 DEF Loop, Callers, Boot, BootRead, TimerStarts, TimerCancelled, TimerFires,
                TimerClosed, RegisterDefined, Registered, FirstRegistered, Reread,
                ClosingAwaited, Register, CloseDefined, Closed, OpenDefined, CloseShift,
                OpenShift, Delegate, DelegateClose, DelegateOpen, Return, ChangeState, deviceVars
  <2>2. pc'["timer"] = "cancelled"
    <3>1. state = "open" /\ pc["boot"] = "done" /\ \A r \in Receipts : pc[r] # "rereading"
      BY DEF IInv, Inv, StateInv
    <3>2. ASSUME NEW t \in Tasks, NEW w, pc' = [pc EXCEPT ![t] = w], t # "timer"
          PROVE  pc'["timer"] = "cancelled"
      BY <3>2
    <3>3. CASE \E r \in Receipts : \/ RegisterDefined(r) \/ Registered(r) \/ FirstRegistered(r)
                                   \/ Reread(r) \/ ClosingAwaited(r) \/ Register(r)
      BY <3>1, <3>2, <3>3, TaskFacts
         DEF RegisterDefined, Registered, FirstRegistered, Reread, ClosingAwaited, Register,
             Delegate, Return, Goto
    <3>4. ASSUME NEW m \in Closers, DelegateClose(m)
          PROVE  pc'["timer"] = "cancelled"
      <4>1. CancelTimer = "cancelled"
        BY DEF CancelTimer
      <4>2. pc' = [pc EXCEPT ![m] = "closing", !["timer"] = "cancelled"]
        BY <3>1, <3>4, <4>1 DEF DelegateClose
      <4> QED
        BY <4>2, TaskFacts DEF IInv, TypeOK
    <3>5. CASE \E m \in Closers : \/ CloseDefined(m) \/ Closed(m) \/ OpenDefined(m)
                                  \/ CloseShift(m) \/ OpenShift(m)
      BY <3>2, <3>4, <3>5, TaskFacts
         DEF CloseDefined, Closed, OpenDefined, CloseShift, OpenShift, DelegateOpen, Return, Goto
    <3>6. ~TimerStarts /\ ~TimerCancelled /\ ~TimerFires /\ ~TimerClosed /\ ~Boot /\ ~BootRead
      BY <3>1 DEF TimerStarts, TimerCancelled, TimerFires, TimerClosed, Return, Boot, BootRead
    <3> QED
      BY <1>3, <3>3, <3>5, <3>6 DEF Loop, Callers
  <2> QED
    BY <2>1, <2>2
<1> QED
  BY <1>1, <1>2, <1>3 DEF Next

(* A shift whose timer has cancelled itself, as one that is overdue when its age is read   *)
(* makes it do, or was cancelled by close_shift is closed by nothing but a later call of   *)
(* close_shift: registrations, the loop and time leave it open (base.py, 256 to 292).      *)
THEOREM CancelledMeansByHand == Spec => [][OnlyByHand]_vars
<1>1. IInv /\ [Next]_vars => OnlyByHand
  BY OnlyByHandStep
<1> QED
  BY <1>1, Invariance, PTL DEF Spec

-----------------------------------------------------------------------------
(* The registrator implements ReceiptDevice *)

(* What register_receipt has told its caller: it returned, or it raised. *)
Told == [r \in Receipts |-> CASE pc[r] = "ok" -> "ok"
                               [] pc[r] \in {"failed", "unread"} -> "failed"
                               [] OTHER -> "none"]

(* An answer of the device is lost when the shift cannot be read after a registration. *)
CanLose == "info" \in Faults /\ ~calm

Device == INSTANCE ReceiptDevice
          WITH canLose <- CanLose, issuesNone <- FALSE, issued <- journal, told <- Told

(* Reading the shift fails only where that may happen. *)
MisreadInv ==
    \A t \in Tasks : pc[t] \in {"reading", "rereading"} /\ reply[t] = "error" => CanLose

LEMMA MisreadWork == ASSUME IInv, MisreadInv, Work PROVE MisreadInv'
<1> DEFINE t == Head(jobs).task
           op == Head(jobs).op
<1>1. t \in Tasks /\ Awaits(t, op)
  BY HeadTaken
<1>2. PICK a \in {"ok", "error"} : /\ reply' = [reply EXCEPT ![t] = a]
                                   /\ a = "error" /\ op = "info" => CanLose
  BY DEF Work, DeviceRegisters, DeviceCloses, DeviceTells, Refuses, CanLose
<1>3. pc[t] \in {"reading", "rereading"} => op = "info"
  BY <1>1 DEF Awaits
<1> HIDE DEF t, op
<1>4. pc' = pc /\ CanLose' = CanLose
  BY DEF Work, CanLose
<1> SUFFICES ASSUME NEW u \in Tasks, pc[u] \in {"reading", "rereading"}, reply'[u] = "error"
             PROVE  CanLose
  BY <1>4 DEF MisreadInv
<1>5. reply \in [Tasks -> {"none", "ok", "error"}]
  BY DEF IInv, TypeOK
<1>6. CASE u = t
  BY <1>1, <1>2, <1>3, <1>5, <1>6
<1>7. CASE u # t
  <2>1. reply[u] = "error"
    BY <1>2, <1>5, <1>7
  <2> QED
    BY <2>1 DEF MisreadInv
<1> QED
  BY <1>6, <1>7

LEMMA MisreadStep ==
  ASSUME IInv, MisreadInv, [Next]_vars
  PROVE  MisreadInv'
<1>0. TypeOK /\ JobInv /\ CanLose' = CanLose
  <2>1. calm' = calm
    BY DEF Next, Loop, Callers, Work, Tick, vars, Boot, BootRead, TimerStarts, TimerCancelled,
           TimerFires, TimerClosed, RegisterDefined, Registered, FirstRegistered, Reread,
           ClosingAwaited, Register, CloseDefined, Closed, OpenDefined, CloseShift, OpenShift,
           Delegate, DelegateClose, DelegateOpen, Return, ChangeState
  <2> QED
    BY <2>1 DEF IInv, Inv, CanLose
<1>1. CASE \A t \in Tasks : /\ reply'[t] = "error" => reply[t] = "error"
                            /\ pc'[t] \in {"reading", "rereading"} =>
                                   pc'[t] = pc[t] \/ reply'[t] # "error"
  BY <1>0, <1>1 DEF MisreadInv
<1>2. ASSUME NEW t \in Tasks, NEW w, w \notin {"reading", "rereading"},
             pc' = [pc EXCEPT ![t] = w], Consume(t) \/ UNCHANGED reply
      PROVE  MisreadInv'
  BY <1>0, <1>1, <1>2 DEF Consume, TypeOK
<1>3. ASSUME NEW t \in Tasks, NEW end, end \notin {"reading", "rereading"}, ChangeState(t, end)
      PROVE  MisreadInv'
  BY <1>0, <1>1, <1>3, TaskFacts DEF ChangeState, Consume, Goto, TypeOK
<1>4. CASE Boot
  <2>1. reply["boot"] = "none"
    BY <1>0, <1>4, TaskFacts DEF Boot, JobInv, Awaits, TypeOK
  <2> QED
    BY <1>0, <1>1, <1>4, <2>1 DEF Boot, Goto, TypeOK
<1>5. CASE BootRead
  BY <1>2, <1>3, <1>5, TaskFacts DEF BootRead, Goto
<1>6. CASE TimerStarts \/ TimerCancelled \/ TimerFires \/ TimerClosed
  BY <1>2, <1>6, TaskFacts DEF TimerStarts, TimerCancelled, TimerFires, TimerClosed, Return, Goto
<1>7. ASSUME NEW r \in Receipts, FirstRegistered(r)
      PROVE  MisreadInv'
  BY <1>0, <1>1, <1>7, TaskFacts DEF FirstRegistered, Consume, Goto, TypeOK
<1>8. ASSUME NEW r \in Receipts, Reread(r)
      PROVE  MisreadInv'
  BY <1>2, <1>3, <1>8, TaskFacts DEF Reread, Goto
<1>9. ASSUME NEW r \in Receipts,
             RegisterDefined(r) \/ Registered(r) \/ ClosingAwaited(r) \/ Register(r)
      PROVE  MisreadInv'
  BY <1>2, <1>9, TaskFacts
     DEF RegisterDefined, Registered, ClosingAwaited, Register, Delegate, Return, Goto, workVars
<1>10. ASSUME NEW m \in Closers, DelegateClose(m)
       PROVE  MisreadInv'
  <2>1. CancelTimer = pc["timer"] \/ CancelTimer = "cancelled"
    BY DEF CancelTimer
  <2> QED
    BY <1>0, <1>1, <1>2, <1>10, <2>1, TaskFacts DEF DelegateClose, Goto, TypeOK
<1>11. ASSUME NEW m \in Closers,
              CloseDefined(m) \/ Closed(m) \/ OpenDefined(m) \/ CloseShift(m) \/ OpenShift(m)
       PROVE  MisreadInv'
  BY <1>2, <1>10, <1>11, TaskFacts
     DEF CloseDefined, Closed, OpenDefined, CloseShift, OpenShift, DelegateOpen, Return, Goto, workVars
<1>12. CASE UNCHANGED <<pc, reply>>
  BY <1>0, <1>12 DEF MisreadInv
<1> QED
  BY <1>4, <1>5, <1>6, <1>7, <1>8, <1>9, <1>11, <1>12, MisreadWork
     DEF Next, Loop, Callers, Tick, vars, workVars

(* A registration comes to an end. *)
LEMMA Tells ==
  ASSUME TypeOK, NEW r \in Receipts, NEW end \in {"ok", "failed", "unread"},
         \A q \in Receipts : pc'[q] = IF q = r THEN end ELSE pc[q],
         UNCHANGED <<journal, calm>>, pc[r] \notin {"ok", "failed", "unread"},
         end = "ok" => journal[r] = 1, end = "failed" => journal[r] = 0, end = "unread" => CanLose
  PROVE  Device!Next
<1> DEFINE answer == IF end = "ok" THEN "ok" ELSE "failed"
<1>1. Told' = [Told EXCEPT ![r] = answer] /\ Told[r] = "none"
  BY DEF Told
<1>2. Device!Tell(r, answer)
  BY <1>1 DEF Device!Tell
<1> QED
  BY <1>2 DEF Device!Next, CanLose

LEMMA WorkIssues ==
  ASSUME IInv, Work
  PROVE  [Device!Next]_<<CanLose, FALSE, journal, Told>>
<1>1. Told' = Told /\ CanLose' = CanLose
  BY DEF Work, Told, CanLose
<1>2. CASE journal' = journal
  BY <1>1, <1>2
<1>3. CASE Head(jobs).op = "register"
           /\ journal' = [journal EXCEPT ![Head(jobs).task] = @ + 1]
  <2>1. PICK r \in Tasks : r = Head(jobs).task /\ Awaits(r, "register") /\ reply[r] = "none"
    BY <1>3, HeadTaken
  <2>2. r \in Receipts
    BY <2>1, TaskFacts DEF IInv, Inv, PlaceInv, Awaits
  <2>3. journal[r] = 0 /\ Told[r] = "none"
    BY <2>1, <2>2 DEF IInv, Inv, OutcomeInv, Awaits, Told
  <2>4. journal' = [journal EXCEPT ![r] = 1]
    BY <1>3, <2>1, <2>3
  <2>5. Device!Issue(r)
    BY <1>1, <2>3, <2>4 DEF Device!Issue
  <2> QED
    BY <1>1, <2>2, <2>5 DEF Device!Next
<1> QED
  BY <1>2, <1>3 DEF Work, DeviceRegisters, DeviceCloses, DeviceTells, deviceVars

LEMMA RefinesStep ==
  ASSUME IInv, MisreadInv, [Next]_vars
  PROVE  [Device!Next]_<<CanLose, FALSE, journal, Told>>
<1>0. TypeOK /\ OutcomeInv /\ PlaceInv
  BY DEF IInv, Inv
<1>1. CASE UNCHANGED <<journal, calm>> /\ \A r \in Receipts : pc'[r] = pc[r]
  BY <1>1 DEF Told, CanLose
<1>2. ASSUME NEW t \in Tasks \ Receipts, NEW w, pc' = [pc EXCEPT ![t] = w],
             UNCHANGED <<journal, calm>>
      PROVE  [Device!Next]_<<CanLose, FALSE, journal, Told>>
  BY <1>0, <1>1, <1>2 DEF TypeOK, Tasks
<1>3. ASSUME NEW r \in Receipts, NEW w, w \notin {"ok", "failed", "unread"}, Goto(r, w),
             pc[r] \notin {"ok", "failed", "unread"}, UNCHANGED <<journal, calm>>
      PROVE  [Device!Next]_<<CanLose, FALSE, journal, Told>>
  <2>1. Told' = Told
    BY <1>0, <1>3 DEF Told, Goto, TypeOK
  <2> QED
    BY <1>3, <2>1 DEF CanLose
<1>4. ASSUME NEW r \in Receipts, NEW end \in {"ok", "failed", "unread"}, Goto(r, end),
             UNCHANGED <<journal, calm>>, pc[r] \notin {"ok", "failed", "unread"},
             end = "ok" => journal[r] = 1, end = "failed" => journal[r] = 0,
             end = "unread" => CanLose
      PROVE  [Device!Next]_<<CanLose, FALSE, journal, Told>>
  <2>1. \A q \in Receipts : pc'[q] = IF q = r THEN end ELSE pc[q]
    BY <1>0, <1>4, TaskFacts DEF Goto, TypeOK
  <2> QED
    BY <1>0, <1>4, <2>1, Tells
<1>5. CASE Boot \/ BootRead
  <2>1. UNCHANGED <<journal, calm>> /\ \A r \in Receipts : pc'[r] = pc[r]
    BY <1>0, <1>5, TaskFacts DEF Boot, BootRead, ChangeState, Goto, TypeOK, deviceVars
  <2> QED
    BY <1>1, <2>1
<1>6. CASE TimerStarts \/ TimerCancelled \/ TimerFires \/ TimerClosed
  BY <1>2, <1>6, TaskFacts
     DEF TimerStarts, TimerCancelled, TimerFires, TimerClosed, Return, Goto, deviceVars
<1>7. ASSUME NEW m \in Closers,
             CloseDefined(m) \/ Closed(m) \/ OpenDefined(m) \/ CloseShift(m) \/ OpenShift(m)
      PROVE  [Device!Next]_<<CanLose, FALSE, journal, Told>>
  <2>1. UNCHANGED <<journal, calm>> /\ \A r \in Receipts : pc'[r] = pc[r]
    BY <1>0, <1>7, TaskFacts
       DEF CloseDefined, Closed, OpenDefined, CloseShift, OpenShift, DelegateOpen, DelegateClose,
           Return, Goto, TypeOK, deviceVars
  <2> QED
    BY <1>1, <2>1
<1>8. ASSUME NEW r \in Receipts, Register(r) \/ RegisterDefined(r)
      PROVE  [Device!Next]_<<CanLose, FALSE, journal, Told>>
  <2>1. \E w \in {"undefined", "first", "registering", "awaitClose"} : Goto(r, w)
    BY <1>8 DEF Register, RegisterDefined, Delegate
  <2> QED
    BY <1>3, <1>8, <2>1 DEF Register, RegisterDefined, Delegate, deviceVars
<1>9. ASSUME NEW r \in Receipts, Registered(r)
      PROVE  [Device!Next]_<<CanLose, FALSE, journal, Told>>
  <2>1. pc[r] = "registering" /\ reply[r] # "none" /\ UNCHANGED <<journal, calm>>
        /\ Goto(r, IF reply[r] = "ok" THEN "ok" ELSE "failed")
    BY <1>9 DEF Registered, Return, deviceVars
  <2>2. journal[r] = IF reply[r] = "ok" THEN 1 ELSE 0
    BY <1>0, <2>1 DEF OutcomeInv
  <2> QED
    BY <1>4, <2>1, <2>2
<1>10. ASSUME NEW r \in Receipts, FirstRegistered(r)
       PROVE  [Device!Next]_<<CanLose, FALSE, journal, Told>>
  <2>1. /\ pc[r] = "first" /\ UNCHANGED <<journal, calm>>
        /\ Goto(r, "rereading") \/ (Goto(r, "failed") /\ reply[r] = "error")
    BY <1>10 DEF FirstRegistered, deviceVars
  <2>2. reply[r] = "error" => journal[r] = 0
    BY <1>0, <2>1 DEF OutcomeInv
  <2> QED
    BY <1>3, <1>4, <2>1, <2>2
<1>11. ASSUME NEW r \in Receipts, Reread(r)
       PROVE  [Device!Next]_<<CanLose, FALSE, journal, Told>>
  <2>1. pc[r] = "rereading" /\ journal[r] = 1 /\ UNCHANGED <<journal, calm>>
    BY <1>0, <1>11 DEF Reread, ChangeState, OutcomeInv, deviceVars
  <2>2. CASE ChangeState(r, "ok")
    <3>1. \A q \in Receipts : pc'[q] = IF q = r THEN "ok" ELSE pc[q]
      BY <1>0, <2>2, TaskFacts DEF ChangeState, Goto, TypeOK
    <3> QED
      BY <1>0, <2>1, <3>1, Tells
  <2>3. CASE reply[r] = "error" /\ Goto(r, "unread")
    <3>1. CanLose
      BY <2>1, <2>3, TaskFacts DEF MisreadInv
    <3> QED
      BY <1>4, <2>1, <2>3, <3>1
  <2> QED
    BY <1>11, <2>2, <2>3 DEF Reread
<1>12. ASSUME NEW r \in Receipts, ClosingAwaited(r)
       PROVE  [Device!Next]_<<CanLose, FALSE, journal, Told>>
  <2>1. /\ pc[r] = "awaitClose" /\ UNCHANGED <<journal, calm>>
        /\ Goto(r, "awaitState") \/ Goto(r, "failed")
    BY <1>12 DEF ClosingAwaited, deviceVars
  <2>2. journal[r] = 0
    BY <1>0, <2>1 DEF OutcomeInv
  <2> QED
    BY <1>3, <1>4, <2>1, <2>2
<1>13. CASE Tick \/ UNCHANGED vars
  BY <1>1, <1>13 DEF Tick, vars, deviceVars
<1> QED
  BY <1>5, <1>6, <1>7, <1>8, <1>9, <1>10, <1>11, <1>12, <1>13, WorkIssues DEF Next, Loop, Callers

(* Through all its shift states, whoever opens or closes the shift and whatever the device *)
(* refuses, the registrator is what ReceiptDevice promises: a receipt is issued at most    *)
(* once, and a call that raises has issued none unless reading the shift failed after it.  *)
THEOREM ImplementsDevice == Spec => Device!Spec
<1>1. Init => Device!Init /\ MisreadInv
  <2> SUFFICES ASSUME Init PROVE Device!Init /\ MisreadInv
    OBVIOUS
  <2>1. \A r \in Receipts : pc[r] = "idle"
    BY TaskFacts DEF Init
  <2>2. Told = [r \in Receipts |-> "none"]
    BY <2>1 DEF Told
  <2> QED
    BY <2>2 DEF Init, Device!Init, MisreadInv, CanLose
<1>2. IInv /\ MisreadInv /\ [Next]_vars => MisreadInv'
  BY MisreadStep
<1>3. IInv /\ MisreadInv /\ [Next]_vars => [Device!Next]_<<CanLose, FALSE, journal, Told>>
  BY RefinesStep
<1> QED
  BY <1>1, <1>2, <1>3, Invariance, PTL DEF Spec, Device!Spec
==============================================================================
