------------------------ MODULE CommandInvokerProofs ------------------------
(* Proofs about CommandInvoker, for any commands, priorities, callers and *)
(* adapters. *)
EXTENDS CommandInvoker, SequenceTheorems, FiniteSetTheorems, TLAPS

-----------------------------------------------------------------------------
(* Facts about the queue of the lock *)

(* Who may wait for the lock: executors, pausers and the replacements' adapters. *)
LEMMA Waiters == /\ Executor \in Waiter
                 /\ \A p \in Pausers : p \in Waiter
                 /\ \A a \in NewAdapters : a \in Waiter /\ a \in Adapters
                 /\ FirstAdapter \in Adapters
                 /\ <<>> \in Seq(Waiter)
  BY EmptySeq DEF Waiter, Adapters

(* A task that joins the lock's queue leaves it a queue of waiters. *)
LEMMA Joined == ASSUME NEW w \in Waiter, TypeOK
                PROVE  Append(waiters, w) \in Seq(Waiter)
  BY AppendProperties DEF TypeOK

(* The first waiter is a waiter, and so are those behind it. *)
LEMMA Left == ASSUME TypeOK, waiters # <<>>
              PROVE  Head(waiters) \in Waiter /\ Tail(waiters) \in Seq(Waiter)
  BY HeadTailProperties DEF TypeOK

-----------------------------------------------------------------------------
(* Counting what is unfinished *)

Active == Queued \cup Running

(* There are finitely many commands, hence of unfinished ones. *)
LEMMA ActiveFinite == IsFiniteSet(Active) /\ Cardinality(Active) \in Nat
<1>1. Active \subseteq Commands
  BY DEF Active, Queued, Running
<1> QED
  BY <1>1, CommandsAssumption, FS_Subset, FS_CardinalityType

(* A command that is put counts one more. *)
LEMMA PutCounts ==
  ASSUME TypeOK, UnfinishedCounted, NEW c \in Commands, Put(c)
  PROVE  UnfinishedCounted'
<1>1. Active' = Active \cup {c} /\ c \notin Active
  BY DEF Put, TypeOK, Active, Queued, Running
<1>2. Cardinality(Active') = Cardinality(Active) + 1
  BY <1>1, ActiveFinite, FS_AddElement
<1> QED
  BY <1>2 DEF Put, UnfinishedCounted, Active

(* As long as a command runs, something is unfinished. *)
LEMMA FinishWithin ==
  ASSUME UnfinishedCounted, NEW c \in Running PROVE unfinished # 0
<1>1. Active # {}
  BY DEF Active
<1>2. Cardinality(Active) # 0
  BY <1>1, ActiveFinite, FS_EmptySet
<1> QED
  BY <1>2 DEF UnfinishedCounted, Active

(* One that ends counts one less, and there was one to count. *)
LEMMA FinishCounts ==
  ASSUME TypeOK, UnfinishedCounted, NEW c \in Commands, Finish(c)
  PROVE  UnfinishedCounted' /\ unfinished' \in Nat
<1>1. Active' = Active \ {c} /\ c \in Active
  BY DEF Finish, TypeOK, Active, Queued, Running
<1>2. Cardinality(Active') = Cardinality(Active) - 1 /\ Cardinality(Active') \in Nat
  BY <1>1, ActiveFinite, FS_RemoveElement, FS_CardinalityType
<1> QED
  BY <1>2 DEF Finish, TaskDone, UnfinishedCounted, Active

(* Taking a command from the heap changes no count. *)
LEMMA BeginCounts ==
  ASSUME TypeOK, UnfinishedCounted, NEW c \in Commands, Begin(c)
  PROVE  UnfinishedCounted'
<1>1. Active' = Active
  BY DEF Begin, MostUrgent, TypeOK, Active, Queued, Running
<1> QED
  BY <1>1 DEF Begin, UnfinishedCounted, Active

(* A step that changes neither commands nor the count keeps the count true. *)
LEMMA SameCounts ==
  ASSUME UnfinishedCounted, UNCHANGED <<status, unfinished>>
  PROVE  UnfinishedCounted'
BY DEF UnfinishedCounted, Queued, Running

-----------------------------------------------------------------------------
(* Typing, with the count that keeps unfinished a natural number *)

(* _execute's start of a command keeps the commands' tables well formed. *)
LEMMA BeginTypes ==
  ASSUME TypeOK, NEW c \in Commands, Begin(c)
  PROVE  /\ status' \in [Commands -> {"new", "queued", "running", "done"}]
         /\ stamp' \in [Commands -> Nat]
         /\ clock' \in Nat
         /\ ranOn' \in [Commands -> Adapters]
         /\ unfinished' \in Nat
BY DEF Begin, TypeOK

(* So does an executor that gets the lock, with a command or without. *)
LEMMA EnterTypes ==
  ASSUME TypeOK, EnterAsExecutor
  PROVE  /\ status' \in [Commands -> {"new", "queued", "running", "done"}]
         /\ stamp' \in [Commands -> Nat]
         /\ clock' \in Nat
         /\ ranOn' \in [Commands -> Adapters]
         /\ unfinished' \in Nat
         /\ locked' \in BOOLEAN
         /\ getters' \in Nat
<1>1. CASE \E c \in Commands : Begin(c) /\ UNCHANGED getters
  BY <1>1, BeginTypes DEF EnterAsExecutor, TypeOK
<1>2. CASE Queued = {} /\ getters' = getters + 1 /\ UNCHANGED queueVars
  BY <1>2 DEF EnterAsExecutor, TypeOK, queueVars
<1> QED
  BY <1>1, <1>2 DEF EnterAsExecutor

(* Getting the lock finishes nothing, so the count stays true. *)
LEMMA EnterCounts ==
  ASSUME TypeOK, UnfinishedCounted, EnterAsExecutor
  PROVE  UnfinishedCounted'
BY BeginCounts, SameCounts DEF EnterAsExecutor, queueVars

(* set_fr_adapter and what replace_device does after it keep the tables well formed. *)
LEMMA PlugInTypes ==
  ASSUME TypeOK, NEW a \in NewAdapters, PlugIn(a)
  PROVE  /\ frAdapter' \in Adapters
         /\ swap' \in [NewAdapters -> {"new", "waiting", "done", "lost"}]
         /\ attachment' \in {"attached", "joining", "detached"}
         /\ device' \in Adapters
         /\ closed' \subseteq Adapters
BY Waiters DEF PlugIn, TypeOK

Counted == TypeOK /\ UnfinishedCounted

(* At the start nothing is unfinished. *)
LEMMA CountedInit == ASSUME Init PROVE Counted
<1>1. Queued \cup Running = {}
  BY DEF Init, Queued, Running
<1>2. UnfinishedCounted
  BY <1>1, FS_EmptySet DEF Init, UnfinishedCounted
<1>3. TypeOK
  BY Waiters DEF Init, TypeOK
<1> QED
  BY <1>2, <1>3 DEF Counted

(* Every step keeps the state well formed and the count true; only the count *)
(* keeps unfinished from falling below zero, so neither goes without the other. *)
LEMMA CountedStep == ASSUME Counted, [Next]_vars PROVE Counted'
<1> USE DEF Counted
<1>1. CASE StartExecutor
  <2>1. CASE LockFree /\ EnterAsExecutor /\ UNCHANGED waiters
    BY <1>1, <2>1, EnterTypes, EnterCounts DEF StartExecutor, TypeOK, deviceVars
  <2>2. CASE /\ waiters' = Append(waiters, Executor)
             /\ UNCHANGED <<locked, getters, queueVars>>
    BY <1>1, <2>2, Joined, Waiters, SameCounts DEF StartExecutor, TypeOK, deviceVars, queueVars
  <2> QED
    BY <1>1, <2>1, <2>2 DEF StartExecutor
<1>2. CASE Wake
  BY <1>2, BeginTypes, BeginCounts DEF Wake, TypeOK, deviceVars
<1>3. CASE Grant
  <2> USE <1>3, Left
  <2>1. CASE EnterAsExecutor /\ UNCHANGED <<pauser, deviceVars>>
    BY <2>1, EnterTypes, EnterCounts DEF Grant, TypeOK, deviceVars
  <2>2. CASE /\ Head(waiters) \in Pausers
             /\ locked' = TRUE
             /\ pauser' = [pauser EXCEPT ![Head(waiters)] = "holding"]
             /\ UNCHANGED <<getters, queueVars, deviceVars>>
    BY <2>2, SameCounts DEF Grant, TypeOK, deviceVars, queueVars
  <2>3. CASE /\ Head(waiters) \in NewAdapters
             /\ PlugIn(Head(waiters))
             /\ UNCHANGED <<locked, getters, queueVars, pauser>>
    BY <2>3, PlugInTypes, SameCounts DEF Grant, TypeOK, queueVars
  <2> QED
    BY <2>1, <2>2, <2>3 DEF Grant
<1>4. ASSUME NEW c \in Commands, Finish(c) PROVE Counted'
  <2>1. UnfinishedCounted' /\ unfinished' \in Nat
    BY <1>4, FinishCounts
  <2>2. status' \in [Commands -> {"new", "queued", "running", "done"}]
    BY <1>4 DEF Finish, TypeOK
  <2>3. Successor /\ ready \in Nat
    BY <1>4 DEF Finish, TypeOK
  <2>4. ready' \in Nat
    BY <2>3 DEF Successor
  <2> QED
    BY <1>4, <2>1, <2>2, <2>4 DEF Finish, TypeOK, deviceVars
<1>5. ASSUME NEW c \in Commands, Put(c) PROVE Counted'
  <2>1. UnfinishedCounted'
    BY <1>5, PutCounts
  <2>2. /\ status' \in [Commands -> {"new", "queued", "running", "done"}]
        /\ stamp' \in [Commands -> Nat] /\ clock' \in Nat
    BY <1>5 DEF Put, TypeOK
  <2>3. unfinished' \in Nat /\ ready' \in Nat
    BY <1>5 DEF Put, TypeOK
  <2> QED
    BY <1>5, <2>1, <2>2, <2>3 DEF Put, TypeOK, deviceVars
<1>6. ASSUME NEW p \in Pausers, Pause(p) PROVE Counted'
  <2>1. waiters' \in Seq(Waiter) /\ pauser' \in [Pausers -> {"idle", "waiting", "holding"}]
        /\ locked' \in BOOLEAN
    BY <1>6, Joined, Waiters DEF Pause, TypeOK
  <2> QED
    BY <1>6, <2>1, SameCounts DEF Pause, TypeOK, queueVars, deviceVars
<1>7. ASSUME NEW p \in Pausers, Resume(p) PROVE Counted'
  BY <1>7, SameCounts DEF Resume, TypeOK, queueVars, deviceVars
<1>8. ASSUME NEW a \in NewAdapters, Replace(a) PROVE Counted'
  <2>1. CASE LockFree /\ PlugIn(a) /\ UNCHANGED waiters
    BY <1>8, <2>1, PlugInTypes, SameCounts DEF Replace, TypeOK, queueVars
  <2>2. CASE /\ waiters' = Append(waiters, a)
             /\ swap' = [swap EXCEPT ![a] = "waiting"]
             /\ UNCHANGED <<frAdapter, attachment, device, closed>>
    BY <1>8, <2>2, Joined, Waiters, SameCounts DEF Replace, TypeOK, queueVars
  <2> QED
    BY <1>8, <2>1, <2>2 DEF Replace
<1>9. CASE Detach \/ DetachJoined
  BY <1>9, SameCounts DEF Detach, DetachJoined, CloseDetached, TypeOK, queueVars, lockVars
<1>10. CASE UNCHANGED vars
  BY <1>10, SameCounts DEF vars, TypeOK, queueVars, lockVars, deviceVars
<1> QED
  BY <1>1, <1>2, <1>3, <1>4, <1>5, <1>6, <1>7, <1>8, <1>9, <1>10
     DEF Next, Internal, LoopStep, Users

(* Every state of the invoker is well formed. *)
THEOREM TypeCorrect == Spec => []TypeOK
<1>1. Init => Counted
  BY CountedInit
<1>2. Counted /\ [Next]_vars => Counted'
  BY CountedStep
<1>3. Counted => TypeOK
  BY DEF Counted
<1> QED
  BY <1>1, <1>2, <1>3, PTL DEF Spec

-----------------------------------------------------------------------------
(* Who is inside the lock *)

Holding == {p \in Pausers : pauser[p] = "holding"}

(* What makes MutualExclusion inductive: nobody is inside a free lock, and the *)
(* three kinds of occupants exclude each other and themselves. *)
OneInside ==
    /\ ~locked => Running = {} /\ getters = 0 /\ Holding = {}
    /\ getters > 0 => getters = 1 /\ Running = {} /\ Holding = {}
    /\ Running # {} => Holding = {}
    /\ \A c, d \in Running : c = d
    /\ \A p, q \in Holding : p = q

(* That nobody shares the lock is what MutualExclusion says. *)
LEMMA InsideExcludes == ASSUME TypeOK, OneInside PROVE MutualExclusion
<1> SUFFICES ASSUME NEW x \in Occupants, NEW y \in Occupants PROVE x = y
  BY DEF MutualExclusion
<1>1. CASE getters > 0
  <2>1. 1..getters = {1} /\ Running = {} /\ Holding = {}
    BY <1>1 DEF OneInside
  <2> QED
    BY <2>1 DEF Occupants, Holding
<1>2. CASE ~(getters > 0)
  <2>1. 1..getters = {}
    BY <1>2 DEF TypeOK
  <2> QED
    BY <2>1 DEF Occupants, OneInside, Holding
<1> QED
  BY <1>1, <1>2

(* A command that begins is then the only one that runs. *)
LEMMA BeginRunning ==
  ASSUME TypeOK, NEW c \in Commands, Begin(c)
  PROVE  Running' = Running \cup {c}
BY DEF Begin, MostUrgent, Queued, Running, TypeOK

(* A step that leaves commands, getters and pausers alone moves nobody in or out. *)
LEMMA SameInside ==
  ASSUME OneInside, UNCHANGED <<status, getters, pauser>>, locked' = locked
  PROVE  OneInside'
BY DEF OneInside, Running, Holding

(* An executor that takes a free lock is alone in it. *)
LEMMA EnterInside ==
  ASSUME TypeOK, OneInside, ~locked, EnterAsExecutor, UNCHANGED pauser
  PROVE  OneInside'
<1>1. Running = {} /\ getters = 0 /\ Holding = {} /\ Holding' = {}
  BY DEF OneInside, Holding
<1>2. CASE \E c \in Commands : Begin(c) /\ UNCHANGED getters
  <2> PICK c \in Commands : Begin(c) /\ UNCHANGED getters
    BY <1>2
  <2>1. Running' = {c}
    BY <1>1, BeginRunning
  <2> QED
    BY <1>1, <2>1 DEF EnterAsExecutor, OneInside
<1>3. CASE Queued = {} /\ getters' = getters + 1 /\ UNCHANGED queueVars
  <2>1. Running' = {}
    BY <1>1, <1>3 DEF Running, queueVars
  <2> QED
    BY <1>1, <1>3, <2>1 DEF EnterAsExecutor, OneInside
<1> QED
  BY <1>2, <1>3 DEF EnterAsExecutor

(* A pauser that takes a free lock is alone in it. *)
LEMMA PauseInside ==
  ASSUME TypeOK, OneInside, ~locked, locked', NEW p \in Pausers,
         pauser' = [pauser EXCEPT ![p] = "holding"], UNCHANGED <<status, getters>>
  PROVE  OneInside'
<1>1. Running = {} /\ getters = 0 /\ Holding = {}
  BY DEF OneInside
<1>2. Holding' = {p}
  BY <1>1 DEF Holding, TypeOK
<1>3. Running' = {}
  BY <1>1 DEF Running
<1> QED
  BY <1>1, <1>2, <1>3 DEF OneInside

(* Every step keeps the occupants of the lock apart. *)
LEMMA InsideStep == ASSUME TypeOK, OneInside, [Next]_vars PROVE OneInside'
<1>1. CASE StartExecutor
  <2>1. CASE LockFree /\ EnterAsExecutor
    BY <1>1, <2>1, EnterInside DEF StartExecutor, LockFree
  <2>2. CASE UNCHANGED <<locked, getters, queueVars>>
    BY <1>1, <2>2, SameInside DEF StartExecutor, queueVars
  <2> QED
    BY <1>1, <2>1, <2>2 DEF StartExecutor
<1>2. CASE Wake
  <2>1. getters = 1 /\ Running = {} /\ Holding = {} /\ locked
    BY <1>2 DEF Wake, OneInside
  <2> PICK c \in Commands : Begin(c)
    BY <1>2 DEF Wake
  <2>2. Running' = {c}
    BY <2>1, BeginRunning
  <2>3. getters' = 0 /\ locked' /\ Holding' = {}
    BY <1>2, <2>1 DEF Wake, Holding
  <2> QED
    BY <2>2, <2>3 DEF OneInside
<1>3. CASE Grant
  <2>1. CASE EnterAsExecutor /\ UNCHANGED <<pauser, deviceVars>>
    BY <1>3, <2>1, EnterInside DEF Grant
  <2>2. CASE /\ Head(waiters) \in Pausers
             /\ locked' = TRUE
             /\ pauser' = [pauser EXCEPT ![Head(waiters)] = "holding"]
             /\ UNCHANGED <<getters, queueVars, deviceVars>>
    BY <1>3, <2>2, PauseInside DEF Grant, queueVars
  <2>3. CASE UNCHANGED <<locked, getters, queueVars, pauser>>
    BY <2>3, SameInside DEF queueVars
  <2> QED
    BY <1>3, <2>1, <2>2, <2>3 DEF Grant
<1>4. ASSUME NEW c \in Commands, Finish(c) PROVE OneInside'
  <2>1. c \in Running
    BY <1>4 DEF Finish, Running
  <2>2. Running' = Running \ {c}
    BY <1>4 DEF Finish, Running, TypeOK
  <2>3. Running' = {} /\ Holding = {} /\ getters = 0
    BY <2>1, <2>2 DEF OneInside, TypeOK
  <2>4. Holding' = {} /\ getters' = 0
    BY <1>4, <2>3 DEF Finish, Holding
  <2> QED
    BY <2>3, <2>4 DEF OneInside
<1>5. ASSUME NEW c \in Commands, Put(c) PROVE OneInside'
  <2>1. Running' = Running
    BY <1>5 DEF Put, Running, TypeOK
  <2>2. Holding' = Holding /\ getters' = getters /\ locked' = locked
    BY <1>5 DEF Put, Holding
  <2> QED
    BY <2>1, <2>2 DEF OneInside
<1>6. ASSUME NEW p \in Pausers, Pause(p) PROVE OneInside'
  <2>1. CASE LockFree /\ locked' = TRUE /\ pauser' = [pauser EXCEPT ![p] = "holding"]
    BY <1>6, <2>1, PauseInside DEF Pause, LockFree, queueVars
  <2>2. CASE pauser' = [pauser EXCEPT ![p] = "waiting"] /\ UNCHANGED locked
    <3>1. Holding' = Holding
      BY <1>6, <2>2 DEF Pause, Holding, TypeOK
    <3>2. Running' = Running /\ getters' = getters /\ locked' = locked
      BY <1>6, <2>2 DEF Pause, Running, queueVars
    <3> QED
      BY <3>1, <3>2 DEF OneInside
  <2> QED
    BY <1>6, <2>1, <2>2 DEF Pause
<1>7. ASSUME NEW p \in Pausers, Resume(p) PROVE OneInside'
  <2>1. p \in Holding /\ Running = {} /\ getters = 0
    BY <1>7 DEF Resume, Holding, OneInside, TypeOK
  <2>2. Holding' = Holding \ {p}
    BY <1>7 DEF Resume, Holding, TypeOK
  <2>3. Holding' = {} /\ Running' = {} /\ getters' = 0
    BY <1>7, <2>1, <2>2 DEF Resume, Running, OneInside, queueVars
  <2> QED
    BY <2>3 DEF OneInside
<1>8. ASSUME NEW a \in NewAdapters, Replace(a) PROVE OneInside'
  BY <1>8, SameInside DEF Replace, queueVars
<1>9. CASE Detach \/ DetachJoined
  BY <1>9, SameInside DEF Detach, DetachJoined, queueVars, lockVars
<1>10. CASE UNCHANGED vars
  BY <1>10, SameInside DEF vars, queueVars, lockVars
<1> QED
  BY <1>1, <1>2, <1>3, <1>4, <1>5, <1>6, <1>7, <1>8, <1>9, <1>10
     DEF Next, Internal, LoopStep, Users

(* At the start the lock is free and empty. *)
LEMMA InsideInit == ASSUME Init PROVE OneInside
BY DEF Init, OneInside, Running, Holding

(* A command runs alone, whatever the callers do. *)
THEOREM Exclusion == Spec => []MutualExclusion
<1>1. Init => Counted /\ OneInside
  BY CountedInit, InsideInit
<1>2. Counted /\ OneInside /\ [Next]_vars => (Counted /\ OneInside)'
  BY CountedStep, InsideStep DEF Counted
<1>3. Counted /\ OneInside => MutualExclusion
  BY InsideExcludes DEF Counted
<1> QED
  BY <1>1, <1>2, <1>3, PTL DEF Spec

-----------------------------------------------------------------------------
(* No queued command is left without an executor *)

Waits(ws) == \E i \in DOMAIN ws : ws[i] = Executor

(* Joining the queue removes no executor from it. *)
LEMMA JoinedWaits ==
  ASSUME TypeOK, NEW w \in Waiter
  PROVE  /\ Waits(waiters) => Waits(Append(waiters, w))
         /\ w = Executor => Waits(Append(waiters, w))
<1>1. waiters \in Seq(Waiter)
  BY DEF TypeOK
<1>2. /\ DOMAIN waiters = 1..Len(waiters) /\ Len(waiters) \in Nat
      /\ DOMAIN Append(waiters, w) = 1..Len(waiters) + 1
  BY <1>1, AppendProperties, LenProperties
<1>3. \A i \in 1..Len(waiters) : Append(waiters, w)[i] = waiters[i]
  BY <1>1, AppendProperties
<1>4. Append(waiters, w)[Len(waiters) + 1] = w
  BY <1>1, AppendProperties
<1> QED
  BY <1>2, <1>3, <1>4 DEF Waits

(* When the first waiter gets the lock, an executor among the waiters is this one *)
(* or still waits. *)
LEMMA LeftWaits ==
  ASSUME TypeOK, waiters # <<>>, Waits(waiters)
  PROVE  Head(waiters) = Executor \/ Waits(Tail(waiters))
<1>1. waiters \in Seq(Waiter) /\ Len(waiters) \in Nat \ {0}
  BY EmptySeq DEF TypeOK
<1>2. /\ DOMAIN waiters = 1..Len(waiters)
      /\ Tail(waiters) \in Seq(Waiter) /\ Len(Tail(waiters)) = Len(waiters) - 1
      /\ DOMAIN Tail(waiters) = 1..Len(waiters) - 1
  BY <1>1, LenProperties, HeadTailProperties
<1>3. \A i \in 1..Len(Tail(waiters)) : Tail(waiters)[i] = waiters[i + 1]
  BY <1>1, HeadTailProperties
<1>4. Head(waiters) = waiters[1]
  BY <1>1, HeadTailProperties
<1> PICK i \in 1..Len(waiters) : waiters[i] = Executor
  BY <1>2 DEF Waits
<1>5. CASE i = 1
  BY <1>4, <1>5
<1>6. CASE i # 1
  <2>1. i - 1 \in 1..Len(waiters) - 1 /\ Tail(waiters)[i - 1] = waiters[i - 1 + 1]
    BY <1>1, <1>2, <1>3, <1>6
  <2>2. waiters[i - 1 + 1] = Executor
    BY <1>1
  <2> QED
    BY <1>2, <2>1, <2>2 DEF Waits
<1> QED
  BY <1>5, <1>6

(* An executor that is created, waits, or has the lock. *)
Alive == ready > 0 \/ getters > 0 \/ Running # {} \/ Waits(waiters)

(* An executor that gets the lock runs a command or waits in get for one. *)
LEMMA EnterAlive ==
  ASSUME TypeOK, EnterAsExecutor PROVE getters' > 0 \/ Running' # {}
<1>1. CASE \E c \in Commands : Begin(c)
  BY <1>1, BeginRunning
<1>2. CASE getters' = getters + 1
  BY <1>2 DEF TypeOK
<1> QED
  BY <1>1, <1>2 DEF EnterAsExecutor

(* Every step leaves an executor for the commands that are queued: put starts one *)
(* for the first command, and _execute the next while there are more. *)
LEMMA StrandedStep ==
  ASSUME TypeOK, NoStrandedCommand, [Next]_vars PROVE NoStrandedCommand'
<1> SUFFICES Queued' # {} => Alive'
  BY DEF NoStrandedCommand, Alive, Waits
<1> USE DEF NoStrandedCommand, Waits
<1>1. CASE StartExecutor
  <2>1. CASE LockFree /\ EnterAsExecutor
    BY <2>1, EnterAlive DEF Alive
  <2>2. CASE waiters' = Append(waiters, Executor)
    BY <2>2, JoinedWaits, Waiters DEF Alive
  <2> QED
    BY <1>1, <2>1, <2>2 DEF StartExecutor
<1>2. CASE Wake
  BY <1>2, BeginRunning DEF Wake, Alive
<1>3. CASE Grant
  <2>1. CASE EnterAsExecutor
    BY <2>1, EnterAlive DEF Alive
  <2>2. CASE Head(waiters) # Executor /\ UNCHANGED <<status, getters>>
    <3>1. Waits(waiters) => Waits(waiters')
      BY <1>3, <2>2, LeftWaits DEF Grant
    <3> QED
      BY <1>3, <2>2, <3>1 DEF Grant, Alive, Running, Queued
  <2> QED
    BY <1>3, <2>1, <2>2, WaitersAssumption DEF Grant, queueVars
<1>4. ASSUME NEW c \in Commands, Finish(c) PROVE Queued' # {} => Alive'
  <2>1. Queued' = Queued
    BY <1>4 DEF Finish, Queued, TypeOK
  <2>2. Queued # {} => ready' > 0
    BY <1>4 DEF Finish, Successor, TypeOK
  <2> QED
    BY <2>1, <2>2 DEF Alive
<1>5. ASSUME NEW c \in Commands, Put(c) PROVE Queued' # {} => Alive'
  <2>1. Running' = Running
    BY <1>5 DEF Put, Running, TypeOK
  <2>2. ready' >= ready /\ (Queued = {} => ready' > 0)
    BY <1>5 DEF Put, TypeOK
  <2>3. ready \in Nat /\ ready' \in Nat /\ UNCHANGED <<getters, waiters>>
    BY <1>5 DEF Put, TypeOK
  <2> QED
    BY <2>1, <2>2, <2>3 DEF Alive
<1>6. ASSUME NEW p \in Pausers, Pause(p) PROVE Queued' # {} => Alive'
  <2>1. Waits(waiters) => Waits(waiters')
    BY <1>6, JoinedWaits, Waiters DEF Pause
  <2> QED
    BY <1>6, <2>1 DEF Pause, Alive, Running, Queued, queueVars
<1>7. ASSUME NEW p \in Pausers, Resume(p) PROVE Queued' # {} => Alive'
  BY <1>7 DEF Resume, Alive, Running, Queued, queueVars
<1>8. ASSUME NEW a \in NewAdapters, Replace(a) PROVE Queued' # {} => Alive'
  <2>1. Waits(waiters) => Waits(waiters')
    BY <1>8, JoinedWaits, Waiters DEF Replace
  <2> QED
    BY <1>8, <2>1 DEF Replace, Alive, Running, Queued, queueVars
<1>9. CASE Detach \/ DetachJoined
  BY <1>9 DEF Detach, DetachJoined, Alive, Running, Queued, queueVars, lockVars
<1>10. CASE UNCHANGED vars
  BY <1>10 DEF vars, Alive, Running, Queued, queueVars, lockVars
<1> QED
  BY <1>1, <1>2, <1>3, <1>4, <1>5, <1>6, <1>7, <1>8, <1>9, <1>10
     DEF Next, Internal, LoopStep, Users

(* However puts and executions interleave, a queued command has an executor. *)
THEOREM NothingStranded == Spec => []NoStrandedCommand
<1>1. Init => Counted /\ NoStrandedCommand
  BY CountedInit DEF Init, NoStrandedCommand, Queued
<1>2. Counted /\ NoStrandedCommand /\ [Next]_vars => (Counted /\ NoStrandedCommand)'
  BY CountedStep, StrandedStep DEF Counted
<1> QED
  BY <1>1, <1>2, PTL DEF Spec

-----------------------------------------------------------------------------
(* Adapters are closed only when nothing runs on them *)

(* The waiters of the lock, as far as adapters go. *)
SwapQueue(ws, sw) ==
    /\ \A i \in DOMAIN ws : ws[i] \in NewAdapters => sw[ws[i]] = "waiting"
    /\ \A i, j \in DOMAIN ws : ws[i] = ws[j] /\ ws[i] \in NewAdapters => i = j

(* Adapters nobody has plugged in yet are open and unknown to manager and *)
(* invoker, each waits for the lock at most once; what runs, runs on the *)
(* invoker's adapter; and only a detach that is over closes that one. *)
Unplugged(a) == swap[a] \in {"new", "waiting"}

AdapterInv ==
    /\ \A a \in NewAdapters : Unplugged(a) => a # device /\ a # frAdapter /\ a \notin closed
    /\ SwapQueue(waiters, swap)
    /\ \A c \in Running : ranOn[c] = frAdapter
    /\ attachment = "attached" => frAdapter = device
    /\ attachment # "detached" => frAdapter \notin closed
    /\ attachment = "detached" => unfinished = 0

(* The places of the lock's queue when a waiter joins it. *)
LEMMA AppendIndex ==
  ASSUME TypeOK, NEW w \in Waiter
  PROVE  /\ Len(waiters) \in Nat
         /\ DOMAIN waiters = 1..Len(waiters)
         /\ DOMAIN Append(waiters, w) = 1..Len(waiters) + 1
         /\ \A i \in 1..Len(waiters) : Append(waiters, w)[i] = waiters[i]
         /\ Append(waiters, w)[Len(waiters) + 1] = w
         /\ \A i \in 1..Len(waiters) : waiters[i] \in Waiter
BY AppendProperties, LenProperties, ElementOfSeq DEF TypeOK

(* The places of the lock's queue when its first waiter leaves. *)
LEMMA TailIndex ==
  ASSUME TypeOK, waiters # <<>>
  PROVE  /\ Len(waiters) \in Nat \ {0}
         /\ DOMAIN waiters = 1..Len(waiters)
         /\ DOMAIN Tail(waiters) = 1..Len(waiters) - 1
         /\ \A i \in 1..Len(waiters) - 1 : Tail(waiters)[i] = waiters[i + 1]
         /\ Head(waiters) = waiters[1]
<1>1. waiters \in Seq(Waiter) /\ Len(waiters) \in Nat \ {0}
  BY EmptySeq DEF TypeOK
<1> QED
  BY <1>1, LenProperties, HeadTailProperties

(* An executor or pauser that joins the queue is no replacement. *)
LEMMA PersonQueues ==
  ASSUME TypeOK, SwapQueue(waiters, swap), NEW w \in Waiter, w \notin NewAdapters
  PROVE  SwapQueue(Append(waiters, w), swap)
BY AppendIndex DEF SwapQueue

(* A replacement joins the queue once, with its adapter marked as waiting. *)
LEMMA AdapterQueues ==
  ASSUME TypeOK, SwapQueue(waiters, swap), NEW a \in NewAdapters, swap[a] = "new",
         NEW sw, sw = [swap EXCEPT ![a] = "waiting"]
  PROVE  SwapQueue(Append(waiters, a), sw)
<1>1. \A i \in DOMAIN waiters : waiters[i] # a
  BY DEF SwapQueue
<1>2. a \in Waiter /\ swap \in [NewAdapters -> {"new", "waiting", "done", "lost"}]
  BY Waiters DEF TypeOK
<1>3. \A i \in 1..Len(waiters) + 1 : i \in 1..Len(waiters) \/ i = Len(waiters) + 1
  BY AppendIndex, <1>2
<1> QED
  BY <1>1, <1>2, <1>3, AppendIndex DEF SwapQueue

(* A replacement that gets the lock was marked as waiting and waits nowhere else, *)
(* so its mark may change. *)
LEMMA HeadLeaves ==
  ASSUME TypeOK, waiters # <<>>, SwapQueue(waiters, swap)
  PROVE  /\ SwapQueue(Tail(waiters), swap)
         /\ Head(waiters) \in NewAdapters =>
                /\ swap[Head(waiters)] = "waiting"
                /\ \A v : SwapQueue(Tail(waiters), [swap EXCEPT ![Head(waiters)] = v])
<1>1. \A i \in 1..Len(waiters) - 1 : i + 1 \in 1..Len(waiters) /\ i + 1 # 1
  BY TailIndex
<1>2. SwapQueue(Tail(waiters), swap)
  BY <1>1, TailIndex DEF SwapQueue
<1>3. ASSUME Head(waiters) \in NewAdapters
      PROVE  /\ swap[Head(waiters)] = "waiting"
             /\ \A i \in DOMAIN Tail(waiters) : Tail(waiters)[i] # Head(waiters)
  BY <1>1, <1>3, TailIndex DEF SwapQueue
<1>4. swap \in [NewAdapters -> {"new", "waiting", "done", "lost"}]
  BY DEF TypeOK
<1> QED
  BY <1>2, <1>3, <1>4 DEF SwapQueue

(* What a begin and the calls that touch no adapter leave of AdapterInv. *)
LEMMA SameAdapters ==
  ASSUME AdapterInv, UNCHANGED <<waiters, deviceVars>>, UNCHANGED <<status, ranOn>>,
         attachment # "detached" \/ UNCHANGED unfinished
  PROVE  AdapterInv'
BY DEF AdapterInv, deviceVars, Unplugged, Running

(* A command that begins runs on the invoker's adapter. *)
LEMMA BeginAdapters ==
  ASSUME TypeOK, AdapterInv, NEW c \in Commands, Begin(c)
  PROVE  /\ \A d \in Running' : ranOn'[d] = frAdapter
         /\ unfinished' = unfinished
<1>1. Running' = Running \cup {c}
  BY BeginRunning
<1>2. ranOn' = [ranOn EXCEPT ![c] = frAdapter] /\ ranOn \in [Commands -> Adapters]
  BY DEF Begin, TypeOK
<1>3. \A d \in Running' : d \in Commands
  BY DEF Running
<1> QED
  BY <1>1, <1>2, <1>3 DEF AdapterInv, Begin

(* An executor that gets the lock begins commands on the invoker's adapter only. *)
LEMMA EnterAdapters ==
  ASSUME TypeOK, AdapterInv, EnterAsExecutor
  PROVE  /\ \A d \in Running' : ranOn'[d] = frAdapter
         /\ unfinished' = unfinished
<1>1. CASE \E c \in Commands : Begin(c)
  BY <1>1, BeginAdapters
<1>2. CASE UNCHANGED queueVars
  BY <1>2 DEF queueVars, Running, AdapterInv
<1> QED
  BY <1>1, <1>2 DEF EnterAsExecutor

(* Plugging in happens in a free lock, hence with no command running. *)
LEMMA PlugInAdapters ==
  ASSUME TypeOK, AdapterInv, Running = {}, NEW a \in NewAdapters, Unplugged(a), PlugIn(a),
         UNCHANGED queueVars, SwapQueue(waiters', swap')
  PROVE  AdapterInv'
<1>1. Running' = {} /\ unfinished' = unfinished /\ attachment' = attachment /\ frAdapter' = a
  BY DEF Running, queueVars, PlugIn
<1>2. a # device /\ a \notin closed
  BY DEF AdapterInv
<1>3. swap' \in [NewAdapters -> {"new", "waiting", "done", "lost"}]
      /\ \A b \in NewAdapters : Unplugged(b)' => Unplugged(b) /\ b # a
  BY DEF PlugIn, TypeOK, Unplugged
<1>4. CASE attachment = "attached" /\ device' = a /\ closed' = closed \cup {device}
  BY <1>1, <1>2, <1>3, <1>4 DEF AdapterInv
<1>5. CASE attachment # "attached" /\ UNCHANGED <<device, closed>>
  BY <1>1, <1>2, <1>3, <1>5 DEF AdapterInv
<1> QED
  BY <1>4, <1>5 DEF PlugIn

(* detach_device closes its adapter when nothing is unfinished. *)
LEMMA CloseAdapters ==
  ASSUME TypeOK, AdapterInv, CloseDetached, attachment # "detached",
         UNCHANGED <<frAdapter, swap, device, queueVars, lockVars>>
  PROVE  AdapterInv'
<1>1. unfinished' = 0 /\ attachment' = "detached" /\ closed' = closed \cup {device}
  BY DEF CloseDetached, queueVars
<1>2. UNCHANGED <<frAdapter, swap, device, waiters, status, ranOn>>
  BY DEF queueVars, lockVars
<1> QED
  BY <1>1, <1>2 DEF AdapterInv, Unplugged, Running

(* Every step keeps what is known of the adapters. *)
LEMMA AdapterStep ==
  ASSUME Counted, OneInside, AdapterInv, [Next]_vars PROVE AdapterInv'
<1> USE DEF Counted
<1>1. CASE StartExecutor
  <2>1. SwapQueue(waiters', swap)
    BY <1>1, PersonQueues, Waiters, WaitersAssumption DEF StartExecutor, AdapterInv
  <2>2. (\A d \in Running' : ranOn'[d] = frAdapter) /\ unfinished' = unfinished
    <3>1. CASE EnterAsExecutor
      BY <3>1, EnterAdapters
    <3>2. CASE UNCHANGED queueVars
      BY <3>2 DEF queueVars, Running, AdapterInv
    <3> QED
      BY <1>1, <3>1, <3>2 DEF StartExecutor
  <2>3. UNCHANGED deviceVars
    BY <1>1 DEF StartExecutor
  <2> QED
    BY <2>1, <2>2, <2>3 DEF AdapterInv, deviceVars, Unplugged
<1>2. CASE Wake
  <2>1. (\A d \in Running' : ranOn'[d] = frAdapter) /\ unfinished' = unfinished
    BY <1>2, BeginAdapters DEF Wake
  <2>2. UNCHANGED waiters /\ UNCHANGED deviceVars
    BY <1>2 DEF Wake
  <2> QED
    BY <2>1, <2>2 DEF AdapterInv, deviceVars, Unplugged
<1>3. CASE Grant
  <2>1. /\ SwapQueue(Tail(waiters), swap)
        /\ Head(waiters) \in NewAdapters =>
               /\ swap[Head(waiters)] = "waiting"
               /\ \A v : SwapQueue(Tail(waiters), [swap EXCEPT ![Head(waiters)] = v])
    BY <1>3, HeadLeaves DEF Grant, AdapterInv
  <2>2. CASE EnterAsExecutor /\ UNCHANGED <<pauser, deviceVars>>
    BY <1>3, <2>1, <2>2, EnterAdapters DEF Grant, AdapterInv, deviceVars, Unplugged
  <2>3. CASE UNCHANGED <<getters, queueVars, deviceVars>>
    BY <1>3, <2>1, <2>3 DEF Grant, AdapterInv, queueVars, deviceVars, Unplugged, Running
  <2>4. CASE /\ Head(waiters) \in NewAdapters
             /\ PlugIn(Head(waiters))
             /\ UNCHANGED <<locked, getters, queueVars, pauser>>
    <3>1. Running = {}
      BY <1>3 DEF Grant, OneInside
    <3>2. Unplugged(Head(waiters)) /\ SwapQueue(waiters', swap')
      BY <1>3, <2>1, <2>4 DEF Grant, PlugIn, Unplugged
    <3>3. UNCHANGED queueVars
      BY <2>4
    <3> QED
      BY <2>4, <3>1, <3>2, <3>3, PlugInAdapters
  <2> QED
    BY <1>3, <2>2, <2>3, <2>4 DEF Grant
<1>4. ASSUME NEW c \in Commands, Finish(c) PROVE AdapterInv'
  <2>1. Running' \subseteq Running
    BY <1>4 DEF Finish, Running, TypeOK
  <2>2. UNCHANGED <<waiters, ranOn, frAdapter, swap, attachment, device, closed>>
    BY <1>4 DEF Finish, deviceVars
  <2>3. attachment # "detached"
    BY <1>4, FinishWithin DEF AdapterInv, Finish, Running
  <2> QED
    BY <2>1, <2>2, <2>3 DEF AdapterInv, Unplugged
<1>5. ASSUME NEW c \in Commands, Put(c) PROVE AdapterInv'
  <2>1. Running' = Running /\ attachment = "attached"
    BY <1>5 DEF Put, Running, TypeOK
  <2>2. UNCHANGED <<waiters, ranOn, frAdapter, swap, attachment, device, closed>>
    BY <1>5 DEF Put, deviceVars
  <2> QED
    BY <2>1, <2>2 DEF AdapterInv, Unplugged
<1>6. ASSUME NEW p \in Pausers, Pause(p) PROVE AdapterInv'
  <2>1. SwapQueue(waiters', swap)
    BY <1>6, PersonQueues, Waiters, WaitersAssumption DEF Pause, AdapterInv
  <2> QED
    BY <1>6, <2>1 DEF Pause, AdapterInv, queueVars, deviceVars, Unplugged, Running
<1>7. ASSUME NEW p \in Pausers, Resume(p) PROVE AdapterInv'
  BY <1>7, SameAdapters DEF Resume, queueVars
<1>8. ASSUME NEW a \in NewAdapters, Replace(a) PROVE AdapterInv'
  <2>1. Unplugged(a) /\ swap[a] = "new" /\ UNCHANGED queueVars
    BY <1>8 DEF Replace, Unplugged
  <2>2. CASE LockFree /\ PlugIn(a) /\ UNCHANGED waiters
    <3>1. Running = {} /\ waiters = <<>>
      BY <2>2 DEF LockFree, OneInside
    <3>2. SwapQueue(waiters', swap')
      BY <2>2, <3>1, EmptySeq DEF SwapQueue
    <3> QED
      BY <2>1, <2>2, <3>1, <3>2, PlugInAdapters
  <2>3. CASE /\ waiters' = Append(waiters, a)
             /\ swap' = [swap EXCEPT ![a] = "waiting"]
             /\ UNCHANGED <<frAdapter, attachment, device, closed>>
    <3>1. SwapQueue(waiters', swap')
      BY <2>1, <2>3, AdapterQueues DEF AdapterInv
    <3>2. \A b \in NewAdapters : Unplugged(b)' => Unplugged(b)
      BY <2>1, <2>3 DEF Unplugged, TypeOK
    <3> QED
      BY <2>1, <2>3, <3>1, <3>2 DEF AdapterInv, queueVars, Running
  <2> QED
    BY <1>8, <2>2, <2>3 DEF Replace
<1>9. CASE Detach
  <2>1. CASE CloseDetached
    BY <1>9, <2>1, CloseAdapters DEF Detach
  <2>2. CASE attachment' = "joining" /\ UNCHANGED closed
    BY <1>9, <2>2 DEF Detach, AdapterInv, queueVars, lockVars, Unplugged, Running
  <2> QED
    BY <1>9, <2>1, <2>2 DEF Detach
<1>10. CASE DetachJoined
  BY <1>10, CloseAdapters DEF DetachJoined
<1>11. CASE UNCHANGED vars
  BY <1>11, SameAdapters DEF vars, queueVars, lockVars
<1> QED
  BY <1>1, <1>2, <1>3, <1>4, <1>5, <1>6, <1>7, <1>8, <1>9, <1>10, <1>11
     DEF Next, Internal, LoopStep, Users

(* At the start the first adapter is attached and nothing waits. *)
LEMMA AdapterInit == ASSUME Init PROVE AdapterInv
<1>1. waiters = <<>> /\ Running = {} /\ swap = [a \in NewAdapters |-> "new"]
  BY DEF Init, Running
<1>2. SwapQueue(waiters, swap)
  BY <1>1, EmptySeq DEF SwapQueue
<1> QED
  BY <1>1, <1>2, AdaptersAssumption DEF Init, AdapterInv, Unplugged

(* The inductive invariant of the invoker. *)
IInv == Counted /\ OneInside /\ NoStrandedCommand /\ AdapterInv

(* The inductive invariant holds at the start. *)
LEMMA IInvInit == ASSUME Init PROVE IInv
BY CountedInit, InsideInit, AdapterInit DEF IInv, Init, NoStrandedCommand, Queued

(* Every step keeps it. *)
LEMMA IInvStep == ASSUME IInv, [Next]_vars PROVE IInv'
BY CountedStep, InsideStep, StrandedStep, AdapterStep DEF IInv, Counted

(* It holds in every reachable state of the invoker. *)
THEOREM Invariance == Spec => []IInv
<1>1. Init => IInv
  BY IInvInit
<1>2. IInv /\ [Next]_vars => IInv'
  BY IInvStep
<1> QED
  BY <1>1, <1>2, PTL DEF Spec

(* The count that a detach awaits is the number of unfinished commands. *)
THEOREM CountIsTrue == Spec => []UnfinishedCounted
<1>1. IInv => UnfinishedCounted
  BY DEF IInv, Counted
<1> QED
  BY <1>1, Invariance, PTL

(* What runs, runs on the invoker's adapter, and that is closed only when nothing *)
(* is unfinished, hence nothing runs. *)
LEMMA IInvOpen == ASSUME IInv PROVE NoCommandOnClosedAdapter
<1>1. \A c \in Running : ranOn[c] = frAdapter
  BY DEF IInv, AdapterInv
<1>2. CASE attachment # "detached"
  BY <1>1, <1>2 DEF IInv, AdapterInv, NoCommandOnClosedAdapter
<1>3. CASE attachment = "detached"
  <2>1. Cardinality(Active) = 0
    BY <1>3 DEF IInv, AdapterInv, Counted, UnfinishedCounted, Active
  <2>2. Active = {}
    BY <2>1, ActiveFinite, FS_EmptySet
  <2> QED
    BY <2>2 DEF Active, NoCommandOnClosedAdapter
<1> QED
  BY <1>2, <1>3

(* Neither a replacement nor a detach ever closes an adapter under a command. *)
THEOREM AdapterStaysOpen == Spec => []NoCommandOnClosedAdapter
<1>1. IInv => NoCommandOnClosedAdapter
  BY IInvOpen
<1> QED
  BY <1>1, Invariance, PTL

(* The manager and the invoker agree on the adapter while it is attached. *)
THEOREM AdapterAgreed == Spec => []InvokerUsesAttached
<1>1. IInv => InvokerUsesAttached
  BY DEF IInv, AdapterInv, InvokerUsesAttached
<1> QED
  BY <1>1, Invariance, PTL

-----------------------------------------------------------------------------
(* The invoker implements SerialQueue *)

(* _execute takes the command that SerialQueue would start. *)
LEMMA BeginStarts ==
  ASSUME TypeOK, Running = {}, NEW c \in Commands, Begin(c) PROVE SQ!Start(c)
<1>1. \A d \in Commands : status[d] # "running"
  BY DEF Running
<1>2. \A d \in Commands : status[d] = "queued" => ~SQ!Before(d, c)
  BY DEF Begin, MostUrgent, Queued, Precedes, SQ!Before
<1> QED
  BY <1>1, <1>2 DEF Begin, MostUrgent, Queued, SQ!Start

(* An executor that takes a free lock starts a command of SerialQueue, or stutters. *)
LEMMA EnterStarts ==
  ASSUME TypeOK, OneInside, ~locked, EnterAsExecutor PROVE [SQ!Next]_SQ!vars
<1>1. CASE \E c \in Commands : Begin(c)
  BY <1>1, BeginStarts DEF OneInside, SQ!Next, SQ!Serve
<1>2. CASE UNCHANGED queueVars
  BY <1>2 DEF queueVars, SQ!vars
<1> QED
  BY <1>1, <1>2 DEF EnterAsExecutor

(* Every step of the invoker is a step of SerialQueue, or a stutter. *)
LEMMA RefinementStep == ASSUME IInv, [Next]_vars PROVE [SQ!Next]_SQ!vars
<1> USE DEF IInv, Counted
<1>1. CASE StartExecutor
  BY <1>1, EnterStarts DEF StartExecutor, LockFree, queueVars, SQ!vars
<1>2. CASE Wake
  <2>1. Running = {}
    BY <1>2 DEF Wake, OneInside
  <2> QED
    BY <1>2, <2>1, BeginStarts DEF Wake, SQ!Next, SQ!Serve
<1>3. CASE Grant
  <2>1. CASE EnterAsExecutor
    BY <1>3, <2>1, EnterStarts DEF Grant
  <2>2. CASE UNCHANGED queueVars
    BY <2>2 DEF queueVars, SQ!vars
  <2> QED
    BY <1>3, <2>1, <2>2 DEF Grant
<1>4. ASSUME NEW c \in Commands, Finish(c) PROVE [SQ!Next]_SQ!vars
  BY <1>4 DEF Finish, SQ!Finish, SQ!Serve, SQ!Next
<1>5. ASSUME NEW c \in Commands, Put(c) PROVE [SQ!Next]_SQ!vars
  BY <1>5 DEF Put, SQ!Submit, SQ!Next
<1>6. CASE UNCHANGED queueVars
  BY <1>6 DEF queueVars, SQ!vars
<1>7. ASSUME NEW p \in Pausers, Pause(p) \/ Resume(p) PROVE UNCHANGED queueVars
  BY <1>7 DEF Pause, Resume
<1>8. ASSUME NEW a \in NewAdapters, Replace(a) PROVE UNCHANGED queueVars
  BY <1>8 DEF Replace
<1>9. CASE Detach \/ DetachJoined \/ UNCHANGED vars
  BY <1>6, <1>9 DEF Detach, DetachJoined, vars
<1> QED
  BY <1>1, <1>2, <1>3, <1>4, <1>5, <1>6, <1>7, <1>8, <1>9
     DEF Next, Internal, LoopStep, Users

(* One command at a time, the most urgent of those queued, each served once: *)
(* every behaviour of the invoker is one of SerialQueue. *)
THEOREM Refinement == Spec => ServesInOrder
<1>1. Init => SQ!Init
  BY DEF Init, SQ!Init
<1>2. IInv /\ [Next]_vars => [SQ!Next]_SQ!vars
  BY RefinementStep
<1> QED
  BY <1>1, <1>2, Invariance, PTL DEF Spec, ServesInOrder, SQ!Spec

-----------------------------------------------------------------------------
(* A device that is detached while its commands are paused *)

(* The lock is taken as long as a caller that has paused is inside. *)
LEMMA HeldIsLocked ==
  ASSUME TypeOK, OneInside, NEW p \in Pausers, pauser[p] = "holding"
  PROVE  locked /\ Running = {} /\ getters = 0
<1>1. p \in Holding
  BY DEF Holding
<1> QED
  BY <1>1 DEF OneInside, TypeOK

(* Whoever is stuck stays so: the lock is never given back, no command is begun or ends, *)
(* and a detach that has commands to wait for waits for ever.                             *)
StaysStuck ==
    Stuck => /\ Stuck'
             /\ status' = status
             /\ unfinished > 0 => attachment' = attachment

LEMMA StuckStep == ASSUME IInv, [Next]_vars PROVE StaysStuck
<1> SUFFICES ASSUME Stuck
             PROVE  /\ attachment' # "attached" /\ pauser' = pauser /\ status' = status
                    /\ unfinished > 0 => attachment' = attachment
  BY DEF StaysStuck, Stuck
<1>1. attachment # "attached" /\ locked /\ Running = {} /\ getters = 0
  BY HeldIsLocked DEF Stuck, IInv, Counted
<1>2. CASE StartExecutor
  <2>1. ~LockFree
    BY <1>1 DEF LockFree
  <2> QED
    BY <1>1, <1>2, <2>1 DEF StartExecutor, deviceVars, queueVars
<1>3. ~Wake /\ ~Grant
  BY <1>1 DEF Wake, Grant
<1>4. CASE DetachJoined
  BY <1>1, <1>4 DEF DetachJoined, CloseDetached, queueVars, lockVars
<1>5. \A c \in Commands : ~Finish(c) /\ ~Put(c)
  BY <1>1 DEF Finish, Put, Running
<1>6. ~Detach /\ (\A p \in Pausers : ~Pause(p) /\ ~Resume(p)) /\ \A a \in NewAdapters : ~Replace(a)
  BY <1>1 DEF Detach, Pause, Resume, Replace
<1>7. CASE UNCHANGED vars
  BY <1>1, <1>7 DEF vars, deviceVars, queueVars
<1> QED
  BY <1>2, <1>3, <1>4, <1>5, <1>6, <1>7 DEF Next, Internal, LoopStep, Users

(* When a device is detached while a caller has paused its commands, nothing ends that: *)
(* resume_command_execution finds no invoker any more, the commands that wait are never  *)
(* executed, and detach_device, which waits for them, never returns.                     *)
THEOREM StuckForGood == Spec => [][StaysStuck]_vars
<1>1. IInv /\ [Next]_vars => StaysStuck
  BY StuckStep
<1> QED
  BY <1>1, Invariance, PTL DEF Spec
=============================================================================
