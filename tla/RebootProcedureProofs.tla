----------------------- MODULE RebootProcedureProofs -----------------------
(* Proofs about RebootProcedure: where the reboot of a device gets to, for any commands, *)
(* priorities, adapters and schedule of the loop.  What they need of the invoker is its  *)
(* inductive invariant, as long as the procedure has not closed the device behind it.    *)
EXTENDS RebootProcedure, CommandInvokerProofs

(* The caller and the adapter it creates are such as the invoker knows. *)
Known == Rebooter \in Pausers /\ Fresh \in NewAdapters

(* Until the device is closed the invoker is as ever, and nobody waits to plug the new   *)
(* adapter in; from then on the caller has the lock, and the adapter waits for it.       *)
Before == step \in {"idle", "pausing"}
After == step \in {"closed", "replacing"}

RebootInv ==
    /\ Counted /\ OneInside
    /\ Before \/ After
    /\ Before => IInv /\ swap[Fresh] = "new"
    /\ After => pauser[Rebooter] = "holding" /\ swap[Fresh] \in {"new", "waiting"}

(* While the caller holds the lock, the loop, the device and the clients' commands leave *)
(* it to the caller and leave the new adapter where it is. *)
LEMMA NobodyElse ==
  ASSUME TypeOK, OneInside, NEW p \in Pausers, pauser[p] = "holding",
         Internal \/ \E c \in Commands : Put(c)
  PROVE  UNCHANGED <<pauser, swap>>
<1>1. ~Grant
  BY HeldIsLocked DEF Grant
<1> QED
  BY <1>1 DEF Internal, LoopStep, StartExecutor, Wake, DetachJoined, Finish, Put, deviceVars

(* Before the adapter is there, nobody plugs it in. *)
LEMMA NotYetPluggedIn ==
  ASSUME Known, IInv, swap[Fresh] = "new", Internal \/ \E c \in Commands : Put(c)
  PROVE  swap'[Fresh] = "new"
<1>1. TypeOK /\ SwapQueue(waiters, swap)
  BY DEF IInv, Counted, AdapterInv
<1>2. CASE Grant
  <2>1. waiters # <<>> /\ Head(waiters) = waiters[1] /\ 1 \in DOMAIN waiters
    <3>1. waiters # <<>>
      BY <1>2 DEF Grant
    <3>2. Len(waiters) \in Nat \ {0} /\ DOMAIN waiters = 1..Len(waiters) /\ Head(waiters) = waiters[1]
      BY <1>1, <3>1, TailIndex
    <3> QED
      BY <3>1, <3>2
  <2>2. Head(waiters) \in NewAdapters => Head(waiters) # Fresh
    BY <1>1, <2>1 DEF SwapQueue
  <2>3. CASE Head(waiters) \in NewAdapters /\ PlugIn(Head(waiters))
    <3>1. PICK a : a = Head(waiters)
      OBVIOUS
    <3>2. a # Fresh /\ swap \in [NewAdapters -> {"new", "waiting", "done", "lost"}]
      BY <1>1, <2>2, <2>3, <3>1 DEF TypeOK
    <3>3. swap' = [swap EXCEPT ![a] = "done"] \/ swap' = [swap EXCEPT ![a] = "lost"]
      BY <2>3, <3>1 DEF PlugIn
    <3>4. CASE swap' = [swap EXCEPT ![a] = "done"]
      BY <3>2, <3>4 DEF Known
    <3>5. CASE swap' = [swap EXCEPT ![a] = "lost"]
      BY <3>2, <3>5 DEF Known
    <3> QED
      BY <3>3, <3>4, <3>5
  <2>4. CASE UNCHANGED swap
    BY <2>4
  <2> QED
    BY <1>2, <2>3, <2>4 DEF Grant, deviceVars
<1>3. CASE UNCHANGED swap
  BY <1>3
<1> QED
  BY <1>2, <1>3
     DEF Internal, LoopStep, StartExecutor, Wake, DetachJoined, Finish, Put, deviceVars

(* Pausing, the invoker's own steps and the commands are steps of the invoker. *)
LEMMA StepsOfInvoker ==
  ASSUME Known,
         Pause(Rebooter) \/ Resume(Rebooter) \/ Replace(Fresh) \/ Internal
             \/ \E c \in Commands : Put(c)
  PROVE  [Next]_vars
BY DEF Known, Next, Users

(* Each step of the procedure and of what runs beside it keeps the invariant. *)
LEMMA RebootInvStep ==
  ASSUME Known, RebootInv, [RebootNext]_rebootVars
  PROVE  RebootInv'
<1>0. TypeOK
  BY DEF RebootInv, Counted
<1>1. ASSUME [Next]_vars PROVE Counted' /\ OneInside' /\ (IInv => IInv')
  BY <1>0, <1>1, CountedStep, InsideStep, IInvStep DEF RebootInv
<1>2. CASE AskPause
  <2>1. Counted' /\ OneInside' /\ IInv' /\ Before'
    BY <1>1, <1>2, StepsOfInvoker DEF AskPause, RebootInv, Before
  <2>2. swap' = swap
    BY <1>2 DEF AskPause, Pause, deviceVars
  <2> QED
    BY <1>2, <2>1, <2>2 DEF RebootInv, Before, After, AskPause
<1>3. CASE RebootAndClose
  <2>1. Counted' /\ OneInside'
    BY <1>3 DEF RebootAndClose, RebootInv, Counted, OneInside, TypeOK, UnfinishedCounted, Queued,
                Running, Holding, queueVars, lockVars
  <2> QED
    BY <1>3, <2>1 DEF RebootAndClose, RebootInv, Before, After
<1>4. CASE AskReplace
  <2>1. Counted' /\ OneInside' /\ After' /\ step = "closed" /\ UNCHANGED pauser
    BY <1>1, <1>4, StepsOfInvoker DEF AskReplace, Replace, After
  <2>2. pauser[Rebooter] = "holding" /\ locked
    BY <1>0, <2>1, HeldIsLocked DEF RebootInv, After, Known
  <2>3. swap'[Fresh] = "waiting"
    BY <1>0, <1>4, <2>2 DEF AskReplace, Replace, LockFree, TypeOK, Known
  <2> QED
    BY <2>1, <2>2, <2>3 DEF RebootInv, Before, After
<1>5. ~ResumeAtEnd
  BY DEF ResumeAtEnd, RebootInv, Before, After
<1>6. CASE (Internal \/ \E c \in Commands : Put(c)) /\ UNCHANGED step
  <2>1. Counted' /\ OneInside' /\ (IInv => IInv')
    BY <1>1, <1>6, StepsOfInvoker
  <2>2. CASE Before
    BY <1>6, <2>1, <2>2, NotYetPluggedIn DEF RebootInv, Before, After
  <2>3. CASE After
    BY <1>0, <1>6, <2>1, <2>3, NobodyElse DEF RebootInv, Before, After, Known
  <2> QED
    BY <2>2, <2>3 DEF RebootInv
<1>7. CASE UNCHANGED rebootVars
  <2>1. Counted' /\ OneInside' /\ (IInv => IInv')
    BY <1>1, <1>7 DEF rebootVars
  <2> QED
    BY <1>7, <2>1 DEF RebootInv, Before, After, rebootVars, vars, deviceVars
<1> QED
  BY <1>2, <1>3, <1>4, <1>5, <1>6, <1>7 DEF RebootNext, RebootStep

(* It holds in every state the reboot comes to. *)
THEOREM RebootInvariance == ASSUME Known PROVE RebootSpec => []RebootInv
<1>1. RebootInit => RebootInv
  BY IInvInit DEF RebootInit, RebootInv, Before, After, IInv, Init, Known
<1>2. RebootInv /\ [RebootNext]_rebootVars => RebootInv'
  BY RebootInvStep
<1> QED
  BY <1>1, <1>2, PTL DEF RebootSpec

(* The reboot of view.py (lines 385 to 396) never comes to its last line: replace_device   *)
(* waits for the lock that the procedure itself took by pausing and gives back only after, *)
(* whatever commands there are and however long everyone waits. *)
THEOREM RebootNeverEnds == ASSUME Known PROVE RebootSpec => [](step # "done")
<1>1. RebootInv => step # "done"
  BY DEF RebootInv, Before, After
<1> QED
  BY <1>1, RebootInvariance, PTL

(* And once it has closed the device, no command of the group is ever executed again: the *)
(* procedure has the lock for good, so no executor gets to take a command and run it.      *)
THEOREM NothingServedAfterClose ==
  ASSUME Known
  PROVE  RebootSpec => [](After => Running = {} /\ getters = 0 /\ locked)
<1>1. RebootInv => (After => Running = {} /\ getters = 0 /\ locked)
  BY HeldIsLocked DEF RebootInv, Counted, Known
<1> QED
  BY <1>1, RebootInvariance, PTL
=============================================================================
