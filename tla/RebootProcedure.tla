--------------------------- MODULE RebootProcedure ---------------------------
(***************************************************************************)
(* The reboot of a running device as apps/admin/view.py lays it down (a    *)
(* procedure kept in a string literal at the end of the file), run against *)
(* CommandInvoker while clients put commands: pause, reboot, close, create *)
(* an adapter, replace, resume.                                            *)
(***************************************************************************)
EXTENDS CommandInvoker

CONSTANTS Rebooter,   \* the caller of the procedure, the only one of Pausers
          Fresh       \* the adapter it creates, the only one of NewAdapters

VARIABLE step         \* "idle", "pausing", "closed", "replacing" or "done"

rebootVars == <<vars, step>>

RebootInit == Init /\ step = "idle"

(* is_device_provided_for_group, then await pause_command_execution. *)
AskPause == /\ step = "idle"
            /\ Pause(Rebooter)
            /\ step' = "pausing"

(* Execution is paused: reboot and close_device run in the device's thread, *)
(* and create_adapter returns the new adapter. *)
RebootAndClose == /\ step = "pausing"
                  /\ pauser[Rebooter] = "holding"
                  /\ closed' = closed \cup {device}
                  /\ step' = "closed"
                  /\ UNCHANGED <<queueVars, lockVars, pauser, frAdapter, swap,
                                 attachment, device>>

AskReplace == /\ step = "closed"
              /\ Replace(Fresh)
              /\ step' = "replacing"

ResumeAtEnd == /\ step = "replacing"
               /\ swap[Fresh] = "done"
               /\ Resume(Rebooter)
               /\ step' = "done"

RebootStep == AskPause \/ RebootAndClose \/ AskReplace \/ ResumeAtEnd

RebootNext == \/ RebootStep
              \/ Internal /\ UNCHANGED step
              \/ \E c \in Commands : Put(c) /\ UNCHANGED step

(* The fairness of the loop, and a procedure that goes on whenever it can. *)
RebootSpec ==
    /\ RebootInit
    /\ [][RebootNext]_rebootVars
    /\ WF_rebootVars(Internal /\ UNCHANGED step)
    /\ WF_rebootVars(RebootStep)

(* Once execution is paused the procedure comes to its last line, where it is *)
(* resumed on the new adapter (view.py, lines 391 to 396). *)
RebootEnds == (step = "closed") ~> (step = "done")
=============================================================================
