---------------------------- MODULE SerialQueue ----------------------------
(***************************************************************************)
(* What the queue of a service group promises to those who submit commands *)
(* (the comment of hardware/fiscal_device_group_managers.py, line 86: a    *)
(* queue with priorities that executes its commands one after another).    *)
(*                                                                         *)
(* No lock, no executor task, no adapter: commands are submitted, wait,    *)
(* run one at a time, the most urgent of those waiting first, and end.     *)
(***************************************************************************)
EXTENDS Naturals

CONSTANTS Commands,     \* the commands that clients may submit
          Priority      \* Priority[c]: the smaller, the more urgent

VARIABLES status,       \* status[c]: "new", "queued", "running" or "done"
          stamp,        \* stamp[c]: the creation time of c
          clock         \* the time of day the stamps are taken from

vars == <<status, stamp, clock>>

(* c goes before d: a smaller priority, or the same one and an earlier creation. *)
Before(c, d) == \/ Priority[c] < Priority[d]
                \/ Priority[c] = Priority[d] /\ stamp[c] < stamp[d]

Init == /\ status = [c \in Commands |-> "new"]
        /\ stamp = [c \in Commands |-> 0]
        /\ clock = 0

Submit(c) == /\ status[c] = "new"
             /\ clock' \in {clock, clock + 1}
             /\ stamp' = [stamp EXCEPT ![c] = clock']
             /\ status' = [status EXCEPT ![c] = "queued"]

Start(c) == /\ status[c] = "queued"
            /\ \A d \in Commands : status[d] # "running"
            /\ \A d \in Commands : status[d] = "queued" => ~Before(d, c)
            /\ status' = [status EXCEPT ![c] = "running"]
            /\ UNCHANGED <<stamp, clock>>

Finish(c) == /\ status[c] = "running"
             /\ status' = [status EXCEPT ![c] = "done"]
             /\ UNCHANGED <<stamp, clock>>

Serve == \E c \in Commands : Start(c) \/ Finish(c)

Next == Serve \/ \E c \in Commands : Submit(c)

Spec == Init /\ [][Next]_vars
=============================================================================
