---------------------------- MODULE ReceiptDevice ----------------------------
(***************************************************************************)
(* What a registration on a device is, whoever asks for it: the device     *)
(* issues a receipt or does not, never twice, and the caller is told so;   *)
(* only when an answer may get lost can an issued receipt be told as       *)
(* failed.  AtolDocument implements it for one adapter, ShiftRegistrator   *)
(* for the registrator above it, ReceiptFlow for the whole way of a        *)
(* receipt, over several devices and restarts.                             *)
(***************************************************************************)
EXTENDS Naturals

CONSTANT Receipts

VARIABLES canLose,     \* answers of the device may get lost
          issuesNone,  \* the adapter is in test mode: receipts are not issued
          issued,      \* issued[r]: how often the device has issued r
          told         \* told[r]: "none", "ok" or "failed", what the caller of r was told

Init == /\ canLose \in BOOLEAN
        /\ issuesNone \in BOOLEAN
        /\ issued = [r \in Receipts |-> 0]
        /\ told = [r \in Receipts |-> "none"]

Issue(r) ==
    /\ ~issuesNone
    /\ told[r] = "none"
    /\ issued[r] = 0
    /\ issued' = [issued EXCEPT ![r] = 1]
    /\ UNCHANGED told

Tell(r, answer) ==
    /\ told[r] = "none"
    /\ answer = "ok" => issued[r] > 0 \/ issuesNone
    /\ answer = "failed" => issued[r] = 0 \/ canLose
    /\ told' = [told EXCEPT ![r] = answer]
    /\ UNCHANGED issued

Next == /\ \E r \in Receipts : Issue(r) \/ \E answer \in {"ok", "failed"} : Tell(r, answer)
        /\ UNCHANGED <<canLose, issuesNone>>

Spec == Init /\ [][Next]_<<canLose, issuesNone, issued, told>>
=============================================================================
