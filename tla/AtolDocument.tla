---------------------------- MODULE AtolDocument ----------------------------
(***************************************************************************)
(* The protocol of the atol adapter (adapters/atol/adapter.py) with its    *)
(* driver (libfptr10.py): a receipt is a document that is opened on the    *)
(* device, gets its goods, payments and total line by line and is closed;  *)
(* between receipts the shift is opened, closed and read.  Each call of    *)
(* the driver is a step; its return code says whether it failed.  The      *)
(* adapter checks most of these codes and cancels the document when one is *)
(* negative.  What raises without a code, a parameter or a date, leaves    *)
(* the document as it is.                                                  *)
(*                                                                         *)
(* The device is external and modelled by what the adapter relies on: one  *)
(* document at a time; a call that makes no sense for the document is      *)
(* refused; checkDocumentClosed is negative while a document is open; the  *)
(* first receipt opens the shift, and a shift closes between documents.  A *)
(* call may be refused for reasons of the device's own, and its answer may *)
(* get lost, when it was carried out and looks as if it had failed.        *)
(*                                                                         *)
(* One worker runs the adapter's calls one after the other, so there is at *)
(* most one call in the adapter.  Texts, taxes and the contents of the     *)
(* lines are in ReceiptIntake.                                             *)
(***************************************************************************)
EXTENDS Naturals, Sequences, SequencesExt, FiniteSets

CONSTANTS Receipts,
          ShiftCalls,  \* calls for the shift
          Goods,       \* commodities of each receipt
          Payments,    \* payments of each receipt
          Polls,       \* how often close_shift asks whether the document is closed
          Faults,      \* calls that may be refused ("open", "good", "pay", "total",
                       \* "close", "cancel", "report"), parameters that may be
                       \* ("param"), queries ("read"), the device out of reach ("down")
          None

ASSUME DocumentAssumption ==
    /\ Goods \in Nat /\ Payments \in Nat /\ Polls \in Nat \ {0}
    /\ Faults \subseteq {"open", "good", "pay", "total", "close", "cancel", "report",
                         "param", "read", "down"}
    /\ Receipts \cap ShiftCalls = {}
    /\ None \notin Receipts \cup ShiftCalls

VARIABLES
    testMode, \* the adapter's _test_mode
    lossy,    \* answers of the device may get lost, and what is read back be missing
    doc,      \* the device's open document: its lines, or None
    papers,   \* the documents the device has issued, in its memory for good
    shift,    \* the device has a shift open
    reached,  \* the device is in reach (isOpened)
    current,  \* the call the adapter is at, or None: a receipt, or a call for the shift
    at,       \* the call of the driver that comes next
    n,        \* how often the loop it is in has gone round
    told      \* told[c]: what the adapter has returned

vars == <<testMode, lossy, doc, papers, shift, reached, current, at, n, told>>
device == <<doc, papers, shift>>

Line(kind) == [of |-> current, kind |-> kind]

Init ==
    /\ testMode \in BOOLEAN
    /\ lossy \in BOOLEAN
    /\ doc = None
    /\ papers = <<>>
    /\ shift \in BOOLEAN
    /\ reached = TRUE
    /\ current = None
    /\ at = "idle"
    /\ n = 0
    /\ told = [c \in Receipts \cup ShiftCalls |-> "none"]

-----------------------------------------------------------------------------
(* The device *)

(* A call that the device carries out when possible: the document becomes d and *)
(* the papers p.  The adapter goes on at ok, or at failed for a negative code. *)
Call(name, possible, d, p, ok, failed) ==
    \/ /\ reached /\ possible
       /\ doc' = d /\ papers' = p
       /\ at' = ok \/ (lossy /\ at' = failed)
    \/ /\ ~reached \/ ~possible \/ name \in Faults
       /\ at' = failed
       /\ UNCHANGED <<doc, papers>>

(* The connection breaks, or is there again; while the data of a receipt are read *)
(* back only if they may be missing. *)
GoesDown ==
    /\ "down" \in Faults
    /\ lossy \/ at # "fiscalData"
    /\ reached' = ~reached
    /\ UNCHANGED <<device, current, at, n, told>>

(* _setparam looks a text up in the driver when it begins as its constants do: if    *)
(* there is none of that name, the exception ends the call, the document as it is.   *)
Parameter == "param" \in Faults /\ at' = "raise" /\ UNCHANGED <<doc, papers>>

-----------------------------------------------------------------------------
(* register_receipt *)

TellKept(answer) ==
    /\ told' = [told EXCEPT ![current] = answer]
    /\ current' = current
    /\ at' = "idle"

Tell(answer) ==
    /\ told' = [told EXCEPT ![current] = answer]
    /\ current' = None
    /\ at' = "idle"

(* _register_receipt begins: the worker takes the next receipt. *)
Begin(r) ==
    /\ at = "idle"
    /\ told[r] = "none"
    /\ current' = r
    /\ at' = "isOpened"
    /\ UNCHANGED <<device, reached, n, told>>

(* A device out of reach is told at once; isOpened changes nothing on it. *)
IsOpened ==
    /\ at = "isOpened"
    /\ \/ reached /\ at' = "check" /\ UNCHANGED <<current, told>>
       \/ ~reached /\ Tell("failed")
    /\ UNCHANGED <<device, reached, n>>

(* A document that an earlier receipt left open is cancelled first. *)
CheckDocument ==
    /\ at = "check"
    /\ Call("check", doc = None, doc, papers, "prepare", "clear")
    /\ UNCHANGED <<shift, reached, current, n, told>>

(* cancelReceipt, whose code nobody looks at. *)
Cancel(next) == Call("cancel", TRUE, None, papers, next, next)

Clear ==
    /\ at = "clear"
    /\ Cancel("prepare")
    /\ UNCHANGED <<shift, reached, current, n, told>>

(* The parameters of the document: its form, type and contact.  There is no cashier, *)
(* no correction and no tax system, and the type is in the adapter's table: no       *)
(* receipt the factory makes is otherwise (ReceiptIntake).                           *)
Prepare ==
    /\ at = "prepare"
    /\ \/ at' = "open" /\ UNCHANGED <<doc, papers>>
       \/ Parameter
    /\ UNCHANGED <<shift, reached, current, n, told>>

(* openReceipt; the device opens a shift if there is none. *)
Open ==
    /\ at = "open"
    /\ Call("open", doc = None, <<>>, papers, "goods", "cancel")
    /\ shift' = (shift \/ doc' # doc)
    /\ n' = 0
    /\ UNCHANGED <<reached, current, told>>

(* The loops over the commodities and over the payments. *)
AddLines(where, kind, count, next, failed) ==
    /\ at = where
    /\ \/ /\ n < count
          /\ Call(kind, TRUE, Append(doc, Line(kind)), papers, where, failed)
          /\ n' = n + 1
       \/ /\ n = count
          /\ at' = next
          /\ n' = 0
          /\ UNCHANGED <<doc, papers>>
    /\ UNCHANGED <<shift, reached, current, told>>

GoodUnchecked == AddLines("goods", "good", Goods, "pays", "goods")
Good ==
    \/ AddLines("goods", "good", Goods, "pays", "cancel")
    \/ /\ at = "goods" /\ n < Goods
       /\ Parameter
       /\ UNCHANGED <<shift, reached, current, n, told>>

Pay == AddLines("pays", "pay", Payments, "total", "cancel")

(* receiptTotal; in test mode the document is then taken back. *)
AfterTotal == IF testMode THEN "takeBack" ELSE "close"

SetTotal ==
    /\ at = "total"
    /\ Call("total", TRUE, Append(doc, Line("total")), papers, AfterTotal, "cancel")
    /\ UNCHANGED <<shift, reached, current, n, told>>

TakeBack ==
    /\ at = "takeBack"
    /\ Cancel("return")
    /\ UNCHANGED <<shift, reached, current, n, told>>

CloseUnchecked ==
    /\ at = "close"
    /\ Call("close", TRUE, None, Append(papers, doc), "fiscalData", "fiscalData")
    /\ UNCHANGED <<shift, reached, current, n, told>>

Close ==
    /\ at = "close"
    /\ Call("close", TRUE, None, Append(papers, doc), "fiscalData", "cancel")
    /\ UNCHANGED <<shift, reached, current, n, told>>

(* Queries whose codes nobody looks at, and a date that is then asked for: without  *)
(* an answer its year is 0 or what was there, and datetime takes no year 0. *)
Read(refusable) ==
    \/ at' = "return"
    \/ (~reached \/ refusable) /\ at' = "raise"

(* _set_receipt_fiscal_data: the document is closed by now. *)
FiscalData ==
    /\ at = "fiscalData"
    /\ Read(lossy /\ "read" \in Faults)
    /\ UNCHANGED <<device, reached, current, n, told>>

Return ==
    /\ at = "return"
    /\ Tell("ok")
    /\ UNCHANGED <<device, reached, n>>

(* A negative code: cancelReceipt and FiscalDeviceOperationError. *)
CancelAndRaise ==
    /\ at = "cancel"
    /\ Cancel("raise")
    /\ UNCHANGED <<shift, reached, current, n, told>>

Raise ==
    /\ at = "raise"
    /\ Tell("failed")
    /\ UNCHANGED <<device, reached, n>>

-----------------------------------------------------------------------------
(* The shift *)

BeginShiftCall(c) ==
    /\ at = "idle"
    /\ told[c] = "none"
    /\ current' = c
    /\ at' \in {"openShift", "report", "readShift"}
    /\ n' = 0
    /\ UNCHANGED <<device, reached, told>>

(* open_shift looks at no code. *)
OpenShift ==
    /\ at = "openShift"
    /\ shift' = (shift \/ (reached /\ doc = None)) \/ UNCHANGED shift
    /\ at' = "return"
    /\ UNCHANGED <<doc, papers, reached, current, n, told>>

(* close_shift: report, whose code nobody looks at, *)
Report ==
    /\ at = "report"
    /\ \/ reached /\ doc = None /\ shift' = FALSE
       \/ (~reached \/ doc # None \/ "report" \in Faults) /\ UNCHANGED shift
    /\ at' = "poll"
    /\ UNCHANGED <<doc, papers, reached, current, n, told>>

(* and then a look at the document, some times, until it is closed. *)
PollForEver ==
    /\ at = "poll"
    /\ Call("check", doc = None, doc, papers, "return", "poll")
    /\ UNCHANGED <<shift, reached, current, n, told>>
Poll ==
    /\ at = "poll"
    /\ Call("check", doc = None, doc, papers, "return",
            IF n + 1 >= Polls THEN "raise" ELSE "poll")
    /\ n' = IF at' = "return" THEN n ELSE n + 1
    /\ UNCHANGED <<shift, reached, current, told>>

(* get_shift_info *)
ReadShift ==
    /\ at = "readShift"
    /\ Read("read" \in Faults)
    /\ UNCHANGED <<device, reached, current, n, told>>

-----------------------------------------------------------------------------
Adapter == \/ \E r \in Receipts : Begin(r)
           \/ IsOpened \/ CheckDocument \/ Clear \/ Prepare \/ Open \/ Good \/ Pay
           \/ SetTotal \/ TakeBack \/ Close \/ FiscalData \/ Return
           \/ CancelAndRaise \/ Raise
           \/ \E c \in ShiftCalls : BeginShiftCall(c)
           \/ OpenShift \/ Report \/ Poll \/ ReadShift

(* What was configured, and the device's connection, stay as they are. *)
Next == (Adapter \/ GoesDown) /\ UNCHANGED <<testMode, lossy>>

Spec == Init /\ [][Next]_vars

(* The driver's calls return. *)
FairSpec == Spec /\ WF_vars(Adapter /\ UNCHANGED <<testMode, lossy>>)

-----------------------------------------------------------------------------
(* Properties *)

Steps == {"idle", "isOpened", "check", "clear", "prepare", "open", "goods", "pays", "total",
          "takeBack", "close", "fiscalData", "return", "cancel", "raise",
          "openShift", "report", "poll", "readShift"}
Lines == [of : Receipts, kind : {"good", "pay", "total"}]

ASSUME NoneIsNoDocument == None \notin Seq(Lines)

TypeOK ==
    /\ testMode \in BOOLEAN
    /\ lossy \in BOOLEAN
    /\ doc \in Seq(Lines) \cup {None}
    /\ papers \in Seq(Seq(Lines))
    /\ shift \in BOOLEAN
    /\ doc # None => shift
    /\ reached \in BOOLEAN
    /\ current \in Receipts \cup ShiftCalls \cup {None}
    /\ at \in Steps
    /\ at = "idle" <=> current = None
    /\ n \in 0..(Goods + Payments + Polls)
    /\ told \in [Receipts \cup ShiftCalls -> {"none", "ok", "failed"}]

(* Whatever was refused, lost or left open before, a document on paper is the   *)
(* whole of one receipt: its goods, its payments and its total, nothing of      *)
(* another receipt's (adapter.py, 126 to 163). *)
WholeOf(r, d) ==
    d = [i \in 1..Goods |-> [of |-> r, kind |-> "good"]]
        \o [i \in 1..Payments |-> [of |-> r, kind |-> "pay"]]
        \o <<[of |-> r, kind |-> "total"]>>

NoForeignLines == \A i \in DOMAIN papers : \E r \in Receipts : WholeOf(r, papers[i])

(* Seen from the command, a registration is what ReceiptDevice says: issued once *)
(* at most and told truly, an issued receipt told as failed only when answers    *)
(* may get lost. *)
Owner(d) == d[Len(d)].of
Issued == [r \in Receipts |-> Cardinality({i \in DOMAIN papers : Owner(papers[i]) = r})]

Device == INSTANCE ReceiptDevice WITH canLose <- lossy, issuesNone <- testMode,
                                      issued <- Issued,
                                      told <- [r \in Receipts |-> told[r]]
PrintedOnce == Device!Spec

(* Every call the adapter takes is told an outcome, whenever the device goes out *)
(* of reach, and whatever document was left open: one cannot be cleared away by  *)
(* a closing of the shift, which has to give up. *)
EveryCallTold ==
    \A c \in Receipts \cup ShiftCalls : current = c ~> told[c] # "none"
=============================================================================
