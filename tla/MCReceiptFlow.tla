--------------------------- MODULE MCReceiptFlow ---------------------------
(* Small instances of ReceiptFlow: anything may fail, or nothing. *)
EXTENDS ReceiptFlow

AllFaults == {"save", "device", "reread", "stop", "hang", "disconnect"}
=============================================================================
