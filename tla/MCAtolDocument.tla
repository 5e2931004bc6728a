--------------------------- MODULE MCAtolDocument ---------------------------
(* Small instances of AtolDocument: anything may fail. *)
EXTENDS AtolDocument

AllFaults == {"open", "good", "pay", "total", "close", "cancel", "report", "param", "read", "down"}
=============================================================================
