------------------------- MODULE MCShiftRegistrator -------------------------
(* Small instances of ShiftRegistrator: a device that may refuse any job, or none. *)
EXTENDS ShiftRegistrator

AllFaults == {"info", "register", "close"}
=============================================================================
