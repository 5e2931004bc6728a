-------------------------- MODULE MCRebootProcedure --------------------------
(* RebootProcedure with two commands that clients put meanwhile. *)
EXTENDS RebootProcedure, TLC

CONSTANTS c1, c2

OnePriority == c1 :> 5 @@ c2 :> 5
=============================================================================
