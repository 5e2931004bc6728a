-------------------------- MODULE MCCommandInvoker --------------------------
(* Small instances of CommandInvoker: three commands, two of them of the same *)
(* priority, as every RegisterReceiptCommand is, and one that is more urgent. *)
EXTENDS CommandInvoker, TLC

CONSTANTS c1, c2, c3

TwoPriorities == c1 :> 5 @@ c2 :> 5 @@ c3 :> 1
=============================================================================
