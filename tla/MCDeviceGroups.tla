--------------------------- MODULE MCDeviceGroups ---------------------------
(* Small instances of DeviceGroups.  Requests may be exchanged. *)
EXTENDS DeviceGroups, TLC

Symmetry == Permutations(Requests)
=============================================================================
