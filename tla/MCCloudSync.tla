----------------------------- MODULE MCCloudSync -----------------------------
(***************************************************************************)
(* Instances of CloudSync for TLC: the model values; the bounds are in the *)
(* cfg files.                                                              *)
(***************************************************************************)
EXTENDS CloudSync

CONSTANTS r1, r2
=============================================================================
