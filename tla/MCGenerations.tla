---------------------------- MODULE MCGenerations ----------------------------
(***************************************************************************)
(* Instances of DatabaseGenerations for TLC: the model values, and the     *)
(* runs' bounds in the cfg files.                                          *)
(***************************************************************************)
EXTENDS DatabaseGenerations

CONSTANTS p1, p2, w1, w2
=============================================================================
